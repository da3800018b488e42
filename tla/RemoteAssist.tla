---------------------------- MODULE RemoteAssist ----------------------------
(***************************************************************************)
(* The remote-assistance manager (lib/remote_assist/                        *)
(* remote_assist_manager.dart) and its presence service                     *)
(* (remote_assist_presence_service.dart): refresh, the presence datagrams,  *)
(* start and stop.  A handler is cut at its awaits; the platform adapter    *)
(* is only its answers.  As with the chat manager, nothing starts it again  *)
(* after a stop.                                                           *)
(***************************************************************************)
EXTENDS Naturals, FiniteSets

CONSTANTS
    RaPeer,      \* peers a VNT connection may list
    RaMaxFails   \* bound on awaits of refresh that throw

ASSUME RaAssumption == RaMaxFails \in Nat

VARIABLES
    raStarted,   \* _started
    raStopping,  \* _stopping
    raTimer,     \* _refreshTimer is set
    raNodes,     \* _localNodes is not empty
    raBase,      \* _basePeers
    raPeers,     \* _peers: the listed peers and whether each has a presence
    raCache,     \* _presenceCache
    raHealth,    \* _health: "initial" or what the adapter collected
    raHeard,     \* the service's _announcements
    raSocket,    \* the service's _socket is set
    raOnSnapshot,\* the service's _onSnapshot is set
    raStart,     \* where start() is
    raRefresh,   \* where refresh() is, "off" when _refreshing is down
    raStop,      \* where stop() is
    raFailed,    \* the last refresh ended in its catch clause or an early return
    raFails

raService == <<raHeard, raSocket, raOnSnapshot>>
raVars == <<raStarted, raStopping, raTimer, raNodes, raBase, raPeers, raCache, raHealth,
            raService, raStart, raRefresh, raStop, raFailed, raFails>>

RaTypeOK ==
    /\ raStarted \in BOOLEAN /\ raStopping \in BOOLEAN /\ raTimer \in BOOLEAN
    /\ raNodes \in BOOLEAN
    /\ raBase \subseteq RaPeer /\ raPeers \subseteq RaPeer \X BOOLEAN
    /\ raCache \subseteq RaPeer /\ raHeard \subseteq RaPeer
    /\ raHealth \in {"initial", "read"}
    /\ raSocket \in BOOLEAN /\ raOnSnapshot \in BOOLEAN
    /\ raStart \in {"none", "adapter", "refresh", "done"}
    /\ raRefresh \in {"off", "adapter", "version", "bind", "presence", "collect"}
    /\ raStop \in {"none", "presence", "adapter", "done"}
    /\ raFailed \in BOOLEAN
    /\ raFails \in 0..RaMaxFails

RaInit ==
    /\ raStarted = FALSE /\ raStopping = FALSE /\ raTimer = FALSE
    /\ raNodes = FALSE /\ raBase = {} /\ raPeers = {} /\ raCache = {}
    /\ raHealth = "initial"
    /\ raHeard = {} /\ raSocket = FALSE /\ raOnSnapshot = FALSE
    /\ raStart = "none" /\ raRefresh = "off" /\ raStop = "none"
    /\ raFailed = FALSE /\ raFails = 0

(* _mergePeers: the peers the connections list, marked by the presence cache *)
MergePeers(base, cache) == {<<p, p \in cache>> : p \in base}

(* _emitSnapshot: the manager's callback stores the cache and merges.      *)
Snapshot(heard) ==
    /\ raHeard' = heard
    /\ raCache' = IF raOnSnapshot' THEN heard ELSE raCache
    /\ raPeers' = IF raOnSnapshot' THEN MergePeers(raBase, heard) ELSE raPeers

(* The service's stop(), synchronous up to its log entry.                  *)
ServiceStop ==
    /\ raSocket' = FALSE
    /\ UNCHANGED raOnSnapshot
    /\ Snapshot({})

(***************************************************************************)
(* refresh()                                                               *)
(***************************************************************************)
(* Its head reads every connection of the VNT manager without an await.    *)
RefreshReads ==
    IF raRefresh # "off" \/ ~raStarted' \/ raStopping'
      THEN UNCHANGED <<raNodes, raBase, raRefresh>>
      ELSE /\ raNodes' \in BOOLEAN
           /\ raBase' \in SUBSET RaPeer
           /\ raRefresh' = "adapter"

RaRefresh ==
    /\ UNCHANGED <<raStarted, raStopping>>
    /\ RefreshReads
    /\ UNCHANGED <<raTimer, raPeers, raCache, raHealth, raService, raStart, raStop,
                   raFailed, raFails>>

RaTick == raTimer /\ RaRefresh

(* A page that shows the manager, or one of its settings, asks for one.    *)
RaPage == raStart # "none" /\ RaRefresh

Abandoned == ~raStarted \/ raStopping

(* Back from adapter.refreshState, into _syncPresence. *)
SyncPresence ==
    /\ raRefresh = "adapter"
    /\ \/ /\ Abandoned
          /\ raRefresh' = "off"
          /\ raFailed' = TRUE
          /\ UNCHANGED <<raPeers, raCache, raService>>
       \/ /\ ~Abandoned /\ ~raNodes
          /\ raSocket' = FALSE
          /\ UNCHANGED raOnSnapshot
          /\ raHeard' = {}
          /\ raCache' = {}
          /\ raPeers' = IF raOnSnapshot THEN MergePeers(raBase, {}) ELSE raPeers
          /\ raRefresh' = "presence"
          /\ UNCHANGED raFailed
       \/ /\ ~Abandoned /\ raNodes
          /\ raRefresh' = "version"
          /\ UNCHANGED <<raPeers, raCache, raService, raFailed>>
    /\ UNCHANGED <<raStarted, raStopping, raTimer, raNodes, raBase, raHealth, raStart,
                   raStop, raFails>>

(* Back from resolveVersion: updateContexts, with the nodes of that moment,*)
(* which a stop may have taken away.                                       *)
RaUpdateContexts ==
    /\ raRefresh = "version"
    /\ raOnSnapshot' = TRUE
    /\ \/ /\ ~raNodes
          /\ raSocket' = FALSE
          /\ Snapshot({})
          /\ raRefresh' = "presence"
       \/ /\ raNodes
          /\ raRefresh' = IF raSocket THEN "presence" ELSE "bind"
          /\ UNCHANGED <<raHeard, raSocket, raCache, raPeers>>
    /\ UNCHANGED <<raStarted, raStopping, raTimer, raNodes, raBase, raHealth, raStart,
                   raStop, raFailed, raFails>>

RaBound ==
    /\ raRefresh = "bind"
    /\ raSocket' = TRUE
    /\ raRefresh' = "presence"
    /\ UNCHANGED <<raStarted, raStopping, raTimer, raNodes, raBase, raPeers, raCache,
                   raHealth, raHeard, raOnSnapshot, raStart, raStop, raFailed, raFails>>

(* Back from _syncPresence. *)
RaAskStatus ==
    /\ raRefresh = "presence"
    /\ raRefresh' = IF Abandoned THEN "off" ELSE "collect"
    /\ raFailed' = (raFailed \/ Abandoned)
    /\ UNCHANGED <<raStarted, raStopping, raTimer, raNodes, raBase, raPeers, raCache,
                   raHealth, raService, raStart, raStop, raFails>>

(* Back from collectStatus: the only await after which _started is not     *)
(* looked at again.                                                        *)
BugCollected ==
    /\ raHealth' = "read"
    /\ UNCHANGED raPeers

Collected ==
    /\ raHealth' = "read"
    /\ raPeers' = MergePeers(raBase, raCache)

RaCollect ==
    /\ raRefresh = "collect"
    /\ Collected
    /\ raRefresh' = "off"
    /\ raFailed' = FALSE
    /\ UNCHANGED <<raStarted, raStopping, raTimer, raNodes, raBase, raCache, raService,
                   raStart, raStop, raFails>>

(* Any of the awaits throws. *)
RaThrows ==
    /\ raRefresh # "off"
    /\ raFails < RaMaxFails
    /\ raFails' = raFails + 1
    /\ raRefresh' = "off"
    /\ raFailed' = TRUE
    /\ UNCHANGED <<raStarted, raStopping, raTimer, raNodes, raBase, raPeers, raCache,
                   raHealth, raService, raStart, raStop>>

(***************************************************************************)
(* Presence datagrams and their expiry                                     *)
(***************************************************************************)
RaHear(p) ==
    /\ raSocket
    /\ p \notin raHeard
    /\ UNCHANGED raOnSnapshot
    /\ Snapshot(raHeard \cup {p})
    /\ UNCHANGED <<raStarted, raStopping, raTimer, raNodes, raBase, raHealth, raSocket,
                   raStart, raRefresh, raStop, raFailed, raFails>>

RaForget(p) ==
    /\ p \in raHeard
    /\ UNCHANGED raOnSnapshot
    /\ Snapshot(raHeard \ {p})
    /\ UNCHANGED <<raStarted, raStopping, raTimer, raNodes, raBase, raHealth, raSocket,
                   raStart, raRefresh, raStop, raFailed, raFails>>

(***************************************************************************)
(* start() and stop()                                                      *)
(***************************************************************************)
RaStartCall ==
    /\ raStart = "none"
    /\ raStarted' = TRUE /\ raStopping' = FALSE
    /\ raStart' = "adapter"
    /\ UNCHANGED <<raTimer, raNodes, raBase, raPeers, raCache, raHealth, raService,
                   raRefresh, raStop, raFailed, raFails>>

RaStartRefresh ==
    /\ raStart = "adapter"
    /\ raStart' = "refresh"
    /\ UNCHANGED <<raStarted, raStopping>>
    /\ RefreshReads
    /\ UNCHANGED <<raTimer, raPeers, raCache, raHealth, raService, raStop, raFailed, raFails>>

RaStartTimer ==
    /\ raStart = "refresh"
    /\ raRefresh = "off"
    /\ raTimer' = TRUE
    /\ raStart' = "done"
    /\ UNCHANGED <<raStarted, raStopping, raNodes, raBase, raPeers, raCache, raHealth,
                   raService, raRefresh, raStop, raFailed, raFails>>

RaStopCall ==
    /\ raStart # "none"
    /\ raStop = "none"
    /\ raStarted' = FALSE /\ raStopping' = TRUE
    /\ raTimer' = FALSE
    /\ ServiceStop
    /\ raStop' = "presence"
    /\ UNCHANGED <<raNodes, raBase, raHealth, raStart, raRefresh, raFailed, raFails>>

RaStopAdapter ==
    /\ raStop = "presence"
    /\ raStop' = "adapter"
    /\ UNCHANGED <<raStarted, raStopping, raTimer, raNodes, raBase, raPeers, raCache,
                   raHealth, raService, raStart, raRefresh, raFailed, raFails>>

Cleared ==
    /\ raPeers' = {} /\ raNodes' = FALSE /\ raCache' = {} /\ raHealth' = "initial"
    /\ raBase' = {}

RaStopClears ==
    /\ raStop = "adapter"
    /\ Cleared
    /\ raStopping' = FALSE
    /\ raStop' = "done"
    /\ UNCHANGED <<raStarted, raTimer, raService, raStart, raRefresh, raFailed, raFails>>

RaNext ==
    \/ RaTick \/ RaPage \/ SyncPresence \/ RaUpdateContexts \/ RaBound \/ RaAskStatus \/ RaCollect
    \/ RaThrows
    \/ \E p \in RaPeer : RaHear(p) \/ RaForget(p)
    \/ RaStartCall \/ RaStartRefresh \/ RaStartTimer
    \/ RaStopCall \/ RaStopAdapter \/ RaStopClears

RaSpec == RaInit /\ [][RaNext]_raVars

-----------------------------------------------------------------------------
(* While no refresh is under way and the last one came to its end, the     *)
(* pages show exactly the peers of the last reading, each with the         *)
(* presence the service holds now: datagrams, their expiry and refreshes   *)
(* write the list in any order.                                            *)
PeersFresh ==
    raStarted /\ raRefresh = "off" /\ ~raFailed
        => raPeers = MergePeers(raBase, raHeard)

(* A stopped manager shows no peers, although a refresh that was awaiting  *)
(* its status writes the list after the stop and presence datagrams may    *)
(* still come in on a socket it opened late.  (The health it writes does   *)
(* stay: README, section 7.)                                               *)
StoppedShowsNoPeers == raStop = "done" => raPeers = {}

(* What the manager shows, in every state.                                 *)
RaSafe == RaTypeOK /\ PeersFresh /\ StoppedShowsNoPeers
=============================================================================
