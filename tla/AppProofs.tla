----------------------------- MODULE AppProofs -----------------------------
(***************************************************************************)
(* Proofs about the parts of the application around the chat and the VPN:  *)
(* the life cycle of the chat manager, remote assistance, the updater and  *)
(* the configuration store. Each has an inductive invariant of its own;    *)
(* the parts share no variable.                                            *)
(***************************************************************************)
EXTENDS ChatLifecycle, RemoteAssist, Updater, ConfigStore, TLAPS

-----------------------------------------------------------------------------
(* ChatLifecycle: what stop() leaves.                                      *)

Stopped == \E s \in Stop : stop[s] # "none"

(* A bind is awaited by one caller only, and while nothing is bound yet.   *)
LcBinds ==
    /\ ensure["bind"] + ensure["log"] <= 1
    /\ ensure["bind"] = 1 => ~server
    /\ refresh = "bind" => ~socket

(* Before the first start() nothing of the manager is set; it is started   *)
(* from there to the first stop.                                           *)
LcOrder ==
    /\ start = "none" =>
         /\ ~started /\ ~timer /\ ~server /\ ~socket /\ ~beat /\ ~contexts
         /\ refresh = "off" /\ ~TransportStarting /\ ~Stopped
    /\ Stopped => ~started
    /\ start # "none" /\ ~Stopped => started

(* A stop that nothing overlaps found every handler at its end, and no     *)
(* handler begins after it.                                                *)
LcQuiet ==
    Stopped /\ ~overlap =>
      /\ start = "done" /\ ~TransportStarting /\ refresh = "off"
      /\ ~(timer \/ socket \/ beat \/ contexts)
      /\ server => \A s \in Stop : stop[s] \in {"none", "presence"}

LcInv == LcTypeOK /\ SocketsHeld /\ LcBinds /\ LcOrder /\ LcQuiet

(* Nothing runs before the first start().                                  *)
LEMMA LcInitInv == LcInit => LcInv
<1> SUFFICES ASSUME LcInit PROVE LcInv
  OBVIOUS
<1>1. LcTypeOK
  <2>1. ensure \in [{"bind", "log"} -> 0..2] /\ bound \in [{"tcp", "udp"} -> 0..2]
    BY DEF LcInit
  <2>2. fails \in 0..LcMaxFails
    BY LcAssumption DEF LcInit
  <2> QED
    BY <2>1, <2>2 DEF LcInit, LcTypeOK
<1>2. SocketsHeld /\ LcBinds
  BY DEF LcInit, SocketsHeld, LcBinds
<1>3. LcOrder /\ LcQuiet
  BY DEF LcInit, LcOrder, LcQuiet, Stopped, TransportStarting
<1> QED
  BY <1>1, <1>2, <1>3 DEF LcInv

(* The invariant says more than the properties of the run.                 *)
LEMMA LcInvSafe == LcInv => LcSafe
  BY DEF LcInv, LcTypeOK, LcOrder, LcQuiet, LcSafe, StopQuiets, LcIdle, Stopped

(* Every handler of the manager, resumed at any await, keeps the           *)
(* invariant.                                                              *)
LEMMA LcStep == LcInv /\ [LcNext]_lcVars => LcInv'
<1> SUFFICES ASSUME LcInv, [LcNext]_lcVars PROVE LcInv'
  OBVIOUS
<1> USE LcAssumption DEF LcInv
<1>1. CASE LcStart
  <2>1. LcTypeOK'
    <3>1. (ensure \in [{"bind", "log"} -> 0..2])'
      BY <1>1 DEF LcStart, EnsureHead, RefreshHead, LcTypeOK, LcBinds, TransportStarting
    <3>2. (bound \in [{"tcp", "udp"} -> 0..2])'
      BY <1>1 DEF LcStart, EnsureHead, RefreshHead, LcTypeOK, SocketsHeld, LcBinds
    <3> QED
      BY <1>1, <3>1, <3>2 DEF LcStart, EnsureHead, RefreshHead, LcTypeOK
  <2>2. SocketsHeld' /\ LcBinds'
    BY <1>1 DEF LcStart, EnsureHead, RefreshHead, LcTypeOK, SocketsHeld, LcBinds,
       TransportStarting
  <2>3. LcOrder'
    BY <1>1 DEF LcStart, EnsureHead, RefreshHead, LcTypeOK, LcBinds, LcOrder, Stopped,
       TransportStarting
  <2>4. LcQuiet'
    BY <1>1 DEF LcStart, EnsureHead, RefreshHead, LcTypeOK, LcBinds, LcOrder, LcQuiet,
       Stopped, TransportStarting
  <2> QED
    BY <2>1, <2>2, <2>3, <2>4
<1>2. CASE StartStorage
  <2>1. LcTypeOK'
    BY <1>2 DEF StartStorage, EnsureHead, LcTypeOK, SocketsHeld, LcBinds, TransportStarting
  <2>2. SocketsHeld' /\ LcBinds'
    BY <1>2 DEF StartStorage, EnsureHead, LcTypeOK, SocketsHeld, LcBinds, TransportStarting
  <2>3. LcOrder'
    BY <1>2 DEF StartStorage, EnsureHead, LcTypeOK, LcBinds, LcOrder, Stopped,
       TransportStarting
  <2>4. LcQuiet'
    BY <1>2 DEF StartStorage, EnsureHead, LcTypeOK, LcBinds, LcOrder, LcQuiet, Stopped,
       TransportStarting
  <2> QED
    BY <2>1, <2>2, <2>3, <2>4
<1>3. CASE StartTransport
  <2>1. LcTypeOK'
    BY <1>3 DEF StartTransport, RefreshHead, LcTypeOK, SocketsHeld, LcBinds,
       TransportStarting
  <2>2. SocketsHeld' /\ LcBinds'
    BY <1>3 DEF StartTransport, RefreshHead, LcTypeOK, SocketsHeld, LcBinds,
       TransportStarting
  <2>3. LcOrder'
    BY <1>3 DEF StartTransport, RefreshHead, LcTypeOK, LcBinds, LcOrder, Stopped,
       TransportStarting
  <2>4. LcQuiet'
    BY <1>3 DEF StartTransport, RefreshHead, LcTypeOK, LcBinds, LcOrder, LcQuiet,
       Stopped, TransportStarting
  <2> QED
    BY <2>1, <2>2, <2>3, <2>4
<1>4. CASE StartRefresh
  <2>1. LcTypeOK'
    BY <1>4 DEF StartRefresh, LcTypeOK, SocketsHeld, LcBinds, TransportStarting
  <2>2. SocketsHeld' /\ LcBinds'
    BY <1>4 DEF StartRefresh, LcTypeOK, SocketsHeld, LcBinds, TransportStarting
  <2>3. LcOrder'
    BY <1>4 DEF StartRefresh, LcTypeOK, LcBinds, LcOrder, Stopped, TransportStarting
  <2>4. LcQuiet'
    BY <1>4 DEF StartRefresh, LcTypeOK, LcBinds, LcOrder, LcQuiet, Stopped,
       TransportStarting
  <2> QED
    BY <2>1, <2>2, <2>3, <2>4
<1>5. CASE LcTick
  <2>1. LcTypeOK'
    BY <1>5 DEF LcTick, EnsureHead, RefreshHead, LcTypeOK, SocketsHeld, LcBinds,
       TransportStarting
  <2>2. SocketsHeld' /\ LcBinds'
    BY <1>5 DEF LcTick, EnsureHead, RefreshHead, LcTypeOK, SocketsHeld, LcBinds,
       TransportStarting
  <2>3. LcOrder'
    BY <1>5 DEF LcTick, EnsureHead, RefreshHead, LcTypeOK, LcBinds, LcOrder, Stopped,
       TransportStarting
  <2>4. LcQuiet'
    BY <1>5 DEF LcTick, EnsureHead, RefreshHead, LcTypeOK, LcBinds, LcOrder, LcQuiet,
       Stopped, TransportStarting
  <2> QED
    BY <2>1, <2>2, <2>3, <2>4
<1>6. CASE VntChanged
  <2>1. LcTypeOK'
    BY <1>6 DEF VntChanged, EnsureHead, RefreshHead, LcTypeOK, SocketsHeld, LcBinds,
       TransportStarting
  <2>2. SocketsHeld' /\ LcBinds'
    BY <1>6 DEF VntChanged, EnsureHead, RefreshHead, LcTypeOK, SocketsHeld, LcBinds,
       TransportStarting
  <2>3. LcOrder'
    BY <1>6 DEF VntChanged, EnsureHead, RefreshHead, LcTypeOK, LcBinds, LcOrder,
       Stopped, TransportStarting
  <2>4. LcQuiet'
    BY <1>6 DEF VntChanged, EnsureHead, RefreshHead, LcTypeOK, LcBinds, LcOrder,
       LcQuiet, Stopped, TransportStarting
  <2> QED
    BY <2>1, <2>2, <2>3, <2>4
<1>7. CASE TransportBound
  <2>1. LcTypeOK'
    <3>1. (ensure \in [{"bind", "log"} -> 0..2])'
      BY <1>7 DEF TransportBound, LcTypeOK, LcBinds, TransportStarting
    <3>2. (bound \in [{"tcp", "udp"} -> 0..2])'
      BY <1>7 DEF TransportBound, LcTypeOK, SocketsHeld, LcBinds
    <3> QED
      BY <1>7, <3>1, <3>2 DEF TransportBound, LcTypeOK
  <2>2. SocketsHeld' /\ LcBinds'
    BY <1>7 DEF TransportBound, LcTypeOK, SocketsHeld, LcBinds, TransportStarting
  <2>3. LcOrder'
    BY <1>7 DEF TransportBound, LcTypeOK, LcBinds, LcOrder, Stopped, TransportStarting
  <2>4. LcQuiet'
    BY <1>7 DEF TransportBound, LcTypeOK, LcBinds, LcOrder, LcQuiet, Stopped,
       TransportStarting
  <2> QED
    BY <2>1, <2>2, <2>3, <2>4
<1>8. CASE TransportListens
  <2>1. LcTypeOK'
    BY <1>8 DEF TransportListens, LcTypeOK, SocketsHeld, LcBinds, TransportStarting
  <2>2. SocketsHeld' /\ LcBinds'
    BY <1>8 DEF TransportListens, LcTypeOK, SocketsHeld, LcBinds, TransportStarting
  <2>3. LcOrder'
    BY <1>8 DEF TransportListens, LcTypeOK, LcBinds, LcOrder, Stopped, TransportStarting
  <2>4. LcQuiet'
    BY <1>8 DEF TransportListens, LcTypeOK, LcBinds, LcOrder, LcQuiet, Stopped,
       TransportStarting
  <2> QED
    BY <2>1, <2>2, <2>3, <2>4
<1>9. CASE TransportFails
  <2>1. LcTypeOK'
    BY <1>9 DEF TransportFails, LcTypeOK, SocketsHeld, LcBinds, TransportStarting
  <2>2. SocketsHeld' /\ LcBinds'
    BY <1>9 DEF TransportFails, LcTypeOK, SocketsHeld, LcBinds, TransportStarting
  <2>3. LcOrder'
    BY <1>9 DEF TransportFails, LcTypeOK, LcBinds, LcOrder, Stopped, TransportStarting
  <2>4. LcQuiet'
    BY <1>9 DEF TransportFails, LcTypeOK, LcBinds, LcOrder, LcQuiet, Stopped,
       TransportStarting
  <2> QED
    BY <2>1, <2>2, <2>3, <2>4
<1>10. CASE UpdateContexts
  <2>1. LcTypeOK'
    <3>1. (ensure \in [{"bind", "log"} -> 0..2])'
      BY <1>10 DEF UpdateContexts, Silence, LcTypeOK, LcBinds, TransportStarting
    <3>2. (bound \in [{"tcp", "udp"} -> 0..2])'
      BY <1>10 DEF UpdateContexts, Silence, LcTypeOK, SocketsHeld, LcBinds
    <3> QED
      BY <1>10, <3>1, <3>2 DEF UpdateContexts, Silence, LcTypeOK
  <2>2. SocketsHeld' /\ LcBinds'
    BY <1>10 DEF UpdateContexts, Silence, LcTypeOK, SocketsHeld, LcBinds, TransportStarting
  <2>3. LcOrder'
    BY <1>10 DEF UpdateContexts, Silence, LcTypeOK, LcBinds, LcOrder, Stopped,
       TransportStarting
  <2>4. LcQuiet'
    BY <1>10 DEF UpdateContexts, Silence, LcTypeOK, LcBinds, LcOrder, LcQuiet, Stopped,
       TransportStarting
  <2> QED
    BY <2>1, <2>2, <2>3, <2>4
<1>11. CASE PresenceBound
  <2>1. LcTypeOK'
    BY <1>11 DEF PresenceBound, LcTypeOK, SocketsHeld, LcBinds, TransportStarting
  <2>2. SocketsHeld' /\ LcBinds'
    BY <1>11 DEF PresenceBound, LcTypeOK, SocketsHeld, LcBinds, TransportStarting
  <2>3. LcOrder'
    BY <1>11 DEF PresenceBound, LcTypeOK, LcBinds, LcOrder, Stopped, TransportStarting
  <2>4. LcQuiet'
    BY <1>11 DEF PresenceBound, LcTypeOK, LcBinds, LcOrder, LcQuiet, Stopped,
       TransportStarting
  <2> QED
    BY <2>1, <2>2, <2>3, <2>4
<1>12. CASE PresenceFails
  <2>1. LcTypeOK'
    BY <1>12 DEF PresenceFails, LcTypeOK, SocketsHeld, LcBinds, TransportStarting
  <2>2. SocketsHeld' /\ LcBinds'
    BY <1>12 DEF PresenceFails, LcTypeOK, SocketsHeld, LcBinds, TransportStarting
  <2>3. LcOrder'
    BY <1>12 DEF PresenceFails, LcTypeOK, LcBinds, LcOrder, Stopped, TransportStarting
  <2>4. LcQuiet'
    BY <1>12 DEF PresenceFails, LcTypeOK, LcBinds, LcOrder, LcQuiet, Stopped,
       TransportStarting
  <2> QED
    BY <2>1, <2>2, <2>3, <2>4
<1>13. CASE RefreshEnds
  <2>1. LcTypeOK'
    BY <1>13 DEF RefreshEnds, LcTypeOK, SocketsHeld, LcBinds, TransportStarting
  <2>2. SocketsHeld' /\ LcBinds'
    BY <1>13 DEF RefreshEnds, LcTypeOK, SocketsHeld, LcBinds, TransportStarting
  <2>3. LcOrder'
    BY <1>13 DEF RefreshEnds, LcTypeOK, LcBinds, LcOrder, Stopped, TransportStarting
  <2>4. LcQuiet'
    BY <1>13 DEF RefreshEnds, LcTypeOK, LcBinds, LcOrder, LcQuiet, Stopped,
       TransportStarting
  <2> QED
    BY <2>1, <2>2, <2>3, <2>4
<1>14. ASSUME NEW s \in Stop, LcStop(s) PROVE LcInv'
  <2>1. LcTypeOK'
    <3>1. (ensure \in [{"bind", "log"} -> 0..2])'
      BY <1>14 DEF LcStop, StopFirst, Silence, LcTypeOK, LcBinds, TransportStarting
    <3>2. (bound \in [{"tcp", "udp"} -> 0..2])'
      BY <1>14 DEF LcStop, StopFirst, Silence, LcTypeOK, SocketsHeld, LcBinds
    <3> QED
      BY <1>14, <3>1, <3>2 DEF LcStop, StopFirst, Silence, LcTypeOK
  <2>2. SocketsHeld' /\ LcBinds'
    BY <1>14 DEF LcStop, StopFirst, Silence, LcTypeOK, SocketsHeld, LcBinds,
       TransportStarting
  <2>3. LcOrder'
    BY <1>14 DEF LcStop, StopFirst, Silence, LcTypeOK, LcBinds, LcOrder, Stopped,
       TransportStarting
  <2>4. LcQuiet'
    BY <1>14 DEF LcStop, StopFirst, Silence, LcTypeOK, LcBinds, LcOrder, LcQuiet,
       Stopped, TransportStarting
  <2> QED
    BY <2>1, <2>2, <2>3, <2>4
<1>15. ASSUME NEW s \in Stop, LcStopTransport(s) PROVE LcInv'
  <2>1. LcTypeOK'
    <3>1. (ensure \in [{"bind", "log"} -> 0..2])'
      BY <1>15 DEF LcStopTransport, StopTransport, LcTypeOK, LcBinds, TransportStarting
    <3>2. (bound \in [{"tcp", "udp"} -> 0..2])'
      BY <1>15 DEF LcStopTransport, StopTransport, LcTypeOK, SocketsHeld, LcBinds
    <3> QED
      BY <1>15, <3>1, <3>2 DEF LcStopTransport, StopTransport, LcTypeOK
  <2>2. SocketsHeld' /\ LcBinds'
    BY <1>15 DEF LcStopTransport, StopTransport, LcTypeOK, SocketsHeld, LcBinds,
       TransportStarting
  <2>3. LcOrder'
    BY <1>15 DEF LcStopTransport, StopTransport, LcTypeOK, LcBinds, LcOrder, Stopped,
       TransportStarting
  <2>4. LcQuiet'
    BY <1>15 DEF LcStopTransport, StopTransport, LcTypeOK, LcBinds, LcOrder, LcQuiet,
       Stopped, TransportStarting
  <2> QED
    BY <2>1, <2>2, <2>3, <2>4
<1>16. ASSUME NEW s \in Stop, LcStopEnds(s) PROVE LcInv'
  <2>1. LcTypeOK'
    BY <1>16 DEF LcStopEnds, LcTypeOK, SocketsHeld, LcBinds, TransportStarting
  <2>2. SocketsHeld' /\ LcBinds'
    BY <1>16 DEF LcStopEnds, LcTypeOK, SocketsHeld, LcBinds, TransportStarting
  <2>3. LcOrder'
    BY <1>16 DEF LcStopEnds, LcTypeOK, LcBinds, LcOrder, Stopped, TransportStarting
  <2>4. LcQuiet'
    BY <1>16 DEF LcStopEnds, LcTypeOK, LcBinds, LcOrder, LcQuiet, Stopped, TransportStarting
  <2> QED
    BY <2>1, <2>2, <2>3, <2>4
<1>17. CASE UNCHANGED lcVars
  BY <1>17 DEF lcVars, LcTypeOK, SocketsHeld, LcBinds, LcOrder, LcQuiet, Stopped,
     TransportStarting
<1> QED
  BY <1>1, <1>2, <1>3, <1>4, <1>5, <1>6, <1>7, <1>8, <1>9, <1>10, <1>11, <1>12, <1>13,
     <1>14, <1>15, <1>16, <1>17 DEF LcNext

(* The process has exactly the sockets open that the two chat services     *)
(* hold, and a stop that no handler of a start or refresh overlaps leaves  *)
(* neither a listener nor a socket nor a timer (chat_manager.dart): for    *)
(* any number of calls of stop() and of failing binds, however the awaits  *)
(* interleave.                                                             *)
THEOREM ManagerStops == LcSpec => []LcSafe
<1>1. LcSpec => []LcInv
  BY LcInitInv, LcStep, PTL DEF LcSpec
<1> QED
  BY <1>1, LcInvSafe, PTL

-----------------------------------------------------------------------------
(* RemoteAssist: the host process and the page.                            *)

(* start() comes before stop(), and nothing is read or heard before it.    *)
RaOrder ==
    /\ raStart = "none" =>
         /\ raStop = "none" /\ ~raStarted /\ raRefresh = "off"
         /\ raBase = {} /\ raPeers = {} /\ raHeard = {} /\ ~raSocket
    /\ raStop # "none" => ~raStarted

(* Until the stop clears it, the cache is what the service has heard; the  *)
(* service hears nothing before it has the manager's callback; and a       *)
(* stopped manager has no peers left to mark.                              *)
RaHeld ==
    /\ raStop # "done" => raCache = raHeard
    /\ ~raOnSnapshot => raHeard = {} /\ ~raSocket /\ raRefresh # "bind"
    /\ raStop = "done" => raBase = {} /\ raPeers = {}

RaInv == RaTypeOK /\ RaOrder /\ RaHeld /\ PeersFresh

(* Nobody online, nobody listed.                                           *)
LEMMA MergeNone == \A known : MergePeers({}, known) = {}
  BY DEF MergePeers

(* What is listed are peers, and only those that are online.               *)
LEMMA MergeType ==
  ASSUME NEW base \in SUBSET RaPeer, NEW known
  PROVE  MergePeers(base, known) \subseteq RaPeer \X BOOLEAN
<1> SUFFICES ASSUME NEW p \in base PROVE <<p, p \in known>> \in RaPeer \X BOOLEAN
  BY Zenon DEF MergePeers
<1>1. p \in RaPeer /\ (p \in known) \in BOOLEAN
  OBVIOUS
<1> QED
  BY <1>1, Zenon

(* A manager that was not started shows no peers.                          *)
LEMMA RaInitInv == RaInit => RaInv
<1> SUFFICES ASSUME RaInit PROVE RaInv
  OBVIOUS
<1>1. RaTypeOK
  <2>1. raFails \in 0..RaMaxFails
    BY RaAssumption DEF RaInit
  <2> QED
    BY <2>1 DEF RaInit, RaTypeOK
<1>2. RaOrder /\ RaHeld /\ PeersFresh
  BY MergeNone DEF RaInit, RaOrder, RaHeld, PeersFresh
<1> QED
  BY <1>1, <1>2 DEF RaInv

(* The invariant says more than the properties of the run.                 *)
LEMMA RaInvSafe == RaInv => RaSafe
  BY DEF RaInv, RaHeld, RaSafe, StoppedShowsNoPeers

(* Every refresh, datagram and expiry, and start and stop, keep the        *)
(* invariant.                                                              *)
LEMMA RaStep == RaInv /\ [RaNext]_raVars => RaInv'
<1> SUFFICES ASSUME RaInv, [RaNext]_raVars PROVE RaInv'
  OBVIOUS
<1> USE RaAssumption, MergeNone, MergeType DEF RaInv
<1>1. CASE RaTick
  <2>1. RaTypeOK'
    BY <1>1 DEF RaTick, RaRefresh, RefreshReads, raService, RaTypeOK
  <2>2. RaOrder'
    BY <1>1 DEF RaTick, RaRefresh, RefreshReads, raService, RaTypeOK, RaOrder
  <2>3. RaHeld'
    BY <1>1 DEF RaTick, RaRefresh, RefreshReads, raService, RaTypeOK, RaOrder, RaHeld
  <2>4. PeersFresh'
    BY <1>1 DEF RaTick, RaRefresh, RefreshReads, raService, RaTypeOK, RaOrder, RaHeld,
       PeersFresh
  <2> QED
    BY <2>1, <2>2, <2>3, <2>4
<1>2. CASE RaPage
  <2>1. RaTypeOK'
    BY <1>2 DEF RaPage, RaRefresh, RefreshReads, raService, RaTypeOK
  <2>2. RaOrder'
    BY <1>2 DEF RaPage, RaRefresh, RefreshReads, raService, RaTypeOK, RaOrder
  <2>3. RaHeld'
    BY <1>2 DEF RaPage, RaRefresh, RefreshReads, raService, RaTypeOK, RaOrder, RaHeld
  <2>4. PeersFresh'
    BY <1>2 DEF RaPage, RaRefresh, RefreshReads, raService, RaTypeOK, RaOrder, RaHeld,
       PeersFresh
  <2> QED
    BY <2>1, <2>2, <2>3, <2>4
<1>3. CASE SyncPresence
  <2>1. RaTypeOK'
    BY <1>3 DEF SyncPresence, Abandoned, raService, RaTypeOK
  <2>2. RaOrder'
    BY <1>3 DEF SyncPresence, Abandoned, raService, RaTypeOK, RaOrder
  <2>3. RaHeld'
    BY <1>3 DEF SyncPresence, Abandoned, raService, RaTypeOK, RaOrder, RaHeld
  <2>4. PeersFresh'
    BY <1>3 DEF SyncPresence, Abandoned, raService, RaTypeOK, RaOrder, RaHeld,
       PeersFresh
  <2> QED
    BY <2>1, <2>2, <2>3, <2>4
<1>4. CASE RaUpdateContexts
  <2>1. RaTypeOK'
    BY <1>4 DEF RaUpdateContexts, Snapshot, raService, RaTypeOK
  <2>2. RaOrder'
    BY <1>4 DEF RaUpdateContexts, Snapshot, raService, RaTypeOK, RaOrder
  <2>3. RaHeld'
    BY <1>4 DEF RaUpdateContexts, Snapshot, raService, RaTypeOK, RaOrder, RaHeld
  <2>4. PeersFresh'
    BY <1>4 DEF RaUpdateContexts, Snapshot, raService, RaTypeOK, RaOrder, RaHeld,
       PeersFresh
  <2> QED
    BY <2>1, <2>2, <2>3, <2>4
<1>5. CASE RaBound
  <2>1. RaTypeOK'
    BY <1>5 DEF RaBound, raService, RaTypeOK
  <2>2. RaOrder'
    BY <1>5 DEF RaBound, raService, RaTypeOK, RaOrder
  <2>3. RaHeld'
    BY <1>5 DEF RaBound, raService, RaTypeOK, RaOrder, RaHeld
  <2>4. PeersFresh'
    BY <1>5 DEF RaBound, raService, RaTypeOK, RaOrder, RaHeld, PeersFresh
  <2> QED
    BY <2>1, <2>2, <2>3, <2>4
<1>6. CASE RaAskStatus
  <2>1. RaTypeOK'
    BY <1>6 DEF RaAskStatus, Abandoned, raService, RaTypeOK
  <2>2. RaOrder'
    BY <1>6 DEF RaAskStatus, Abandoned, raService, RaTypeOK, RaOrder
  <2>3. RaHeld'
    BY <1>6 DEF RaAskStatus, Abandoned, raService, RaTypeOK, RaOrder, RaHeld
  <2>4. PeersFresh'
    BY <1>6 DEF RaAskStatus, Abandoned, raService, RaTypeOK, RaOrder, RaHeld, PeersFresh
  <2> QED
    BY <2>1, <2>2, <2>3, <2>4
<1>7. CASE RaCollect
  <2>1. RaTypeOK'
    BY <1>7 DEF RaCollect, Collected, raService, RaTypeOK
  <2>2. RaOrder'
    BY <1>7 DEF RaCollect, Collected, raService, RaTypeOK, RaOrder
  <2>3. RaHeld'
    BY <1>7 DEF RaCollect, Collected, raService, RaTypeOK, RaOrder, RaHeld
  <2>4. PeersFresh'
    BY <1>7 DEF RaCollect, Collected, raService, RaTypeOK, RaOrder, RaHeld, PeersFresh
  <2> QED
    BY <2>1, <2>2, <2>3, <2>4
<1>8. CASE RaThrows
  <2>1. RaTypeOK'
    BY <1>8 DEF RaThrows, raService, RaTypeOK
  <2>2. RaOrder'
    BY <1>8 DEF RaThrows, raService, RaTypeOK, RaOrder
  <2>3. RaHeld'
    BY <1>8 DEF RaThrows, raService, RaTypeOK, RaOrder, RaHeld
  <2>4. PeersFresh'
    BY <1>8 DEF RaThrows, raService, RaTypeOK, RaOrder, RaHeld, PeersFresh
  <2> QED
    BY <2>1, <2>2, <2>3, <2>4
<1>9. ASSUME NEW p \in RaPeer, RaHear(p) PROVE RaInv'
  <2>1. RaTypeOK'
    BY <1>9 DEF RaHear, Snapshot, raService, RaTypeOK
  <2>2. RaOrder'
    BY <1>9 DEF RaHear, Snapshot, raService, RaTypeOK, RaOrder
  <2>3. RaHeld'
    BY <1>9 DEF RaHear, Snapshot, raService, RaTypeOK, RaOrder, RaHeld
  <2>4. PeersFresh'
    BY <1>9 DEF RaHear, Snapshot, raService, RaTypeOK, RaOrder, RaHeld, PeersFresh
  <2> QED
    BY <2>1, <2>2, <2>3, <2>4
<1>10. ASSUME NEW p \in RaPeer, RaForget(p) PROVE RaInv'
  <2>1. RaTypeOK'
    BY <1>10 DEF RaForget, Snapshot, raService, RaTypeOK
  <2>2. RaOrder'
    BY <1>10 DEF RaForget, Snapshot, raService, RaTypeOK, RaOrder
  <2>3. RaHeld'
    BY <1>10 DEF RaForget, Snapshot, raService, RaTypeOK, RaOrder, RaHeld
  <2>4. PeersFresh'
    BY <1>10 DEF RaForget, Snapshot, raService, RaTypeOK, RaOrder, RaHeld, PeersFresh
  <2> QED
    BY <2>1, <2>2, <2>3, <2>4
<1>11. CASE RaStartCall
  <2>1. RaTypeOK'
    BY <1>11 DEF RaStartCall, raService, RaTypeOK
  <2>2. RaOrder'
    BY <1>11 DEF RaStartCall, raService, RaTypeOK, RaOrder
  <2>3. RaHeld'
    BY <1>11 DEF RaStartCall, raService, RaTypeOK, RaOrder, RaHeld
  <2>4. PeersFresh'
    BY <1>11 DEF RaStartCall, raService, RaTypeOK, RaOrder, RaHeld, PeersFresh
  <2> QED
    BY <2>1, <2>2, <2>3, <2>4
<1>12. CASE RaStartRefresh
  <2>1. RaTypeOK'
    BY <1>12 DEF RaStartRefresh, RefreshReads, raService, RaTypeOK
  <2>2. RaOrder'
    BY <1>12 DEF RaStartRefresh, RefreshReads, raService, RaTypeOK, RaOrder
  <2>3. RaHeld'
    BY <1>12 DEF RaStartRefresh, RefreshReads, raService, RaTypeOK, RaOrder, RaHeld
  <2>4. PeersFresh'
    BY <1>12 DEF RaStartRefresh, RefreshReads, raService, RaTypeOK, RaOrder, RaHeld,
       PeersFresh
  <2> QED
    BY <2>1, <2>2, <2>3, <2>4
<1>13. CASE RaStartTimer
  <2>1. RaTypeOK'
    BY <1>13 DEF RaStartTimer, raService, RaTypeOK
  <2>2. RaOrder'
    BY <1>13 DEF RaStartTimer, raService, RaTypeOK, RaOrder
  <2>3. RaHeld'
    BY <1>13 DEF RaStartTimer, raService, RaTypeOK, RaOrder, RaHeld
  <2>4. PeersFresh'
    BY <1>13 DEF RaStartTimer, raService, RaTypeOK, RaOrder, RaHeld, PeersFresh
  <2> QED
    BY <2>1, <2>2, <2>3, <2>4
<1>14. CASE RaStopCall
  <2>1. RaTypeOK'
    BY <1>14 DEF RaStopCall, ServiceStop, Snapshot, raService, RaTypeOK
  <2>2. RaOrder'
    BY <1>14 DEF RaStopCall, ServiceStop, Snapshot, raService, RaTypeOK, RaOrder
  <2>3. RaHeld'
    BY <1>14 DEF RaStopCall, ServiceStop, Snapshot, raService, RaTypeOK, RaOrder, RaHeld
  <2>4. PeersFresh'
    BY <1>14 DEF RaStopCall, ServiceStop, Snapshot, raService, RaTypeOK, RaOrder,
       RaHeld, PeersFresh
  <2> QED
    BY <2>1, <2>2, <2>3, <2>4
<1>15. CASE RaStopAdapter
  <2>1. RaTypeOK'
    BY <1>15 DEF RaStopAdapter, raService, RaTypeOK
  <2>2. RaOrder'
    BY <1>15 DEF RaStopAdapter, raService, RaTypeOK, RaOrder
  <2>3. RaHeld'
    BY <1>15 DEF RaStopAdapter, raService, RaTypeOK, RaOrder, RaHeld
  <2>4. PeersFresh'
    BY <1>15 DEF RaStopAdapter, raService, RaTypeOK, RaOrder, RaHeld, PeersFresh
  <2> QED
    BY <2>1, <2>2, <2>3, <2>4
<1>16. CASE RaStopClears
  <2>1. RaTypeOK'
    BY <1>16 DEF RaStopClears, Cleared, raService, RaTypeOK
  <2>2. RaOrder'
    BY <1>16 DEF RaStopClears, Cleared, raService, RaTypeOK, RaOrder
  <2>3. RaHeld'
    BY <1>16 DEF RaStopClears, Cleared, raService, RaTypeOK, RaOrder, RaHeld
  <2>4. PeersFresh'
    BY <1>16 DEF RaStopClears, Cleared, raService, RaTypeOK, RaOrder, RaHeld, PeersFresh
  <2> QED
    BY <2>1, <2>2, <2>3, <2>4
<1>17. CASE UNCHANGED raVars
  BY <1>17 DEF RaTypeOK, RaOrder, RaHeld, PeersFresh, raVars, raService
<1> QED
  BY <1>1, <1>2, <1>3, <1>4, <1>5, <1>6, <1>7, <1>8, <1>9, <1>10, <1>11, <1>12, <1>13,
     <1>14, <1>15, <1>16, <1>17 DEF RaNext

(* While no refresh is under way the pages show the peers of the last      *)
(* reading with the presence held now, and a stopped manager shows none    *)
(* (remote_assist_manager.dart): in whatever order refreshes, datagrams,   *)
(* their expiry and the stop write the list.                               *)
THEOREM AssistSafe == RaSpec => []RaSafe
<1>1. RaSpec => []RaInv
  BY RaInitInv, RaStep, PTL DEF RaSpec
<1> QED
  BY <1>1, RaInvSafe, PTL

-----------------------------------------------------------------------------
(* Updater: one download, one installation.                                *)

(* Until a dialog is dismissed in its download, only the dialog on the     *)
(* screen is busy, and only in an application that is not about to exit.   *)
UpAlone ==
    ~dismissed =>
      /\ \A d \in Dialog : Busy(d) => shown = d /\ app = "runs"
      /\ app = "exiting" => shown = NoDialog

(* Then the file is all of its writer: while it downloads, and when it has *)
(* come to its end.                                                        *)
UpFile ==
    ~dismissed =>
      \A d \in Dialog :
        /\ dialog[d] = "download" =>
             file.there /\ file.by = d /\ ~file.mixed /\ handles = {d}
        /\ dialog[d] = "launch" => file.there /\ file.whole

(* Then an updater process has been launched by an application that is     *)
(* leaving, and nobody touches the file before its installer is run.       *)
UpSessions ==
    ~dismissed =>
      \A d \in Dialog :
        /\ session[d] \in {"begin", "wait", "install"} =>
             app # "runs" /\ file.there /\ file.whole
        /\ session[d] = "install" => app = "gone"
        /\ ran[d] # "broken"

UpInv == UpTypeOK /\ UpAlone /\ UpFile /\ UpSessions

(* No dialog has been opened, and nothing was downloaded.                  *)
LEMMA UpInitInv == UpInit => UpInv
<1> SUFFICES ASSUME UpInit PROVE UpInv
  OBVIOUS
<1>1. file \in [there : BOOLEAN, by : Dialog \cup {NoDialog}, mixed : BOOLEAN, whole : BOOLEAN]
  BY DEF UpInit, NoFile
<1>2. upFails \in 0..UpMaxFails
  BY UpAssumption DEF UpInit
<1>3. UpTypeOK
  BY <1>1, <1>2 DEF UpInit, UpTypeOK
<1>4. UpAlone /\ UpFile /\ UpSessions
  BY DEF UpInit, UpAlone, UpFile, UpSessions, Busy
<1> QED
  BY <1>3, <1>4 DEF UpInv

(* The invariant says more than the properties of the run.                 *)
LEMMA UpInvSafe == UpInv => UpSafe
  BY DEF UpInv, UpTypeOK, UpSessions, UpSafe, InstallsWhole, OldProcessGone

(* Every step of a dialog, of its download and of the updater process      *)
(* keeps the invariant.                                                    *)
LEMMA UpStep == UpInv /\ [UpNext]_upVars => UpInv'
<1> SUFFICES ASSUME UpInv, [UpNext]_upVars PROVE UpInv'
  OBVIOUS
<1> USE UpAssumption DEF UpInv
<1>1. ASSUME NEW d \in Dialog, UpShow(d) PROVE UpInv'
  <2>1. UpTypeOK'
    BY <1>1 DEF UpShow, AppAlive, Busy, UpTypeOK
  <2>2. UpAlone'
    BY <1>1 DEF UpShow, AppAlive, Busy, UpTypeOK, UpAlone
  <2>3. UpFile'
    BY <1>1 DEF UpShow, AppAlive, Busy, UpTypeOK, UpAlone, UpFile
  <2>4. UpSessions'
    BY <1>1 DEF UpShow, AppAlive, Busy, UpTypeOK, UpAlone, UpFile, UpSessions
  <2> QED
    BY <2>1, <2>2, <2>3, <2>4
<1>2. ASSUME NEW d \in Dialog, UpDismiss(d) PROVE UpInv'
  <2>1. UpTypeOK'
    BY <1>2 DEF UpDismiss, AppAlive, Busy, UpTypeOK
  <2>2. UpAlone'
    BY <1>2 DEF UpDismiss, AppAlive, Busy, UpTypeOK, UpAlone
  <2>3. UpFile'
    BY <1>2 DEF UpDismiss, AppAlive, Busy, UpTypeOK, UpAlone, UpFile
  <2>4. UpSessions'
    BY <1>2 DEF UpDismiss, AppAlive, Busy, UpTypeOK, UpAlone, UpFile, UpSessions
  <2> QED
    BY <2>1, <2>2, <2>3, <2>4
<1>3. ASSUME NEW d \in Dialog, UpPress(d) PROVE UpInv'
  <2>1. UpTypeOK'
    BY <1>3 DEF UpPress, AppAlive, Busy, UpTypeOK
  <2>2. UpAlone'
    BY <1>3 DEF UpPress, AppAlive, Busy, UpTypeOK, UpAlone
  <2>3. UpFile'
    BY <1>3 DEF UpPress, AppAlive, Busy, UpTypeOK, UpAlone, UpFile
  <2>4. UpSessions'
    BY <1>3 DEF UpPress, AppAlive, Busy, UpTypeOK, UpAlone, UpFile, UpSessions
  <2> QED
    BY <2>1, <2>2, <2>3, <2>4
<1>4. ASSUME NEW d \in Dialog, UpDelete(d) PROVE UpInv'
  <2>1. UpTypeOK'
    <3>1. NoFile
              \in [there : BOOLEAN, by : Dialog \cup {NoDialog}, mixed : BOOLEAN, whole : BOOLEAN]
      BY UpAssumption DEF NoFile
    <3>2. file' = file \/ file' = NoFile
      BY <1>4 DEF UpDelete
    <3>3. file'
              \in [there : BOOLEAN, by : Dialog \cup {NoDialog}, mixed : BOOLEAN, whole : BOOLEAN]
      BY <3>1, <3>2 DEF UpTypeOK
    <3> QED
      BY <1>4, <3>3 DEF UpDelete, UpTypeOK, AppAlive
  <2>2. UpAlone'
    BY <1>4 DEF UpDelete, NoFile, AppAlive, Busy, UpTypeOK, UpAlone
  <2>3. UpFile'
    BY <1>4 DEF UpDelete, NoFile, AppAlive, Busy, UpTypeOK, UpAlone, UpFile
  <2>4. UpSessions'
    BY <1>4 DEF UpDelete, NoFile, AppAlive, Busy, UpTypeOK, UpAlone, UpFile, UpSessions
  <2> QED
    BY <2>1, <2>2, <2>3, <2>4
<1>5. ASSUME NEW d \in Dialog, UpOpen(d) PROVE UpInv'
  <2>1. UpTypeOK'
    BY <1>5 DEF UpOpen, AppAlive, Busy, UpTypeOK
  <2>2. UpAlone'
    BY <1>5 DEF UpOpen, AppAlive, Busy, UpTypeOK, UpAlone
  <2>3. UpFile'
    BY <1>5 DEF UpOpen, AppAlive, Busy, UpTypeOK, UpAlone, UpFile
  <2>4. UpSessions'
    BY <1>5 DEF UpOpen, AppAlive, Busy, UpTypeOK, UpAlone, UpFile, UpSessions
  <2> QED
    BY <2>1, <2>2, <2>3, <2>4
<1>6. ASSUME NEW d \in Dialog, UpReceived(d) PROVE UpInv'
  <2>1. UpTypeOK'
    BY <1>6 DEF UpReceived, AppAlive, Busy, UpTypeOK
  <2>2. UpAlone'
    BY <1>6 DEF UpReceived, AppAlive, Busy, UpTypeOK, UpAlone
  <2>3. UpFile'
    BY <1>6 DEF UpReceived, AppAlive, Busy, UpTypeOK, UpAlone, UpFile
  <2>4. UpSessions'
    BY <1>6 DEF UpReceived, AppAlive, Busy, UpTypeOK, UpAlone, UpFile, UpSessions
  <2> QED
    BY <2>1, <2>2, <2>3, <2>4
<1>7. ASSUME NEW d \in Dialog, UpBreaks(d) PROVE UpInv'
  <2>1. UpTypeOK'
    <3>1. [there |-> TRUE, by |-> d, mixed |-> FALSE, whole |-> FALSE]
              \in [there : BOOLEAN, by : Dialog \cup {NoDialog}, mixed : BOOLEAN, whole : BOOLEAN]
      BY UpAssumption
    <3>2. file' = file \/ file' = [there |-> TRUE, by |-> d, mixed |-> FALSE, whole |-> FALSE]
      BY <1>7 DEF UpBreaks, BreaksOff
    <3>3. file'
              \in [there : BOOLEAN, by : Dialog \cup {NoDialog}, mixed : BOOLEAN, whole : BOOLEAN]
      BY <3>1, <3>2 DEF UpTypeOK
    <3> QED
      BY <1>7, <3>3 DEF UpBreaks, BreaksOff, UpTypeOK, AppAlive
  <2>2. UpAlone'
    BY <1>7 DEF UpBreaks, BreaksOff, AppAlive, Busy, UpTypeOK, UpAlone
  <2>3. UpFile'
    BY <1>7 DEF UpBreaks, BreaksOff, AppAlive, Busy, UpTypeOK, UpAlone, UpFile
  <2>4. UpSessions'
    BY <1>7 DEF UpBreaks, BreaksOff, AppAlive, Busy, UpTypeOK, UpAlone, UpFile,
       UpSessions
  <2> QED
    BY <2>1, <2>2, <2>3, <2>4
<1>8. ASSUME NEW d \in Dialog, UpLaunch(d) PROVE UpInv'
  <2>1. UpTypeOK'
    BY <1>8 DEF UpLaunch, Launch, AppAlive, Busy, UpTypeOK
  <2>2. UpAlone'
    BY <1>8 DEF UpLaunch, Launch, AppAlive, Busy, UpTypeOK, UpAlone
  <2>3. UpFile'
    BY <1>8 DEF UpLaunch, Launch, AppAlive, Busy, UpTypeOK, UpAlone, UpFile
  <2>4. UpSessions'
    BY <1>8 DEF UpLaunch, Launch, AppAlive, Busy, UpTypeOK, UpAlone, UpFile, UpSessions
  <2> QED
    BY <2>1, <2>2, <2>3, <2>4
<1>9. ASSUME NEW d \in Dialog, UpLaunchFails(d) PROVE UpInv'
  <2>1. UpTypeOK'
    BY <1>9 DEF UpLaunchFails, AppAlive, Busy, UpTypeOK
  <2>2. UpAlone'
    BY <1>9 DEF UpLaunchFails, AppAlive, Busy, UpTypeOK, UpAlone
  <2>3. UpFile'
    BY <1>9 DEF UpLaunchFails, AppAlive, Busy, UpTypeOK, UpAlone, UpFile
  <2>4. UpSessions'
    BY <1>9 DEF UpLaunchFails, AppAlive, Busy, UpTypeOK, UpAlone, UpFile, UpSessions
  <2> QED
    BY <2>1, <2>2, <2>3, <2>4
<1>10. ASSUME NEW d \in Dialog, UpBegin(d) PROVE UpInv'
  <2>1. UpTypeOK'
    BY <1>10 DEF UpBegin, AppAlive, Busy, UpTypeOK
  <2>2. UpAlone'
    BY <1>10 DEF UpBegin, AppAlive, Busy, UpTypeOK, UpAlone
  <2>3. UpFile'
    BY <1>10 DEF UpBegin, AppAlive, Busy, UpTypeOK, UpAlone, UpFile
  <2>4. UpSessions'
    BY <1>10 DEF UpBegin, AppAlive, Busy, UpTypeOK, UpAlone, UpFile, UpSessions
  <2> QED
    BY <2>1, <2>2, <2>3, <2>4
<1>11. ASSUME NEW d \in Dialog, UpWaited(d) PROVE UpInv'
  <2>1. UpTypeOK'
    BY <1>11 DEF UpWaited, Waited, AppAlive, Busy, UpTypeOK
  <2>2. UpAlone'
    BY <1>11 DEF UpWaited, Waited, AppAlive, Busy, UpTypeOK, UpAlone
  <2>3. UpFile'
    BY <1>11 DEF UpWaited, Waited, AppAlive, Busy, UpTypeOK, UpAlone, UpFile
  <2>4. UpSessions'
    BY <1>11 DEF UpWaited, Waited, AppAlive, Busy, UpTypeOK, UpAlone, UpFile, UpSessions
  <2> QED
    BY <2>1, <2>2, <2>3, <2>4
<1>12. ASSUME NEW d \in Dialog, UpInstall(d) PROVE UpInv'
  <2>1. UpTypeOK'
    BY <1>12 DEF UpInstall, AppAlive, Busy, UpTypeOK
  <2>2. UpAlone'
    BY <1>12 DEF UpInstall, AppAlive, Busy, UpTypeOK, UpAlone
  <2>3. UpFile'
    BY <1>12 DEF UpInstall, AppAlive, Busy, UpTypeOK, UpAlone, UpFile
  <2>4. UpSessions'
    BY <1>12 DEF UpInstall, AppAlive, Busy, UpTypeOK, UpAlone, UpFile, UpSessions
  <2> QED
    BY <2>1, <2>2, <2>3, <2>4
<1>13. ASSUME NEW d \in Dialog, UpStarted(d) PROVE UpInv'
  <2>1. UpTypeOK'
    BY <1>13 DEF UpStarted, AppAlive, Busy, UpTypeOK
  <2>2. UpAlone'
    BY <1>13 DEF UpStarted, AppAlive, Busy, UpTypeOK, UpAlone
  <2>3. UpFile'
    BY <1>13 DEF UpStarted, AppAlive, Busy, UpTypeOK, UpAlone, UpFile
  <2>4. UpSessions'
    BY <1>13 DEF UpStarted, AppAlive, Busy, UpTypeOK, UpAlone, UpFile, UpSessions
  <2> QED
    BY <2>1, <2>2, <2>3, <2>4
<1>14. CASE UpExit
  <2>1. UpTypeOK'
    BY <1>14 DEF UpExit, AppAlive, Busy, UpTypeOK
  <2>2. UpAlone'
    BY <1>14 DEF UpExit, AppAlive, Busy, UpTypeOK, UpAlone
  <2>3. UpFile'
    BY <1>14 DEF UpExit, AppAlive, Busy, UpTypeOK, UpAlone, UpFile
  <2>4. UpSessions'
    BY <1>14 DEF UpExit, AppAlive, Busy, UpTypeOK, UpAlone, UpFile, UpSessions
  <2> QED
    BY <2>1, <2>2, <2>3, <2>4
<1>15. CASE UNCHANGED upVars
  BY <1>15 DEF UpTypeOK, UpAlone, UpFile, UpSessions, AppAlive, Busy, upVars
<1> QED
  BY <1>1, <1>2, <1>3, <1>4, <1>5, <1>6, <1>7, <1>8, <1>9, <1>10, <1>11, <1>12, <1>13,
     <1>14, <1>15 DEF UpNext

(* An installer is run only on a whole download and only after the old     *)
(* process has gone, unless a dialog was dismissed while it was            *)
(* downloading (update_service.dart, update_dialog.dart): for any number   *)
(* of dialogs that write the same path.                                    *)
THEOREM UpdaterSafe == UpSpec => []UpSafe
<1>1. UpSpec => []UpInv
  BY UpInitInv, UpStep, PTL DEF UpSpec
<1> QED
  BY <1>1, UpInvSafe, PTL

-----------------------------------------------------------------------------
(* ConfigStore: memory, file and crash.                                    *)

(* Where a call is and what it has to write.                               *)
OpType ==
    [kind : {"save", "size"}, at : {"none", "open", "write", "done"}, second : BOOLEAN,
     text : CfMap, lone : BOOLEAN, sole : BOOLEAN]

(* A call that is alone writes what is in memory, and while nothing was    *)
(* mixed every call is alone.                                              *)
CfLone ==
    /\ \A o \in UnderWay : op[o].lone => UnderWay = {o} /\ op[o].text = cache
    /\ ~mixed => \A o \in UnderWay : op[o].lone

(* A saveData without another has its own list in memory, and its own copy *)
(* once it is at its second key; while nothing was torn every saveData is  *)
(* of that kind.                                                           *)
CfSole ==
    /\ \A o \in CfOp : op[o].second => op[o].kind = "save"
    /\ \A o \in Saves :
         op[o].sole => /\ Saves = {o} /\ cache["data"] = o
                       /\ op[o].second => cache["native"] = o
    /\ ~torn => \A o \in Saves : op[o].sole

(* The copy follows the list whatever other keys are being written.        *)
CfNative == Saves = {} /\ ~torn => cache["native"] = cache["data"]

CfInv == CfTypeOK /\ CfLone /\ FileFollows /\ CfSole /\ CfNative

(* No call is under way, and the file holds what is in memory.             *)
LEMMA CfInitInv == CfInit => CfInv
<1> SUFFICES ASSUME CfInit PROVE CfInv
  OBVIOUS
<1>1. NoMap \in CfMap
  BY DEF NoMap, CfMap, NoVal
<1>2. CfTypeOK
  <2>1. crashes \in 0..CfMaxCrashes
    BY CfAssumption DEF CfInit
  <2>2. op \in [CfOp -> OpType]
    BY <1>1 DEF CfInit, OpType
  <2> QED
    BY <1>1, <2>1, <2>2 DEF CfInit, CfTypeOK, OpType
<1>3. UnderWay = {} /\ Saves = {}
  BY DEF CfInit, UnderWay, Saves
<1>4. CfLone /\ FileFollows /\ CfSole /\ CfNative
  BY <1>3 DEF CfInit, CfLone, FileFollows, CfSole, CfNative, NoMap, CfKey
<1> QED
  BY <1>2, <1>4 DEF CfInv

(* The invariant says more than the properties of the run.                 *)
LEMMA CfInvSafe == CfInv => CfSafe
  BY DEF CfInv, CfNative, CfSafe, NativeFollows, Saves

(* Every call, every write of the file and every end of the process keeps  *)
(* the invariant.                                                          *)
LEMMA CfStep == CfInv /\ [CfNext]_cfVars => CfInv'
<1> SUFFICES ASSUME CfInv, [CfNext]_cfVars PROVE CfInv'
  OBVIOUS
<1> USE CfAssumption DEF CfInv
<1>1. ASSUME NEW o \in CfOp, NEW kind \in {"save", "size"}, CfCall(o, kind) PROVE CfInv'
  <2> DEFINE next == [cache EXCEPT ![IF kind = "save" THEN "data" ELSE "size"] = o]
             mine == [kind |-> kind, at |-> "open", second |-> FALSE, text |-> next,
                      lone |-> UnderWay = {}, sole |-> Saves = {}]
             theirs(p) == [op[p] EXCEPT !.lone = FALSE, !.sole = @ /\ kind # "save"]
  <2>1. /\ op[o].at = "none" /\ cache' = next
        /\ op' = [p \in CfOp |-> IF p = o THEN mine ELSE theirs(p)]
        /\ torn' = (torn \/ (kind = "save" /\ Saves # {}))
        /\ mixed' = (mixed \/ UnderWay # {})
        /\ disk' = disk /\ crashes' = crashes
    BY <1>1 DEF CfCall
  <2>2. /\ next \in CfMap
        /\ kind = "save" => next["data"] = o /\ next["native"] = cache["native"]
        /\ kind = "size" => next["data"] = cache["data"] /\ next["native"] = cache["native"]
    BY DEF CfTypeOK, CfMap, CfKey
  <2> HIDE DEF next
  <2>3. mine \in OpType
    <3>1. (UnderWay = {}) \in BOOLEAN /\ (Saves = {}) \in BOOLEAN
      OBVIOUS
    <3> QED
      BY <2>2, <3>1 DEF OpType
  <2>4. op \in [CfOp -> OpType]
    BY DEF CfTypeOK, OpType
  <2>5. /\ op'[o].kind = kind /\ op'[o].at = "open" /\ op'[o].second = FALSE
        /\ op'[o].text = next
        /\ op'[o].lone <=> UnderWay = {}
        /\ op'[o].sole <=> Saves = {}
    BY <2>1
  <2>6. ASSUME NEW p \in CfOp, p # o
        PROVE  /\ op'[p] \in OpType
               /\ op'[p].kind = op[p].kind /\ op'[p].at = op[p].at
               /\ op'[p].second = op[p].second /\ op'[p].text = op[p].text
               /\ ~op'[p].lone
               /\ op'[p].sole <=> op[p].sole /\ kind # "save"
    <3>1. op'[p] = theirs(p)
      BY <2>1, <2>6
    <3>2. op[p] \in OpType
      BY <2>4
    <3>3. (op[p].sole /\ kind # "save") \in BOOLEAN
      OBVIOUS
    <3> QED
      BY <3>1, <3>2, <3>3 DEF OpType
  <2>7. op' \in [CfOp -> OpType]
    <3>1. op'[o] \in OpType
      BY <2>1, <2>3
    <3>2. DOMAIN op' = CfOp /\ op' = [p \in CfOp |-> op'[p]]
      BY <2>1
    <3>3. \A p \in CfOp : op'[p] \in OpType
      BY <3>1, <2>6
    <3> QED
      BY <3>2, <3>3
  <2> HIDE DEF mine, theirs
  <2>8. CfTypeOK'
    <3>1. torn' \in BOOLEAN /\ mixed' \in BOOLEAN
      BY <2>1
    <3> QED
      BY <2>1, <2>2, <2>7, <3>1 DEF CfTypeOK, OpType
  <2>9. UnderWay' = UnderWay \cup {o} /\ o \notin UnderWay
    BY <2>1, <2>5, <2>6 DEF UnderWay
  <2>10. Saves' = IF kind = "save" THEN Saves \cup {o} ELSE Saves
    <3>1. \A p \in UnderWay : op'[p].kind = op[p].kind /\ p # o
      BY <2>6, <2>9 DEF UnderWay
    <3>2. CASE kind = "save"
      BY <2>5, <2>9, <3>1, <3>2 DEF Saves
    <3>3. CASE kind = "size"
      BY <2>5, <2>9, <3>1, <3>3 DEF Saves
    <3> QED
      BY <3>2, <3>3
  <2>11. CfLone'
    BY <2>1, <2>5, <2>6, <2>9 DEF CfLone, UnderWay
  <2>12. FileFollows'
    BY <2>9 DEF FileFollows
  <2>13. Saves \subseteq CfOp /\ o \notin Saves
    BY <2>9 DEF Saves, UnderWay
  <2>14. CfSole'
    <3>1. (\A p \in CfOp : op[p].second => op[p].kind = "save")'
      BY <2>5, <2>6 DEF CfSole
    <3>2. CASE kind = "save"
      BY <3>1, <3>2, <2>1, <2>2, <2>5, <2>6, <2>10, <2>13 DEF CfSole
    <3>3. CASE kind = "size"
      BY <3>1, <3>3, <2>1, <2>2, <2>5, <2>6, <2>10, <2>13 DEF CfSole
    <3> QED
      BY <3>2, <3>3
  <2>15. CfNative'
    BY <2>1, <2>2, <2>10 DEF CfNative
  <2> QED
    BY <2>8, <2>11, <2>12, <2>14, <2>15
<1>2. ASSUME NEW o \in CfOp, CfOpen(o) PROVE CfInv'
  <2>1. CfTypeOK'
    BY <1>2 DEF CfOpen, UnderWay, Saves, CfTypeOK
  <2>2. CfLone'
    BY <1>2 DEF CfOpen, UnderWay, Saves, CfTypeOK, CfLone
  <2>3. FileFollows'
    BY <1>2 DEF CfOpen, UnderWay, Saves, CfTypeOK, CfLone, FileFollows
  <2>4. CfSole'
    BY <1>2 DEF CfOpen, UnderWay, Saves, CfTypeOK, CfSole
  <2>5. CfNative'
    BY <1>2 DEF CfOpen, UnderWay, Saves, CfTypeOK, CfSole, CfNative, FileFollows
  <2> QED
    BY <2>1, <2>2, <2>3, <2>4, <2>5
<1>3. ASSUME NEW o \in CfOp, CfWrite(o) PROVE CfInv'
  <2>1. CfTypeOK'
    BY <1>3 DEF CfWrite, WriteDone, Written, UnderWay, Saves, CfTypeOK
  <2>2. CfLone'
    BY <1>3 DEF CfWrite, WriteDone, Written, UnderWay, Saves, CfTypeOK, CfLone
  <2>3. FileFollows'
    BY <1>3 DEF CfWrite, WriteDone, Written, UnderWay, Saves, CfTypeOK, CfLone,
       FileFollows
  <2>4. CfSole'
    BY <1>3 DEF CfWrite, WriteDone, Written, UnderWay, Saves, CfTypeOK, CfSole
  <2>5. CfNative'
    BY <1>3 DEF CfWrite, WriteDone, Written, UnderWay, Saves, CfTypeOK, CfSole,
       CfNative, FileFollows
  <2> QED
    BY <2>1, <2>2, <2>3, <2>4, <2>5
<1>4. CASE CfCrash
  <2>1. /\ crashes < CfMaxCrashes /\ crashes' = crashes + 1 /\ cache' = Load /\ disk' = disk
        /\ op' = [o \in CfOp |-> IF o \in UnderWay THEN [op[o] EXCEPT !.at = "done"] ELSE op[o]]
        /\ torn' = (torn \/ UnderWay # {} \/ mixed)
        /\ mixed' = (mixed \/ UnderWay # {})
    BY <1>4 DEF CfCrash
  <2>2. op \in [CfOp -> OpType]
    BY DEF CfTypeOK, OpType
  <2>3. ASSUME NEW p \in CfOp
        PROVE  /\ op'[p] \in OpType /\ op'[p].at \notin {"open", "write"}
               /\ op'[p].second = op[p].second /\ op'[p].kind = op[p].kind
    <3>1. op[p] \in OpType
      BY <2>2
    <3>2. CASE p \in UnderWay
      BY <2>1, <3>1, <3>2 DEF OpType
    <3>3. CASE p \notin UnderWay
      BY <2>1, <3>1, <3>3 DEF OpType, UnderWay
    <3> QED
      BY <3>2, <3>3
  <2>4. op' \in [CfOp -> OpType]
    <3>1. op' = [p \in CfOp |-> op'[p]]
      BY <2>1
    <3> QED
      BY <3>1, <2>3
  <2>5. Load \in CfMap
    BY DEF Load, CfTypeOK, NoMap, CfMap, NoVal
  <2>6. CfTypeOK'
    <3>1. torn' \in BOOLEAN /\ mixed' \in BOOLEAN
      BY <2>1
    <3>2. crashes' \in 0..CfMaxCrashes
      BY <2>1 DEF CfTypeOK
    <3> QED
      BY <2>1, <2>4, <2>5, <3>1, <3>2 DEF CfTypeOK, OpType
  <2>7. UnderWay' = {} /\ Saves' = {}
    BY <2>3 DEF UnderWay, Saves
  <2>8. cache # Broken
    <3>1. "data" \in CfKey
      BY DEF CfKey
    <3>2. cache["data"] \in CfOp \cup {NoVal}
      BY <3>1 DEF CfTypeOK, CfMap
    <3>3. "broken" \notin CfOp \cup {NoVal}
      BY CfAssumption DEF NoVal
    <3>4. Broken["data"] = "broken"
      BY <3>1 DEF Broken
    <3> QED
      BY <3>2, <3>3, <3>4
  <2>9. UnderWay = {} /\ ~mixed => cache' = cache /\ disk = cache
    BY <2>1, <2>8 DEF FileFollows, Load
  <2>10. CfLone' /\ FileFollows'
    BY <2>1, <2>7, <2>9 DEF CfLone, FileFollows
  <2>11. CfSole'
    BY <2>3, <2>7 DEF CfSole
  <2>12. CfNative'
    BY <2>1, <2>7, <2>9 DEF CfNative, Saves
  <2> QED
    BY <2>6, <2>10, <2>11, <2>12
<1>5. CASE UNCHANGED cfVars
  BY <1>5 DEF CfTypeOK, CfLone, CfSole, FileFollows, CfNative, UnderWay, Saves, cfVars
<1> QED
  BY <1>1, <1>2, <1>3, <1>4, <1>5 DEF CfNext

(* Once the calls are over, the native key holds what the list of the      *)
(* application holds and config.json holds what is in memory, unless two   *)
(* calls met or the process ended in one (data_persistence.dart,           *)
(* config_manager.dart): for every set of calls and every number of        *)
(* crashes.                                                                *)
THEOREM StoreFollows == CfSpec => []CfSafe
<1>1. CfSpec => []CfInv
  BY CfInitInv, CfStep, PTL DEF CfSpec
<1> QED
  BY <1>1, CfInvSafe, PTL
=============================================================================
