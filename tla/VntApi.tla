-------------------------------- MODULE VntApi --------------------------------
(***************************************************************************)
(* The bridge to the engine (rust/src/api/vnt_api.rs): VntApi::new with    *)
(* its second attempt over TCP, stop, and the tunnel of the iOS extension. *)
(*                                                                         *)
(* An attempt creates a network in a task group of its own, registers and  *)
(* opens the device; each step may fail, and whatever the attempt has      *)
(* started goes on running unless a drop stops its group: the drop of the  *)
(* NetworkManager, once there is one, or of the TaskGroupGuard.            *)
(***************************************************************************)
EXTENDS Naturals, Sequences, FiniteSets

CONSTANTS
    VaServer,       \* what users write as addresses: sequences over VaScheme
    VaBits,         \* the width of an IPv4 address (32)
    VaTunnel        \* calls of vnt_ios_start_tunnel

VaScheme == {"bare", "udp", "tcp", "ws"}

ASSUME VaAssumption == VaServer \subseteq Seq(VaScheme) /\ VaBits \in Nat \ {0}

VARIABLES
    vaServers,      \* server_address_str, split
    vaMask,         \* the mask of an entry of out_ips
    vaDevice,       \* "none" (no_tun), "tun" or "fd" (Android)
    vaAt,           \* where VntApi::new is
    vaTries,        \* the attempts left, this one included
    vaIndex,        \* the number of this attempt
    vaRuns,         \* attempts with tasks that run
    vaGuard,        \* the attempt whose TaskGroupGuard exists, if any
    vaManager,      \* the attempt whose NetworkManager exists, if any
    vaPosted,       \* callbacks handed to the Dart side
    vaStopped,      \* VntApi.stopped
    vaRoute,        \* the mask Android was given for the route
    iosSlot,        \* IOS_TUNNEL
    iosCalls,       \* calls of start_tunnel_inner under way
    iosRuns,        \* tunnels with tasks that run
    iosUsed         \* calls made

vaNew == <<vaServers, vaMask, vaDevice, vaAt, vaTries, vaIndex, vaRuns, vaGuard, vaManager,
           vaPosted, vaStopped, vaRoute>>
vaIos == <<iosSlot, iosCalls, iosRuns, iosUsed>>
vaVars == <<vaNew, vaIos>>

VaInit ==
    /\ vaServers \in VaServer /\ vaMask \in 0..2^VaBits - 1 /\ vaDevice \in {"none", "tun", "fd"}
    /\ vaAt = "convert" /\ vaTries = <<>> /\ vaIndex = 0 /\ vaRuns = {}
    /\ vaGuard = {} /\ vaManager = {} /\ vaPosted = {} /\ vaStopped = FALSE /\ vaRoute = {}
    /\ iosSlot = {} /\ iosCalls = {} /\ iosRuns = {} /\ iosUsed = {}

-----------------------------------------------------------------------------
(* Masks and addresses.                                                    *)

CountOnes(m) == Cardinality({i \in 0..VaBits - 1 : (m \div 2^i) % 2 = 1})

\* u32::MAX << (32 - p), but for 0: a shift by the whole width is an overflow.
PrefixToNetmask(p) == IF p = 0 THEN 0 ELSE ((2^VaBits - 1) * 2^(VaBits - p)) % 2^VaBits

\* prefix_from_mask takes the masks it can rebuild.
PrefixFromMask(m) == IF PrefixToNetmask(CountOnes(m)) = m THEN {CountOnes(m)} ELSE {}

\* normalize_server_address_legacy: an address without a scheme, and one of the old
\* UDP ones, means QUIC.
Normalize(s) == CASE s \in {"bare", "udp"} -> "quic" [] s = "ws" -> "wss" [] OTHER -> s

\* tcp_fallback_config_for_quic
TcpFallback(servers) == Len(servers) = 1 /\ servers[1] = "quic"

-----------------------------------------------------------------------------
(* VntApi::new.                                                            *)

\* Parsing fails without a callback; else every address is announced and the attempts
\* are laid out.
VaConvert ==
    LET servers == [i \in 1..Len(vaServers) |-> Normalize(vaServers[i])] IN
    /\ vaAt = "convert"
    /\ IF servers = <<>> \/ PrefixFromMask(vaMask) = {}
       THEN vaAt' = "refused" /\ UNCHANGED <<vaTries, vaPosted>>
       ELSE /\ vaAt' = "attempt" /\ vaPosted' = {"connect"}
            /\ vaTries' = IF TcpFallback(servers) THEN <<servers, <<"tcp">>>> ELSE <<servers>>
    /\ UNCHANGED <<vaServers, vaMask, vaDevice, vaIndex, vaRuns, vaGuard, vaManager, vaStopped,
                   vaRoute, vaIos>>

\* The head of the loop: create_task of a new TaskGroupManager.
VaAttempt ==
    /\ vaAt = "attempt" /\ vaAt' = "create" /\ vaGuard' = {vaIndex}
    /\ UNCHANGED <<vaServers, vaMask, vaDevice, vaTries, vaIndex, vaRuns, vaManager, vaPosted,
                   vaStopped, vaRoute, vaIos>>

\* create_network spawns tasks as it goes.
VaSpawn ==
    /\ vaAt = "create" /\ vaRuns' = vaRuns \cup {vaIndex}
    /\ UNCHANGED <<vaServers, vaMask, vaDevice, vaAt, vaTries, vaIndex, vaGuard, vaManager,
                   vaPosted, vaStopped, vaRoute, vaIos>>

VaCreate ==
    /\ vaAt = "create" /\ vaAt' = "register" /\ vaManager' = {vaIndex}
    /\ UNCHANGED <<vaServers, vaMask, vaDevice, vaTries, vaIndex, vaRuns, vaGuard, vaPosted,
                   vaStopped, vaRoute, vaIos>>

\* A registration starts the tasks of the servers.
VaRegister ==
    /\ vaAt = "register" /\ vaRuns' = vaRuns \cup {vaIndex}
    /\ vaAt' = IF vaDevice = "none" THEN "made" ELSE "device"
    /\ UNCHANGED <<vaServers, vaMask, vaDevice, vaTries, vaIndex, vaGuard, vaManager, vaPosted,
                   vaStopped, vaRoute, vaIos>>

\* start_tun and set_tun_network_ip, or the Android service with its routes.
VaOpenDevice ==
    /\ vaAt = "device" /\ vaAt' = "made"
    /\ vaRoute' = IF vaDevice = "fd" THEN {PrefixToNetmask(p) : p \in PrefixFromMask(vaMask)}
                  ELSE {}
    /\ UNCHANGED <<vaServers, vaMask, vaDevice, vaTries, vaIndex, vaRuns, vaGuard, vaManager,
                   vaPosted, vaStopped, vaIos>>

\* The guard is kept outside the loop: a network that was never finished runs on.
BugAttemptEnds ==
    vaGuard' = {} /\ vaManager' = {} /\ vaRuns' = vaRuns \ vaManager

\* A failed attempt is left: what it had is dropped, and either drop stops its group.
AttemptEnds ==
    vaGuard' = {} /\ vaManager' = {} /\ vaRuns' = vaRuns \ (vaManager \cup vaGuard)

\* A step of start_network fails.  The first attempt is followed by the one over TCP when
\* the message says it was the transport (is_transport_retryable_error).
VaFails(retryable) ==
    /\ vaAt \in {"create", "register", "device"} /\ AttemptEnds
    /\ IF retryable /\ vaIndex = 0 /\ TcpFallback(vaTries[1])
       THEN /\ vaAt' = "attempt" /\ vaIndex' = 1 /\ vaPosted' = vaPosted
            /\ vaTries' = Tail(vaTries)
       ELSE /\ vaAt' = "failed" /\ vaPosted' = vaPosted \cup {"error"}
            /\ UNCHANGED <<vaIndex, vaTries>>
    /\ UNCHANGED <<vaServers, vaMask, vaDevice, vaStopped, vaRoute, vaIos>>

VaMade ==
    /\ vaAt = "made" /\ vaAt' = "up"
    /\ vaPosted' = vaPosted \cup {"handshake", "register", "success"}
    /\ UNCHANGED <<vaServers, vaMask, vaDevice, vaTries, vaIndex, vaRuns, vaGuard, vaManager,
                   vaStopped, vaRoute, vaIos>>

\* The server gives another address or refuses a new registration: the engine stops its
\* own group and tells nobody (vnt-core, external).
VaEngineEnds ==
    /\ vaAt = "up" /\ vaRuns # {} /\ vaRuns' = {}
    /\ UNCHANGED <<vaServers, vaMask, vaDevice, vaAt, vaTries, vaIndex, vaGuard, vaManager,
                   vaPosted, vaStopped, vaRoute, vaIos>>

\* stop, which may be called again.  The guard stays with the object.
VaStop ==
    /\ vaAt = "up" /\ vaStopped' = TRUE
    /\ IF vaStopped THEN UNCHANGED <<vaManager, vaRuns>>
       ELSE vaManager' = {} /\ vaRuns' = vaRuns \ vaManager
    /\ UNCHANGED <<vaServers, vaMask, vaDevice, vaAt, vaTries, vaIndex, vaGuard, vaPosted,
                   vaRoute, vaIos>>

-----------------------------------------------------------------------------
(* The tunnel of the iOS extension: stopTunnel does not wait for the queue *)
(* on which the tunnel is started.                                         *)

\* vnt_ios_start_tunnel takes the old tunnel out of the slot and drops it ...
IosStart(t) ==
    /\ t \notin iosUsed /\ iosUsed' = iosUsed \cup {t}
    /\ iosCalls' = iosCalls \cup {t} /\ iosSlot' = {} /\ iosRuns' = iosRuns \ iosSlot
    /\ UNCHANGED vaNew

\* ... creates the new one without holding the lock ...
IosSpawn(t) ==
    /\ t \in iosCalls \ iosRuns /\ iosRuns' = iosRuns \cup {t}
    /\ UNCHANGED <<vaNew, iosSlot, iosCalls, iosUsed>>

IosFails(t) ==
    /\ t \in iosCalls /\ iosCalls' = iosCalls \ {t} /\ iosRuns' = iosRuns \ {t}
    /\ UNCHANGED <<vaNew, iosSlot, iosUsed>>

\* ... and replaces what the slot holds by now.
IosFiled(t) ==
    /\ t \in iosCalls \cap iosRuns /\ iosCalls' = iosCalls \ {t}
    /\ iosSlot' = {t} /\ iosRuns' = iosRuns \ iosSlot
    /\ UNCHANGED <<vaNew, iosUsed>>

\* vnt_ios_stop_tunnel
IosStop ==
    /\ iosSlot # {} /\ iosSlot' = {} /\ iosRuns' = iosRuns \ iosSlot
    /\ UNCHANGED <<vaNew, iosCalls, iosUsed>>

VaNext ==
    \/ VaConvert \/ VaAttempt \/ VaSpawn \/ VaCreate \/ VaRegister \/ VaOpenDevice
    \/ \E retryable \in BOOLEAN : VaFails(retryable)
    \/ VaMade \/ VaEngineEnds \/ VaStop \/ IosStop
    \/ \E t \in VaTunnel : IosStart(t) \/ IosSpawn(t) \/ IosFails(t) \/ IosFiled(t)

VaSpec == VaInit /\ [][VaNext]_vaVars

-----------------------------------------------------------------------------
(* Properties.                                                             *)

\* The variables have their types; no third attempt is made.
VaTypeOK ==
    /\ vaAt \in {"convert", "refused", "attempt", "create", "register", "device", "made",
                "up", "failed"}
    /\ vaIndex \in 0..1 /\ vaGuard \subseteq {vaIndex} /\ vaManager \subseteq vaGuard
    /\ vaPosted \subseteq {"connect", "handshake", "register", "success", "error"}
    /\ vaStopped \in BOOLEAN
    /\ iosSlot \cup iosCalls \cup iosRuns \subseteq iosUsed /\ iosUsed \subseteq VaTunnel

\* Tasks run only for the attempt under way or for an object that was not stopped: not for
\* an attempt that failed, at whatever step, while the second one is made, not after a
\* failed new and not after stop.
EnginesHeld ==
    /\ vaRuns \subseteq vaGuard
    /\ vaAt \in {"refused", "failed"} \/ vaStopped => vaRuns = {}

\* The user hears of success or of an error, never of both, whichever attempt brings it;
\* a configuration that cannot be read is told by the exception alone.
OneOutcome ==
    /\ "success" \in vaPosted <=> vaAt = "up"
    /\ "error" \in vaPosted <=> vaAt = "failed"
    /\ vaAt = "refused" => vaPosted = {}

\* TCP is tried in place of a single QUIC server only, and once.
FallbackOnce ==
    vaIndex = 1 => /\ Len(vaServers) = 1 /\ vaServers[1] \in {"bare", "udp"}
                   /\ vaTries = <<<<"tcp">>>>

\* The route Android gets has the mask that was configured, also for 0 and the full width.
RouteKept == vaRoute \subseteq {vaMask}

\* Every tunnel that runs is in the slot, where stop finds it, or still being created; and
\* the slot holds one that runs.
TunnelsHeld == iosRuns \subseteq iosSlot \cup iosCalls /\ iosSlot \subseteq iosRuns

\* The bridge, whatever fails.
VaSafe == VaTypeOK /\ EnginesHeld /\ OneOutcome /\ FallbackOnce /\ RouteKept /\ TunnelsHeld
=============================================================================
