---------------------------- MODULE VntApiProofs ----------------------------
(***************************************************************************)
(* What the bridge keeps to, for any addresses, any width of a mask and    *)
(* any number of tunnels: VaSafe.                                          *)
(***************************************************************************)
EXTENDS VntApi, TLAPS

\* The addresses of the first attempt.
FirstServers == [i \in 1..Len(vaServers) |-> Normalize(vaServers[i])]

\* Which of an attempt's objects exist where new is: what runs is always held by the
\* object that the next drop, a failure's or stop's, will drop.
HolderInv ==
    /\ vaServers \in Seq(VaScheme)
    /\ vaAt \in {"convert", "refused", "attempt", "failed"} => vaGuard = {}
    /\ vaAt \in {"create", "register", "device", "made", "up"} => vaGuard = {vaIndex}
    /\ vaAt = "create" => vaManager = {}
    /\ vaAt \in {"register", "device", "made"} => vaManager = vaGuard
    /\ vaAt = "up" /\ ~vaStopped => vaManager = vaGuard
    /\ vaStopped => vaAt = "up"

\* Before the configuration is read nothing was posted; the attempts left are those that
\* were laid out for the addresses.
AttemptInv ==
    /\ vaAt \in {"convert", "refused"} => vaPosted = {} /\ vaIndex = 0
    /\ vaAt \notin {"convert", "refused"} /\ vaIndex = 0 =>
          vaTries = IF TcpFallback(FirstServers) THEN <<FirstServers, <<"tcp">>>> ELSE <<FirstServers>>

\* A tunnel is in the slot or being created, not both.
SlotInv == iosSlot \cap iosCalls = {}

\* The strengthening of VaSafe that steps preserve.
BridgeInv == VaSafe /\ HolderInv /\ AttemptInv /\ SlotInv

-----------------------------------------------------------------------------
(* Facts about the operators.                                              *)

\* A mask that prefix_from_mask takes comes back from prefix_to_netmask.
LEMMA MaskRebuilt ==
    ASSUME NEW m
    PROVE  {PrefixToNetmask(p) : p \in PrefixFromMask(m)} \subseteq {m}
BY DEF PrefixFromMask

\* Only an address without a scheme and an old UDP one become QUIC.
LEMMA QuicFrom ==
    ASSUME NEW s \in VaScheme, Normalize(s) = "quic"
    PROVE  s \in {"bare", "udp"}
BY DEF Normalize, VaScheme

-----------------------------------------------------------------------------
(* The invariant.                                                          *)

LEMMA BridgeInit == VaInit => BridgeInv
<1> SUFFICES ASSUME VaInit PROVE BridgeInv
  OBVIOUS
<1>1. vaServers \in Seq(VaScheme)
  BY VaAssumption DEF VaInit
<1>2. VaTypeOK
  <2>1. /\ vaAt = "convert" /\ vaStopped = FALSE /\ vaPosted = {}
    BY DEF VaInit
  <2>2. vaIndex = 0 /\ vaGuard = {} /\ vaManager = {}
    BY DEF VaInit
  <2>3. iosSlot = {} /\ iosCalls = {} /\ iosRuns = {} /\ iosUsed = {}
    BY DEF VaInit
  <2>4. vaIndex \in 0..1 /\ vaGuard \subseteq {vaIndex} /\ vaManager \subseteq vaGuard
    BY <2>2
  <2>5. iosSlot \cup iosCalls \cup iosRuns \subseteq iosUsed /\ iosUsed \subseteq VaTunnel
    BY <2>3
  <2> QED
    BY <2>1, <2>4, <2>5 DEF VaTypeOK
<1>3. EnginesHeld /\ FallbackOnce /\ RouteKept /\ TunnelsHeld
  BY DEF VaInit, EnginesHeld, FallbackOnce, RouteKept, TunnelsHeld
<1>4. OneOutcome
  BY DEF VaInit, OneOutcome
<1> QED
  BY <1>1, <1>2, <1>3, <1>4 DEF VaInit, BridgeInv, VaSafe, HolderInv, AttemptInv, SlotInv

\* A step of the extension's tunnel leaves new alone and keeps the slot's part.
LEMMA IosStep ==
    ASSUME BridgeInv, UNCHANGED vaNew,
           \/ IosStop
           \/ \E t \in VaTunnel : IosStart(t) \/ IosSpawn(t) \/ IosFails(t) \/ IosFiled(t)
    PROVE  BridgeInv'
<1> DEFINE Held == /\ iosSlot \cup iosCalls \cup iosRuns \subseteq iosUsed
                   /\ iosUsed \subseteq VaTunnel /\ TunnelsHeld /\ SlotInv
<1>1. Held
  BY DEF BridgeInv, VaSafe, VaTypeOK
<1>2. ASSUME IosStop PROVE Held'
  BY <1>1, <1>2 DEF IosStop, TunnelsHeld, SlotInv
<1>3. ASSUME NEW t \in VaTunnel, IosStart(t) PROVE Held'
  BY <1>1, <1>3 DEF IosStart, TunnelsHeld, SlotInv
<1>4. ASSUME NEW t \in VaTunnel, IosSpawn(t) PROVE Held'
  BY <1>1, <1>4 DEF IosSpawn, TunnelsHeld, SlotInv
<1>5. ASSUME NEW t \in VaTunnel, IosFails(t) PROVE Held'
  BY <1>1, <1>5 DEF IosFails, TunnelsHeld, SlotInv
<1>6. ASSUME NEW t \in VaTunnel, IosFiled(t) PROVE Held'
  BY <1>1, <1>6 DEF IosFiled, TunnelsHeld, SlotInv
<1>7. Held'
  BY <1>2, <1>3, <1>4, <1>5, <1>6
<1> QED
  BY <1>7 DEF BridgeInv, VaSafe, VaTypeOK, EnginesHeld, OneOutcome, FallbackOnce, RouteKept,
             HolderInv, AttemptInv, FirstServers, vaNew

\* The part of the invariant that is about new.
NewInv ==
    /\ vaAt \in {"convert", "refused", "attempt", "create", "register", "device", "made",
                "up", "failed"}
    /\ vaIndex \in 0..1 /\ vaGuard \subseteq {vaIndex} /\ vaManager \subseteq vaGuard
    /\ vaPosted \subseteq {"connect", "handshake", "register", "success", "error"}
    /\ vaStopped \in BOOLEAN
    /\ EnginesHeld /\ OneOutcome /\ FallbackOnce /\ RouteKept /\ HolderInv /\ AttemptInv

\* Reading the configuration: nothing runs yet, and the attempts are laid out.
LEMMA ConvertStep ==
    ASSUME NewInv, VaConvert PROVE NewInv'
<1>1. /\ vaGuard = {} /\ vaManager = {} /\ vaRuns = {} /\ vaPosted = {} /\ vaIndex = 0
      /\ ~vaStopped
  BY DEF VaConvert, NewInv, EnginesHeld, HolderInv, AttemptInv
<1>2. UNCHANGED <<vaServers, vaMask, vaGuard, vaManager, vaRuns, vaIndex, vaStopped, vaRoute>>
  BY DEF VaConvert
<1>3. RouteKept' /\ FallbackOnce'
  BY <1>1, <1>2 DEF NewInv, RouteKept, FallbackOnce
<1>4. CASE vaAt' = "refused"
  <2>1. vaPosted' = {}
    BY <1>1, <1>4 DEF VaConvert
  <2> QED
    BY <1>1, <1>2, <1>3, <1>4, <2>1 DEF NewInv, EnginesHeld, OneOutcome, HolderInv, AttemptInv
<1>5. CASE vaAt' # "refused"
  <2>1. /\ vaAt' = "attempt" /\ vaPosted' = {"connect"}
        /\ vaTries' = IF TcpFallback(FirstServers) THEN <<FirstServers, <<"tcp">>>>
                      ELSE <<FirstServers>>
    BY <1>5 DEF VaConvert, FirstServers
  <2>2. FirstServers' = FirstServers
    BY <1>2 DEF FirstServers
  <2>3. AttemptInv'
    BY <1>2, <2>1, <2>2 DEF AttemptInv, TcpFallback
  <2> QED
    BY <1>1, <1>2, <1>3, <2>1, <2>3 DEF NewInv, EnginesHeld, OneOutcome, HolderInv
<1> QED
  BY <1>4, <1>5

\* The steps of an attempt that succeed.
LEMMA AttemptStep ==
    ASSUME NewInv, VaAttempt \/ VaSpawn \/ VaCreate \/ VaRegister \/ VaMade
    PROVE  NewInv'
<1> USE DEF NewInv, EnginesHeld, OneOutcome, FallbackOnce, RouteKept, HolderInv, AttemptInv,
            FirstServers
<1>1. CASE VaAttempt
  BY <1>1 DEF VaAttempt
<1>2. CASE VaSpawn
  BY <1>2 DEF VaSpawn
<1>3. CASE VaCreate
  BY <1>3 DEF VaCreate
<1>4. CASE VaRegister
  BY <1>4 DEF VaRegister
<1>5. CASE VaMade
  BY <1>5 DEF VaMade
<1> QED
  BY <1>1, <1>2, <1>3, <1>4, <1>5

\* The device, and with it the route.
LEMMA DeviceStep ==
    ASSUME NewInv, VaOpenDevice PROVE NewInv'
<1>1. RouteKept'
  BY MaskRebuilt DEF VaOpenDevice, RouteKept, NewInv
<1> QED
  BY <1>1 DEF VaOpenDevice, NewInv, EnginesHeld, OneOutcome, FallbackOnce, HolderInv,
              AttemptInv, FirstServers

\* The end of a network that was made.
LEMMA StopStep ==
    ASSUME NewInv, VaEngineEnds \/ VaStop PROVE NewInv'
<1> USE DEF NewInv, EnginesHeld, OneOutcome, FallbackOnce, RouteKept, HolderInv, AttemptInv,
            FirstServers
<1>1. CASE VaEngineEnds
  BY <1>1 DEF VaEngineEnds
<1>2. CASE VaStop
  BY <1>2 DEF VaStop
<1> QED
  BY <1>1, <1>2

\* A failure, wherever the attempt is: its tasks end, and the second attempt is the one over
\* TCP, or the error is told.
LEMMA FailStep ==
    ASSUME NewInv, NEW retryable \in BOOLEAN, VaFails(retryable) PROVE NewInv'
<1>1. vaGuard' = {} /\ vaManager' = {} /\ vaRuns' = {}
  BY DEF VaFails, AttemptEnds, NewInv, EnginesHeld, HolderInv
<1>2. ~vaStopped /\ UNCHANGED <<vaStopped, vaServers, vaMask, vaRoute>>
  BY DEF VaFails, NewInv, HolderInv
<1>3. CASE retryable /\ vaIndex = 0 /\ TcpFallback(vaTries[1])
  <2>1. vaAt' = "attempt" /\ vaIndex' = 1 /\ vaPosted' = vaPosted /\ vaTries' = Tail(vaTries)
    BY <1>3 DEF VaFails
  <2>2. vaTries[1] = FirstServers
    BY <1>3 DEF VaFails, NewInv, AttemptInv
  <2>3. vaTries' = <<<<"tcp">>>>
    <3>1. vaTries = <<FirstServers, <<"tcp">>>>
      BY <1>3, <2>2 DEF VaFails, NewInv, AttemptInv
    <3> HIDE DEF FirstServers
    <3>2. Tail(<<FirstServers, <<"tcp">>>>) = <<<<"tcp">>>>
      OBVIOUS
    <3> QED
      BY <2>1, <3>1, <3>2
  <2>4. Len(vaServers) = 1 /\ vaServers[1] \in {"bare", "udp"}
    <3>1. Len(FirstServers) = 1 /\ FirstServers[1] = "quic"
      BY <1>3, <2>2 DEF TcpFallback
    <3>2. vaServers \in Seq(VaScheme)
      BY DEF NewInv, HolderInv
    <3>3. Len(vaServers) = 1
      BY <3>1, <3>2 DEF FirstServers
    <3>4. vaServers[1] \in VaScheme /\ Normalize(vaServers[1]) = "quic"
      BY <3>1, <3>2, <3>3 DEF FirstServers
    <3> QED
      BY <3>3, <3>4, QuicFrom
  <2>5. FallbackOnce'
    BY <1>2, <2>3, <2>4 DEF FallbackOnce
  <2>6. AttemptInv'
    BY <2>1 DEF AttemptInv
  <2> QED
    BY <1>1, <1>2, <2>1, <2>5, <2>6 DEF VaFails, NewInv, EnginesHeld, OneOutcome, RouteKept, HolderInv
<1>4. CASE ~(retryable /\ vaIndex = 0 /\ TcpFallback(vaTries[1]))
  <2>1. vaAt' = "failed" /\ vaPosted' = vaPosted \cup {"error"} /\ UNCHANGED <<vaIndex, vaTries>>
    BY <1>4 DEF VaFails
  <2> QED
    BY <1>1, <1>2, <2>1 DEF VaFails, NewInv, EnginesHeld, OneOutcome, RouteKept, HolderInv,
                            FallbackOnce, AttemptInv, FirstServers
<1> QED
  BY <1>3, <1>4

LEMMA BridgeStep == BridgeInv /\ [VaNext]_vaVars => BridgeInv'
<1> SUFFICES ASSUME BridgeInv, [VaNext]_vaVars PROVE BridgeInv'
  OBVIOUS
<1> DEFINE IosAction == \/ IosStop
                        \/ \E t \in VaTunnel : IosStart(t) \/ IosSpawn(t) \/ IosFails(t) \/ IosFiled(t)
           IosInv == /\ iosSlot \cup iosCalls \cup iosRuns \subseteq iosUsed
                     /\ iosUsed \subseteq VaTunnel /\ TunnelsHeld /\ SlotInv
<1>1. NewInv /\ IosInv
  BY DEF BridgeInv, NewInv, VaSafe, VaTypeOK
<1>2. CASE IosAction
  <2>1. UNCHANGED vaNew
    BY <1>2 DEF IosStop, IosStart, IosSpawn, IosFails, IosFiled
  <2> QED
    BY <1>2, <2>1, IosStep
<1>3. ASSUME NewInv', UNCHANGED vaIos PROVE BridgeInv'
  <2>1. IosInv'
    BY <1>1, <1>3 DEF vaIos, TunnelsHeld, SlotInv
  <2> QED
    BY <1>3, <2>1 DEF BridgeInv, NewInv, VaSafe, VaTypeOK
<1>4. CASE VaConvert
  BY <1>1, <1>3, <1>4, ConvertStep DEF VaConvert
<1>5. CASE VaAttempt \/ VaSpawn \/ VaCreate \/ VaRegister \/ VaMade
  <2>1. UNCHANGED vaIos
    BY <1>5 DEF VaAttempt, VaSpawn, VaCreate, VaRegister, VaMade
  <2> QED
    BY <1>1, <1>3, <1>5, <2>1, AttemptStep
<1>6. CASE VaOpenDevice
  BY <1>1, <1>3, <1>6, DeviceStep DEF VaOpenDevice
<1>7. CASE VaEngineEnds \/ VaStop
  <2>1. UNCHANGED vaIos
    BY <1>7 DEF VaEngineEnds, VaStop
  <2> QED
    BY <1>1, <1>3, <1>7, <2>1, StopStep
<1>8. ASSUME NEW retryable \in BOOLEAN, VaFails(retryable) PROVE BridgeInv'
  <2>1. UNCHANGED vaIos
    BY <1>8 DEF VaFails
  <2> QED
    BY <1>1, <1>3, <1>8, <2>1, FailStep
<1>9. CASE UNCHANGED vaVars
  <2>1. UNCHANGED vaNew /\ UNCHANGED vaIos
    BY <1>9 DEF vaVars
  <2>2. NewInv'
    BY <1>1, <2>1 DEF vaNew, NewInv, EnginesHeld, OneOutcome, FallbackOnce, RouteKept,
                      HolderInv, AttemptInv, FirstServers
  <2> QED
    BY <1>3, <2>1, <2>2
<1> QED
  BY <1>2, <1>4, <1>5, <1>6, <1>7, <1>8, <1>9 DEF VaNext

\* Whatever fails and whenever starts and stops of tunnels overlap: nothing runs that
\* nobody can stop, the user hears of one outcome, TCP is tried in place of QUIC only and
\* once, and a route has the mask that was configured (VntApi::new, stop, the iOS slot).
THEOREM BridgeSafe == VaSpec => []VaSafe
<1>1. BridgeInv => VaSafe
  BY DEF BridgeInv
<1> QED
  BY <1>1, BridgeInit, BridgeStep, PTL DEF VaSpec
=============================================================================
