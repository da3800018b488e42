-------------------------- MODULE RdSessionProofs --------------------------
(***************************************************************************)
(* Proofs about one connection of the remote desktop host: which services  *)
(* it is subscribed to, how it logs in and ends, what a file transfer      *)
(* leaves on disk, and what its terminals show.                            *)
(***************************************************************************)
EXTENDS RdSubscriptions, RdLogin, RdTransfer, RdTerminal, Integers,
        FiniteSetTheorems, SequenceTheorems, TLAPS

-----------------------------------------------------------------------------
(* RdSubscriptions: subscriptions and permissions.                         *)

(* Before it serves too, a remote connection is in no service that its     *)
(* permissions and options do not allow; the login only adds to that.      *)
SubsAllowed ==
    conn.kind = "remote" =>
      /\ "clipboard" \in subs => CanSubClipboard(conn)
      /\ "audio" \in subs => AudioEnabled(conn)
      /\ "pos" \in subs => conn.showCursor
      /\ "focus" \in subs => conn.followWindow
      /\ "cursor" \in subs => conn.keyboard \/ conn.showCursor

(* Nothing of a call or of sound before the login.                         *)
SilentBefore ==
    ~conn.authorized =>
      "audio" \notin subs /\ ~conn.voice /\ ~conn.voiceAsked /\ ~conn.services

SubInv == SubSafe /\ SubsAllowed /\ SilentBefore

(* An options message sets some of the fields.                             *)
LEMMA OptionsType ==
  ASSUME NEW o \in Options
  PROVE  DOMAIN o \subseteq Fields /\ \A f \in DOMAIN o : o[f] \in BOOLEAN
  BY DEF Options

(* The connection that took over an options message.                       *)
LEMMA WithOptionsType ==
  ASSUME NEW n \in ConnType, NEW o \in Options
  PROVE  WithOptions(n, o) \in ConnType
<1>1. \A f \in Fields, v \in BOOLEAN : Option(o, f, v) \in BOOLEAN
  BY OptionsType DEF Option
<1>2. /\ n.showCursor \in BOOLEAN /\ n.followWindow \in BOOLEAN /\ n.disableAudio \in BOOLEAN
      /\ n.disableClipboard \in BOOLEAN /\ n.disableKeyboard \in BOOLEAN
  BY DEF ConnType
<1>3. /\ Option(o, "showCursor", n.showCursor) \in BOOLEAN
      /\ Option(o, "followWindow", n.followWindow) \in BOOLEAN
      /\ Option(o, "disableAudio", n.disableAudio) \in BOOLEAN
      /\ Option(o, "disableClipboard", n.disableClipboard) \in BOOLEAN
      /\ Option(o, "disableKeyboard", n.disableKeyboard) \in BOOLEAN
  BY <1>1, <1>2 DEF Fields
<1> QED
  BY <1>3 DEF WithOptions, ConnType

(* Which of its fields the message changes.                                *)
LEMMA WithOptionsFields ==
  ASSUME NEW n \in ConnType, NEW o \in Options
  PROVE  LET m == WithOptions(n, o)
         IN  /\ m.kind = n.kind /\ m.authorized = n.authorized /\ m.services = n.services
             /\ m.waitSid = n.waitSid /\ m.keyboard = n.keyboard /\ m.clipboard = n.clipboard
             /\ m.audio = n.audio /\ m.voiceAsked = n.voiceAsked /\ m.voice = n.voice
             /\ m.multi = n.multi /\ m.display = n.display /\ m.closed = n.closed
             /\ m.showCursor = Option(o, "showCursor", n.showCursor)
             /\ m.followWindow = Option(o, "followWindow", n.followWindow)
             /\ m.disableAudio = Option(o, "disableAudio", n.disableAudio)
             /\ m.disableClipboard = Option(o, "disableClipboard", n.disableClipboard)
             /\ m.disableKeyboard = Option(o, "disableKeyboard", n.disableKeyboard)
  BY DEF WithOptions, ConnType

(* An options message subscribes to nothing else.                          *)
LEMMA OptionSubsNamed ==
  ASSUME NEW S \in SUBSET Named, NEW n \in ConnType, NEW o \in Options
  PROVE  OptionSubs(S, n, o) \subseteq Named
  BY DEF OptionSubs, Subscribed, AudioSubs, Named

(* What an options message leaves of each service.                         *)
LEMMA OptionSubsEffect ==
  ASSUME NEW S \in SUBSET Named, NEW n \in ConnType, NEW o \in Options
  PROVE  LET m == WithOptions(n, o)
             T == OptionSubs(S, n, o)
         IN  /\ "pos" \in T <=> IF "showCursor" \in DOMAIN o THEN m.showCursor ELSE "pos" \in S
             /\ "focus" \in T <=>
                  IF "followWindow" \in DOMAIN o THEN m.followWindow ELSE "focus" \in S
             /\ "audio" \in T <=>
                  IF "disableAudio" \in DOMAIN o /\ ~(AuthedCamera(m) /\ ~m.voice
                      /\ AudioEnabled(m))
                    THEN AudioEnabled(m) ELSE "audio" \in S
             /\ "clipboard" \in T <=>
                  IF "disableClipboard" \in DOMAIN o \/ "disableKeyboard" \in DOMAIN o
                    THEN CanSubClipboard(m) ELSE "clipboard" \in S
             /\ "cursor" \in T <=>
                  IF "showCursor" \in DOMAIN o \/ "disableKeyboard" \in DOMAIN o
                    THEN PeerKeyboard(m) \/ m.showCursor ELSE "cursor" \in S
<1> DEFINE m == WithOptions(n, o)
           T == OptionSubs(S, n, o)
           k == [m EXCEPT !.disableKeyboard = n.disableKeyboard]
           S1 == IF "showCursor" \in DOMAIN o
                 THEN Subscribed(Subscribed(S, "cursor", PeerKeyboard(n) \/ m.showCursor),
                                 "pos", m.showCursor) ELSE S
           S2 == IF "followWindow" \in DOMAIN o
                 THEN Subscribed(S1, "focus", m.followWindow) ELSE S1
           S3 == IF "disableAudio" \in DOMAIN o THEN AudioSubs(S2, m) ELSE S2
           S4 == IF "disableClipboard" \in DOMAIN o
                 THEN Subscribed(S3, "clipboard", CanSubClipboard(k)) ELSE S3
<1>1. T = IF "disableKeyboard" \in DOMAIN o
          THEN Subscribed(Subscribed(S4, "clipboard", CanSubClipboard(m)),
                          "cursor", PeerKeyboard(m) \/ m.showCursor)
          ELSE S4
  BY DEF OptionSubs
<1>2. m \in ConnType
  BY WithOptionsType
<1>3. "disableKeyboard" \notin DOMAIN o =>
        /\ m.disableKeyboard = n.disableKeyboard
        /\ PeerKeyboard(m) = PeerKeyboard(n)
        /\ CanSubClipboard(k) = CanSubClipboard(m)
  <2> SUFFICES ASSUME "disableKeyboard" \notin DOMAIN o
               PROVE  /\ m.disableKeyboard = n.disableKeyboard
                      /\ PeerKeyboard(m) = PeerKeyboard(n)
                      /\ CanSubClipboard(k) = CanSubClipboard(m)
    OBVIOUS
  <2>1. m.disableKeyboard = n.disableKeyboard /\ m.keyboard = n.keyboard
    BY WithOptionsFields DEF Option
  <2>2. k = m
    BY <1>2, <2>1 DEF ConnType
  <2> QED
    BY <2>1, <2>2 DEF PeerKeyboard
<1> HIDE DEF m, T, k
<1>4. /\ "pos" \in S1 <=> IF "showCursor" \in DOMAIN o THEN m.showCursor ELSE "pos" \in S
      /\ "cursor" \in S1 <=> IF "showCursor" \in DOMAIN o THEN PeerKeyboard(n) \/ m.showCursor
                             ELSE "cursor" \in S
      /\ "focus" \in S1 <=> "focus" \in S
      /\ "audio" \in S1 <=> "audio" \in S
      /\ "clipboard" \in S1 <=> "clipboard" \in S
  BY DEF Subscribed
<1> HIDE DEF S1
<1>5.
     
     
      /\ "focus" \in S2 <=> IF "followWindow" \in DOMAIN o THEN m.followWindow ELSE "focus" \in S1
      /\ "pos" \in S2 <=> "pos" \in S1
      /\ "cursor" \in S2 <=> "cursor" \in S1
      /\ "audio" \in S2 <=> "audio" \in S1
      /\ "clipboard" \in S2 <=> "clipboard" \in S1
  BY DEF Subscribed
<1> HIDE DEF S2
<1>6. /\ "audio" \in S3 <=>
           IF "disableAudio" \in DOMAIN o /\ ~(AuthedCamera(m) /\ ~m.voice /\ AudioEnabled(m))
             THEN AudioEnabled(m) ELSE "audio" \in S2
      /\ "pos" \in S3 <=> "pos" \in S2
      /\ "cursor" \in S3 <=> "cursor" \in S2
      /\ "focus" \in S3 <=> "focus" \in S2
      /\ "clipboard" \in S3 <=> "clipboard" \in S2
  BY DEF AudioSubs, Subscribed
<1> HIDE DEF S3
<1>7. /\ "clipboard" \in S4 <=>
           IF "disableClipboard" \in DOMAIN o THEN CanSubClipboard(k) ELSE "clipboard" \in S3
      /\ "pos" \in S4 <=> "pos" \in S3
      /\ "cursor" \in S4 <=> "cursor" \in S3
      /\ "focus" \in S4 <=> "focus" \in S3
      /\ "audio" \in S4 <=> "audio" \in S3
  BY DEF Subscribed
<1> HIDE DEF S4
<1>8. CASE "disableKeyboard" \in DOMAIN o
  <2>1. /\ "clipboard" \in T <=> CanSubClipboard(m)
        /\ "cursor" \in T <=> PeerKeyboard(m) \/ m.showCursor
        /\ "pos" \in T <=> "pos" \in S4
        /\ "focus" \in T <=> "focus" \in S4
        /\ "audio" \in T <=> "audio" \in S4
    BY <1>1, <1>8 DEF Subscribed
  <2> QED
    BY <1>4, <1>5, <1>6, <1>7, <1>8, <2>1 DEF m, T
<1>9. CASE "disableKeyboard" \notin DOMAIN o
  BY <1>1, <1>3, <1>4, <1>5, <1>6, <1>7, <1>9 DEF m, T
<1> QED
  BY <1>8, <1>9

(* The parts of the invariant that relate the subscriptions to the         *)
(* permissions, the options and the call.                                  *)
SubRel ==
    /\ SubsFollowPermissions /\ CursorFollowsPermissions
    /\ FocusFollowsOption /\ CameraHearsCallOnly /\ SubsAllowed /\ SilentBefore

(* A connection starts without a subscription.                             *)
LEMMA SubInitInv == SubInit => SubInv
<1> SUFFICES ASSUME SubInit PROVE SubInv
  OBVIOUS
<1>1. conn \in ConnType
  BY PrimaryIsDisplay DEF SubInit, ConnType
<1>2. /\ subs = {} /\ captured = {} /\ ~conn.closed /\ ~conn.services /\ ~conn.authorized
      /\ ~conn.voice /\ ~conn.voiceAsked
  BY DEF SubInit
<1>3. SubSafe
  BY <1>1, <1>2 DEF SubSafe, SubTypeOK, SubsFollowPermissions, CursorFollowsPermissions,
     FocusFollowsOption, CameraHearsCallOnly, Serving, AuthedCamera
<1> QED
  BY <1>2, <1>3 DEF SubInv, SubsAllowed, SilentBefore

(* Every permission, option, call and login keeps the invariant.           *)
LEMMA SubStep == SubInv /\ [SubNext]_subVars => SubInv'
<1> SUFFICES ASSUME SubInv, [SubNext]_subVars PROVE SubInv'
  OBVIOUS
<1> USE PrimaryIsDisplay DEF SubInv, SubSafe
<1>0. conn \in ConnType
  BY DEF SubTypeOK
<1>1. ASSUME NEW on \in BOOLEAN, SwitchKeyboard(on) PROVE SubInv'
  <2>1. conn' \in ConnType /\ ~conn'.closed /\ ~conn.closed
    BY <1>0, <1>1 DEF SwitchKeyboard, ConnType
  <2>2. SubTypeOK'
    BY <1>1, <2>1 DEF SwitchKeyboard, Subscribed, SubTypeOK, Named
  <2>3. SubRel'
    BY <1>0, <1>1, <2>1 DEF SwitchKeyboard, Subscribed, ConnType, Named, SubRel,
       Serving, SubsFollowPermissions, CursorFollowsPermissions, FocusFollowsOption,
       CameraHearsCallOnly, SubsAllowed, SilentBefore, CanSubClipboard, AudioEnabled,
       PeerKeyboard, AuthedCamera
  <2> QED
    BY <2>2, <2>3 DEF SubRel
<1>2. ASSUME NEW on \in BOOLEAN, SwitchClipboard(on) PROVE SubInv'
  <2>1. conn' \in ConnType /\ ~conn'.closed /\ ~conn.closed
    BY <1>0, <1>2 DEF SwitchClipboard, ConnType
  <2>2. SubTypeOK'
    BY <1>2, <2>1 DEF SwitchClipboard, Subscribed, SubTypeOK, Named
  <2>3. SubRel'
    BY <1>0, <1>2, <2>1 DEF SwitchClipboard, Subscribed, ConnType, Named, SubRel,
       Serving, SubsFollowPermissions, CursorFollowsPermissions, FocusFollowsOption,
       CameraHearsCallOnly, SubsAllowed, SilentBefore, CanSubClipboard, AudioEnabled,
       PeerKeyboard, AuthedCamera
  <2> QED
    BY <2>2, <2>3 DEF SubRel
<1>3. ASSUME NEW on \in BOOLEAN, SwitchAudio(on) PROVE SubInv'
  <2>1. conn' \in ConnType /\ ~conn'.closed /\ ~conn.closed
    BY <1>0, <1>3 DEF SwitchAudio, ConnType
  <2>2. SubTypeOK'
    BY <1>3, <2>1 DEF SwitchAudio, Subscribed, AudioSubs, SubTypeOK, Named
  <2>3. SubRel'
    BY <1>0, <1>3, <2>1 DEF SwitchAudio, Subscribed, AudioSubs, ConnType, Named, SubRel,
       Serving, SubsFollowPermissions, CursorFollowsPermissions, FocusFollowsOption,
       CameraHearsCallOnly, SubsAllowed, SilentBefore, CanSubClipboard, AudioEnabled,
       PeerKeyboard, AuthedCamera
  <2> QED
    BY <2>2, <2>3 DEF SubRel
<1>4. ASSUME NEW accepted \in BOOLEAN, VoiceCall(accepted) PROVE SubInv'
  <2>1. conn' \in ConnType /\ ~conn'.closed /\ ~conn.closed
    BY <1>0, <1>4 DEF VoiceCall, ConnType
  <2>2. SubTypeOK'
    BY <1>4, <2>1 DEF VoiceCall, Subscribed, SubTypeOK, Named
  <2>3. SubRel'
    BY <1>0, <1>4, <2>1 DEF VoiceCall, Subscribed, ConnType, Named, SubRel, Serving,
       SubsFollowPermissions, CursorFollowsPermissions, FocusFollowsOption,
       CameraHearsCallOnly, SubsAllowed, SilentBefore, CanSubClipboard, AudioEnabled,
       PeerKeyboard, AuthedCamera
  <2> QED
    BY <2>2, <2>3 DEF SubRel
<1>5. CASE CloseVoiceCall
  <2>1. conn' \in ConnType /\ ~conn'.closed /\ ~conn.closed
    BY <1>0, <1>5 DEF CloseVoiceCall, ConnType
  <2>2. SubTypeOK'
    BY <1>5, <2>1 DEF CloseVoiceCall, SubTypeOK, Named
  <2>3. SubRel'
    BY <1>0, <1>5, <2>1 DEF CloseVoiceCall, ConnType, Named, SubRel, Serving,
       SubsFollowPermissions, CursorFollowsPermissions, FocusFollowsOption,
       CameraHearsCallOnly, SubsAllowed, SilentBefore, CanSubClipboard, AudioEnabled,
       PeerKeyboard, AuthedCamera
  <2> QED
    BY <2>2, <2>3 DEF SubRel
<1>6. CASE VoiceCallRequest
  <2>1. conn' \in ConnType /\ ~conn'.closed /\ ~conn.closed
    BY <1>0, <1>6 DEF VoiceCallRequest, ConnType
  <2>2. SubTypeOK'
    BY <1>6, <2>1 DEF VoiceCallRequest, SubTypeOK, Named
  <2>3. SubRel'
    BY <1>0, <1>6, <2>1 DEF VoiceCallRequest, ConnType, Named, SubRel, Serving,
       SubsFollowPermissions, CursorFollowsPermissions, FocusFollowsOption,
       CameraHearsCallOnly, SubsAllowed, SilentBefore, CanSubClipboard, AudioEnabled,
       PeerKeyboard, AuthedCamera
  <2> QED
    BY <2>2, <2>3 DEF SubRel
<1>7. CASE SelectSession
  <2>1. conn' \in ConnType /\ ~conn'.closed /\ ~conn.closed
    BY <1>0, <1>7 DEF SelectSession, ConnType
  <2>2. SubTypeOK'
    BY <1>7, <2>1 DEF SelectSession, SubscribeAll, Permitted, SubTypeOK, Named
  <2>3. SubRel'
    BY <1>0, <1>7, <2>1 DEF SelectSession, SubscribeAll, Permitted, ConnType, Named,
       SubRel, Serving, SubsFollowPermissions, CursorFollowsPermissions,
       FocusFollowsOption, CameraHearsCallOnly, SubsAllowed, SilentBefore, CanSubClipboard,
       AudioEnabled, PeerKeyboard, AuthedCamera
  <2> QED
    BY <2>2, <2>3 DEF SubRel
<1>8. ASSUME NEW d \in Display, SwitchDisplay(d) PROVE SubInv'
  <2>1. conn' \in ConnType /\ ~conn'.closed /\ ~conn.closed
    BY <1>0, <1>8 DEF SwitchDisplay, ConnType
  <2>2. SubTypeOK'
    BY <1>8, <2>1 DEF SwitchDisplay, SubTypeOK, Named
  <2>3. SubRel'
    BY <1>0, <1>8, <2>1 DEF SwitchDisplay, ConnType, Named, SubRel, Serving,
       SubsFollowPermissions, CursorFollowsPermissions, FocusFollowsOption,
       CameraHearsCallOnly, SubsAllowed, SilentBefore, CanSubClipboard, AudioEnabled,
       PeerKeyboard, AuthedCamera
  <2> QED
    BY <2>2, <2>3 DEF SubRel
<1>9. ASSUME NEW D \in SUBSET Display \ {{}}, CaptureDisplays(D) PROVE SubInv'
  <2>1. conn' \in ConnType /\ ~conn'.closed /\ ~conn.closed
    BY <1>0, <1>9 DEF CaptureDisplays, ConnType
  <2>2. SubTypeOK'
    BY <1>9, <2>1 DEF CaptureDisplays, Subscribed, SubTypeOK, Named
  <2>3. SubRel'
    BY <1>0, <1>9, <2>1 DEF CaptureDisplays, Subscribed, ConnType, Named, SubRel,
       Serving, SubsFollowPermissions, CursorFollowsPermissions, FocusFollowsOption,
       CameraHearsCallOnly, SubsAllowed, SilentBefore, CanSubClipboard, AudioEnabled,
       PeerKeyboard, AuthedCamera
  <2> QED
    BY <2>2, <2>3 DEF SubRel
<1>10. ASSUME NEW o \in Options, UpdateOptions(o) PROVE SubInv'
  <2> DEFINE m == WithOptions(conn, o)
             T == OptionSubs(subs, conn, o)
  <2>1. conn' = m /\ subs' = T /\ captured' = captured /\ ~conn.closed /\ conn.authorized
    BY <1>10 DEF UpdateOptions
  <2>2. subs \in SUBSET Named
    BY DEF SubTypeOK
  <2>3. m \in ConnType /\ T \subseteq Named
    BY <1>0, <2>2, WithOptionsType, OptionSubsNamed
  <2>4. /\ m.kind = conn.kind /\ m.authorized = conn.authorized /\ m.services = conn.services
        /\ m.keyboard = conn.keyboard /\ m.clipboard = conn.clipboard /\ m.audio = conn.audio
        /\ m.voiceAsked = conn.voiceAsked /\ m.voice = conn.voice /\ m.multi = conn.multi
        /\ m.closed = conn.closed
        /\ m.showCursor = Option(o, "showCursor", conn.showCursor)
        /\ m.followWindow = Option(o, "followWindow", conn.followWindow)
        /\ m.disableAudio = Option(o, "disableAudio", conn.disableAudio)
        /\ m.disableClipboard = Option(o, "disableClipboard", conn.disableClipboard)
        /\ m.disableKeyboard = Option(o, "disableKeyboard", conn.disableKeyboard)
    BY <1>0, WithOptionsFields
  <2>5. /\ "pos" \in T <=> IF "showCursor" \in DOMAIN o THEN m.showCursor ELSE "pos" \in subs
        /\ "focus" \in T <=>
             IF "followWindow" \in DOMAIN o THEN m.followWindow ELSE "focus" \in subs
        /\ "audio" \in T <=>
             IF "disableAudio" \in DOMAIN o /\ ~(AuthedCamera(m) /\ ~m.voice /\ AudioEnabled(m))
               THEN AudioEnabled(m) ELSE "audio" \in subs
        /\ "clipboard" \in T <=>
             IF "disableClipboard" \in DOMAIN o \/ "disableKeyboard" \in DOMAIN o
               THEN CanSubClipboard(m) ELSE "clipboard" \in subs
        /\ "cursor" \in T <=>
             IF "showCursor" \in DOMAIN o \/ "disableKeyboard" \in DOMAIN o
               THEN PeerKeyboard(m) \/ m.showCursor ELSE "cursor" \in subs
    BY <1>0, <2>2, OptionSubsEffect
  <2> HIDE DEF m, T
  <2>6. SubTypeOK'
    BY <2>1, <2>3, <2>4 DEF SubTypeOK
  <2>7. SubRel'
    BY <2>1, <2>4, <2>5 DEF Option, SubRel, Serving, SubsFollowPermissions,
       CursorFollowsPermissions, FocusFollowsOption, CameraHearsCallOnly, SubsAllowed,
       SilentBefore, CanSubClipboard, AudioEnabled, PeerKeyboard, AuthedCamera
  <2> QED
    BY <2>6, <2>7 DEF SubRel
<1>11. ASSUME NEW o \in Options, Login(o) PROVE SubInv'
  <2> DEFINE n == [conn EXCEPT !.authorized = TRUE]
             m == WithOptions(n, o)
             T == OptionSubs(subs, n, o)
  <2>1. /\ conn' = [m EXCEPT !.services = ~conn.waitSid, !.keyboard = @ /\ conn.kind = "remote"]
        /\ ~conn.closed /\ ~conn.authorized
        /\ IF conn.waitSid THEN subs' = T /\ captured' = captured
           ELSE SubscribeAll(T, captured, m)
    BY <1>11 DEF Login
  <2>2. subs \in SUBSET Named
    BY DEF SubTypeOK
  <2>3. n \in ConnType
    BY <1>0 DEF ConnType
  <2>4. m \in ConnType /\ T \subseteq Named
    BY <2>2, <2>3, WithOptionsType, OptionSubsNamed
  <2>5. /\ m.kind = n.kind /\ m.authorized = n.authorized /\ m.services = n.services
        /\ m.keyboard = n.keyboard /\ m.clipboard = n.clipboard /\ m.audio = n.audio
        /\ m.voiceAsked = n.voiceAsked /\ m.voice = n.voice /\ m.multi = n.multi
        /\ m.closed = n.closed
        /\ m.showCursor = Option(o, "showCursor", n.showCursor)
        /\ m.followWindow = Option(o, "followWindow", n.followWindow)
        /\ m.disableAudio = Option(o, "disableAudio", n.disableAudio)
        /\ m.disableClipboard = Option(o, "disableClipboard", n.disableClipboard)
        /\ m.disableKeyboard = Option(o, "disableKeyboard", n.disableKeyboard)
    BY <2>3, WithOptionsFields
  <2>6. /\ "pos" \in T <=> IF "showCursor" \in DOMAIN o THEN m.showCursor ELSE "pos" \in subs
        /\ "focus" \in T <=>
             IF "followWindow" \in DOMAIN o THEN m.followWindow ELSE "focus" \in subs
        /\ "audio" \in T <=>
             IF "disableAudio" \in DOMAIN o /\ ~(AuthedCamera(m) /\ ~m.voice /\ AudioEnabled(m))
               THEN AudioEnabled(m) ELSE "audio" \in subs
        /\ "clipboard" \in T <=>
             IF "disableClipboard" \in DOMAIN o \/ "disableKeyboard" \in DOMAIN o
               THEN CanSubClipboard(m) ELSE "clipboard" \in subs
        /\ "cursor" \in T <=>
             IF "showCursor" \in DOMAIN o \/ "disableKeyboard" \in DOMAIN o
               THEN PeerKeyboard(m) \/ m.showCursor ELSE "cursor" \in subs
    BY <2>2, <2>3, OptionSubsEffect
  <2>7. /\ n.kind = conn.kind /\ n.authorized /\ n.services = conn.services
        /\ n.keyboard = conn.keyboard /\ n.clipboard = conn.clipboard /\ n.audio = conn.audio
        /\ n.voiceAsked = conn.voiceAsked /\ n.voice = conn.voice /\ n.multi = conn.multi
        /\ n.closed = conn.closed /\ n.showCursor = conn.showCursor
        /\ n.followWindow = conn.followWindow /\ n.disableAudio = conn.disableAudio
        /\ n.disableClipboard = conn.disableClipboard
        /\ n.disableKeyboard = conn.disableKeyboard
    BY <1>0 DEF ConnType
  <2> HIDE DEF n, m, T
  <2>8. conn' \in ConnType
    <3>1. (~conn.waitSid) \in BOOLEAN /\ (m.keyboard /\ conn.kind = "remote") \in BOOLEAN
      OBVIOUS
    <3> QED
      BY <2>1, <2>4, <3>1 DEF ConnType
  <2>9. /\ conn'.kind = m.kind /\ conn'.authorized = m.authorized
        /\ conn'.services = ~conn.waitSid
        /\ conn'.keyboard = (m.keyboard /\ conn.kind = "remote")
        /\ conn'.clipboard = m.clipboard /\ conn'.audio = m.audio
        /\ conn'.voiceAsked = m.voiceAsked /\ conn'.voice = m.voice /\ conn'.multi = m.multi
        /\ conn'.closed = m.closed /\ conn'.showCursor = m.showCursor
        /\ conn'.followWindow = m.followWindow /\ conn'.disableAudio = m.disableAudio
        /\ conn'.disableClipboard = m.disableClipboard
        /\ conn'.disableKeyboard = m.disableKeyboard
    BY <2>1, <2>4 DEF ConnType
  <2>10. /\ subs' \subseteq Named /\ captured' \subseteq Display
         /\ conn.waitSid => subs' = T
         /\ ~conn.waitSid => subs' = IF m.kind = "remote" THEN T \cup Permitted(m) ELSE T
    BY <2>1, <2>4 DEF SubscribeAll, Permitted, SubTypeOK
  <2>11. SubTypeOK'
    BY <2>1, <2>5, <2>7, <2>8, <2>9, <2>10 DEF SubTypeOK
  <2>12. (SubsAllowed /\ SilentBefore /\ CameraHearsCallOnly)'
    <3>1. SilentBefore'
      BY <2>5, <2>7, <2>9 DEF SilentBefore
    <3>2. CASE conn.kind = "camera"
      <4>1. subs' = T /\ conn'.kind = "camera" /\ m.kind = "camera" /\ m.authorized /\ ~m.voice
        BY <2>1, <2>5, <2>7, <2>9, <2>10, <3>2 DEF SilentBefore
      <4>2. "audio" \notin T
        BY <2>1, <2>6, <4>1 DEF SilentBefore, AuthedCamera
      <4> QED
        BY <2>9, <3>1, <4>1, <4>2 DEF SubsAllowed, CameraHearsCallOnly, AuthedCamera
    <3>3. CASE conn.kind = "remote"
      <4>1. /\ conn'.kind = "remote" /\ conn'.keyboard = m.keyboard
            /\ subs' = T \/ subs' = T \cup Permitted(m)
        BY <2>4, <2>5, <2>7, <2>9, <2>10, <3>3 DEF ConnType
      <4>2. CanSubClipboard(m) <=> CanSubClipboard(conn)'
        BY <2>9, <4>1 DEF CanSubClipboard, PeerKeyboard
      <4>3. "clipboard" \in T => CanSubClipboard(m)
        BY <2>5, <2>6, <2>7, <3>3 DEF Option, SubsAllowed, CanSubClipboard, PeerKeyboard
      <4>4. "audio" \in T => AudioEnabled(m)
        BY <2>5, <2>6, <2>7, <3>3 DEF Option, SubsAllowed, AudioEnabled, AuthedCamera
      <4>5. "pos" \in T => m.showCursor
        BY <2>5, <2>6, <2>7, <3>3 DEF Option, SubsAllowed
      <4>6. "focus" \in T => m.followWindow
        BY <2>5, <2>6, <2>7, <3>3 DEF Option, SubsAllowed
      <4>7. "cursor" \in T => m.keyboard \/ m.showCursor
        BY <2>5, <2>6, <2>7, <3>3 DEF Option, SubsAllowed, PeerKeyboard
      <4>8. /\ "clipboard" \in Permitted(m) => CanSubClipboard(m)
            /\ "audio" \in Permitted(m) => AudioEnabled(m)
            /\ "pos" \in Permitted(m) => m.showCursor
            /\ "focus" \in Permitted(m) => m.followWindow
            /\ "cursor" \in Permitted(m) => m.keyboard \/ m.showCursor
        BY DEF Permitted, PeerKeyboard
      <4>9. AudioEnabled(m) <=> AudioEnabled(conn)'
        BY <2>9 DEF AudioEnabled
      <4>10. SubsAllowed'
        BY <2>9, <4>1, <4>2, <4>3, <4>4, <4>5, <4>6, <4>7, <4>8, <4>9 DEF SubsAllowed
      <4> QED
        BY <3>1, <4>1, <4>10 DEF CameraHearsCallOnly, AuthedCamera
    <3> QED
      BY <1>0, <3>2, <3>3 DEF ConnType
  <2>13. (SubsFollowPermissions /\ CursorFollowsPermissions /\ FocusFollowsOption)'
    <3> SUFFICES ASSUME Serving'
        PROVE  (SubsFollowPermissions /\ CursorFollowsPermissions /\ FocusFollowsOption)'
      BY DEF SubsFollowPermissions, CursorFollowsPermissions, FocusFollowsOption
    <3>1. subs' = T \cup Permitted(m) /\ conn'.kind = "remote" /\ conn.kind = "remote"
              /\ conn'.keyboard = m.keyboard
      BY <2>4, <2>5, <2>7, <2>9, <2>10 DEF Serving, ConnType
    <3> QED
      BY <2>9, <2>12, <3>1 DEF SubsFollowPermissions, CursorFollowsPermissions,
         FocusFollowsOption, SubsAllowed, Permitted, Named, CanSubClipboard, AudioEnabled,
         PeerKeyboard
  <2> QED
    BY <2>11, <2>12, <2>13
<1>12. CASE RemoveConnection
  <2>1. conn' \in ConnType /\ conn'.closed /\ subs' = {} /\ captured' = {}
    BY <1>0, <1>12 DEF RemoveConnection, ConnType
  <2>2. ~conn'.authorized => ~conn'.voice /\ ~conn'.voiceAsked /\ ~conn'.services
    BY <1>0, <1>12 DEF RemoveConnection, ConnType, SilentBefore
  <2> QED
    BY <2>1, <2>2 DEF SubTypeOK, SubsFollowPermissions, CursorFollowsPermissions,
       FocusFollowsOption, CameraHearsCallOnly, SubsAllowed, SilentBefore, Serving
<1>13. CASE UNCHANGED subVars
  BY <1>13 DEF subVars, SubTypeOK, SubRel, Serving, SubsFollowPermissions,
     CursorFollowsPermissions, FocusFollowsOption, CameraHearsCallOnly, SubsAllowed,
     SilentBefore, CanSubClipboard, AudioEnabled, PeerKeyboard, AuthedCamera
<1> QED
  BY <1>1, <1>2, <1>3, <1>4, <1>5, <1>6, <1>7, <1>8, <1>9, <1>10, <1>11, <1>12, <1>13
     DEF SubNext

(* After any sequence of permissions, options, calls and logins,           *)
(* clipboard, sound, pointer and focused window go to a remote connection  *)
(* as permission and option of this moment say, and sound to a camera      *)
(* connection only during a voice call (connection.rs): for every set of   *)
(* displays and both settings of the one-way clipboard.                    *)
THEOREM SubscriptionsSafe == SubSpec => []SubSafe
<1>1. SubSpec => []SubInv
  BY SubInitInv, SubStep, PTL DEF SubSpec
<1> QED
  BY <1>1, PTL DEF SubInv

-----------------------------------------------------------------------------
(* RdLogin: logins, the session and the window.                            *)

(* One connection: its phase, its pipe, the messages in both directions of *)
(* it, its entry in the window and whether AUTHED_CONNS has it.  A pipe is *)
(* not there before the first request and has nothing to show; word of a   *)
(* login or of the end is under way only after the fact; a connection that *)
(* leaves has said so, or nobody listens any more.                         *)
ConnAt(phase, ipc, toCm, toConn, cm, authed) ==
    /\ phase = "off" => ipc = "none"
    /\ ipc = "none" => cm = "none"
    /\ ipc = "down" => cm \in {"none", "left"}
    /\ UnderWay(toCm, {"Authed"}) => phase \in {"authed", "closing", "gone"}
    /\ UnderWay(toCm, {"Close", "Disconnected"}) => phase \in {"closing", "gone"}
    /\ phase \in {"closing", "gone"} =>
          ipc = "down" \/ UnderWay(toCm, {"Close", "Disconnected"})
    /\ cm = "authed" /\ phase \in {"open", "check", "code", "check2"} =>
          UnderWay(toConn, {"Authorize", "Close"})
    /\ ipc = "down" /\ phase \in {"open", "check", "code", "check2", "authed"} =>
          UnderWay(toConn, {"CmErr", "Close"})
    /\ phase = "authed" => authed

LgAt(c) ==
    ConnAt(lgPhase[c], lgIpc[c], lgToCm[c], lgToConn[c], lgCm[c], c \in lgAuthed)

(* A connection refreshes the session only while there is one.             *)
HeldIsOn == \A c \in LgConn : lgHold[c] => lgSess.on

LgInv ==
    /\ LgTypeOK /\ SessionCodeGiven /\ FailuresBounded /\ HeldIsOn
    /\ \A c \in LgConn : LgAt(c)

(* A message put at the end of a queue.                                    *)
LEMMA UnderWayAppend ==
  ASSUME NEW T, NEW q \in Seq(T), NEW x \in T, NEW M
  PROVE  UnderWay(Append(q, x), M) <=> UnderWay(q, M) \/ x \in M
  BY DEF UnderWay

(* A message taken from the front of a queue.                              *)
LEMMA UnderWayTail ==
  ASSUME NEW T, NEW q \in Seq(T), q # <<>>, NEW M
  PROVE  /\ Head(q) \in T /\ Tail(q) \in Seq(T)
         /\ UnderWay(q, M) <=> Head(q) \in M \/ UnderWay(Tail(q), M)
<1>1. /\ Len(q) \in Nat /\ Len(q) >= 1 /\ Head(q) = q[1] /\ Head(q) \in T /\ Tail(q) \in Seq(T)
      /\ Len(Tail(q)) = Len(q) - 1
      /\ \A i \in 1 .. Len(q) - 1 : Tail(q)[i] = q[i + 1]
  OBVIOUS
<1>2. ASSUME UnderWay(q, M), Head(q) \notin M PROVE UnderWay(Tail(q), M)
  <2>1. PICK i \in 1 .. Len(q) : q[i] \in M
    BY <1>2 DEF UnderWay
  <2>2. i - 1 \in 1 .. Len(q) - 1 /\ Tail(q)[i - 1] = q[i]
    BY <1>1, <1>2, <2>1
  <2> QED
    BY <1>1, <2>1, <2>2 DEF UnderWay
<1>3. ASSUME UnderWay(Tail(q), M) PROVE UnderWay(q, M)
  <2>1. PICK i \in 1 .. Len(q) - 1 : Tail(q)[i] \in M
    BY <1>1, <1>3 DEF UnderWay
  <2>2. i + 1 \in 1 .. Len(q) /\ q[i + 1] \in M
    BY <1>1, <2>1
  <2> QED
    BY <2>2 DEF UnderWay
<1>4. Head(q) \in M => UnderWay(q, M)
  BY <1>1 DEF UnderWay
<1> QED
  BY <1>1, <1>2, <1>3, <1>4

(* What tx_to_cm leaves of the queue of each connection.                   *)
LEMMA TellType ==
  ASSUME LgTypeOK, NEW c \in LgConn, NEW msg \in CmMsg
  PROVE  /\ Tell(c, msg) \in [LgConn -> Seq(CmMsg)]
         /\ \A d \in LgConn : d # c => Tell(c, msg)[d] = lgToCm[d]
         /\ lgIpc[c] = "down" => Tell(c, msg)[c] = lgToCm[c]
         /\ lgIpc[c] # "down" => Tell(c, msg)[c] = Append(lgToCm[c], msg)
<1>1. lgToCm \in [LgConn -> Seq(CmMsg)] /\ lgToCm[c] \in Seq(CmMsg)
  BY DEF LgTypeOK
<1>2. Append(lgToCm[c], msg) \in Seq(CmMsg)
  BY <1>1
<1> QED
  BY <1>1, <1>2 DEF Tell

(* A step of one connection leaves what holds of the others; add_connection*)
(* may forget an entry that stands for an earlier connection only.         *)
LEMMA OthersAt ==
  ASSUME NEW d \in LgConn, LgAt(d), lgPhase'[d] = lgPhase[d], lgIpc'[d] = lgIpc[d],
         lgToCm'[d] = lgToCm[d], lgToConn'[d] = lgToConn[d],
         lgCm'[d] = lgCm[d] \/ (lgCm[d] = "left" /\ lgCm'[d] = "none"),
         d \in lgAuthed' <=> d \in lgAuthed
  PROVE  LgAt(d)'
  BY DEF LgAt, ConnAt

(* on_close: the connection has said that it leaves, or nobody listens.    *)
LEMMA LeavesAt ==
  ASSUME LgTypeOK, NEW c \in LgConn, LgAt(c), NEW msg \in {"Close", "Disconnected"},
         Leaves(c, msg), lgIpc' = lgIpc, lgCm' = lgCm, lgPhase[c] # "off"
  PROVE  /\ LgAt(c)'
         /\ lgToCm' \in [LgConn -> Seq(CmMsg)] /\ lgPhase'[c] = "closing"
         /\ lgPhase' \in [LgConn -> LgPhases]
         /\ \A d \in LgConn : d # c => lgPhase'[d] = lgPhase[d] /\ lgToCm'[d] = lgToCm[d]
<1>1. msg \in CmMsg
  BY DEF CmMsg
<1>2. lgToCm' = Tell(c, msg) /\ lgPhase' = [lgPhase EXCEPT ![c] = "closing"]
  BY DEF Leaves
<1>3. /\ lgPhase'[c] = "closing"
      /\ lgPhase' \in [LgConn -> LgPhases]
      /\ \A d \in LgConn : d # c => lgPhase'[d] = lgPhase[d]
  BY <1>2 DEF LgTypeOK, LgPhases
<1>4. lgToCm[c] \in Seq(CmMsg)
  BY DEF LgTypeOK
<1>5. lgIpc[c] = "down" \/ UnderWay(lgToCm'[c], {"Close", "Disconnected"})
  <2>1. UnderWay(Append(lgToCm[c], msg), {"Close", "Disconnected"})
    BY <1>1, <1>4, UnderWayAppend
  <2> QED
    BY <1>1, <1>2, <2>1, TellType
<1>6. LgAt(c)'
  BY <1>3, <1>5 DEF LgAt, ConnAt
<1> QED
  BY <1>1, <1>2, <1>3, <1>6, TellType

(* The login of one connection: it is authorized and the window hears of it,*)
(* or its peer is asked for the code.                                      *)
LEMMA LogonAt ==
  ASSUME LgTypeOK, NEW c \in LgConn, LgAt(c), NEW sess, NEW tfa, sess.on \in BOOLEAN,
         Logon(c, sess, tfa), lgPhase[c] \in {"open", "check", "check2"},
         lgIpc'[c] = lgIpc[c] \/ (lgIpc[c] = "none" /\ lgIpc'[c] = "up"),
         lgToConn' = lgToConn, lgCm' = lgCm
  PROVE  /\ LgAt(c)'
         /\ lgToCm' \in [LgConn -> Seq(CmMsg)]
         /\ lgPhase' \in [LgConn -> LgPhases]
         /\ lgHold' \in [LgConn -> BOOLEAN] /\ lgAuthed' \subseteq LgConn
         /\ \A d \in LgConn : d # c =>
               /\ lgPhase'[d] = lgPhase[d] /\ lgToCm'[d] = lgToCm[d]
               /\ d \in lgAuthed' <=> d \in lgAuthed
         /\ \A d \in LgConn : lgHold'[d] => lgHold[d] \/ sess.on
<1>1. PICK msg \in {"Authed", "Waiting"} :
        /\ lgToCm' = Tell(c, msg)
        /\ msg = "Authed" => Authorized(c, sess)
        /\ msg = "Waiting" => /\ lgPhase' = [lgPhase EXCEPT ![c] = "code"]
                              /\ UNCHANGED <<lgAuthed, lgHold>>
  BY DEF Logon
<1>2. msg \in CmMsg /\ lgToCm[c] \in Seq(CmMsg)
  BY DEF CmMsg, LgTypeOK
<1>3. /\ lgToCm' \in [LgConn -> Seq(CmMsg)]
      /\ \A d \in LgConn : d # c => lgToCm'[d] = lgToCm[d]
      /\ lgToCm'[c] = lgToCm[c] \/ lgToCm'[c] = Append(lgToCm[c], msg)
  BY <1>1, <1>2, TellType
<1>4. /\ UnderWay(lgToCm'[c], {"Authed"}) => UnderWay(lgToCm[c], {"Authed"}) \/ msg = "Authed"
      /\ UnderWay(lgToCm'[c], {"Close", "Disconnected"}) =>
            UnderWay(lgToCm[c], {"Close", "Disconnected"})
  <2>1. UnderWay(Append(lgToCm[c], msg), {"Authed"}) <=>
          UnderWay(lgToCm[c], {"Authed"}) \/ msg \in {"Authed"}
    BY <1>2, UnderWayAppend
  <2>2. UnderWay(Append(lgToCm[c], msg), {"Close", "Disconnected"}) <=>
          UnderWay(lgToCm[c], {"Close", "Disconnected"}) \/ msg \in {"Close", "Disconnected"}
    BY <1>2, UnderWayAppend
  <2>3. msg \notin {"Close", "Disconnected"}
    OBVIOUS
  <2> QED
    BY <1>3, <2>1, <2>2, <2>3
<1>5. /\ lgPhase' \in [LgConn -> LgPhases]
      /\ \A d \in LgConn : d # c => lgPhase'[d] = lgPhase[d]
      /\ lgPhase'[c] = IF msg = "Authed" THEN "authed" ELSE "code"
  BY <1>1 DEF Authorized, LgTypeOK, LgPhases
<1>6. /\ lgHold' \in [LgConn -> BOOLEAN] /\ lgAuthed' \subseteq LgConn
      /\ \A d \in LgConn : lgHold'[d] => lgHold[d] \/ sess.on
      /\ \A d \in LgConn : d # c => (d \in lgAuthed' <=> d \in lgAuthed)
      /\ msg = "Authed" => c \in lgAuthed'
  BY <1>1 DEF Authorized, LgTypeOK
<1>7. LgAt(c)'
  BY <1>4, <1>5, <1>6 DEF LgAt, ConnAt
<1> QED
  BY <1>3, <1>5, <1>6, <1>7

(* A message to the window about a connection that has not logged in.      *)
LEMMA WaitingAt ==
  ASSUME LgTypeOK, NEW c \in LgConn, LgAt(c), lgToCm' = Tell(c, "Waiting"),
         lgPhase[c] \in {"open", "check"}, lgPhase'[c] = "open",
         lgIpc'[c] = lgIpc[c] \/ (lgIpc[c] = "none" /\ lgIpc'[c] = "up"),
         lgToConn' = lgToConn, lgCm' = lgCm, lgAuthed' = lgAuthed
  PROVE  /\ LgAt(c)' /\ lgToCm' \in [LgConn -> Seq(CmMsg)]
         /\ \A d \in LgConn : d # c => lgToCm'[d] = lgToCm[d]
<1>1. "Waiting" \in CmMsg /\ lgToCm[c] \in Seq(CmMsg)
  BY DEF CmMsg, LgTypeOK
<1>2. /\ lgToCm' \in [LgConn -> Seq(CmMsg)]
      /\ \A d \in LgConn : d # c => lgToCm'[d] = lgToCm[d]
      /\ lgToCm'[c] = lgToCm[c] \/ lgToCm'[c] = Append(lgToCm[c], "Waiting")
  BY <1>1, TellType
<1>3. /\ UnderWay(lgToCm'[c], {"Authed"}) => UnderWay(lgToCm[c], {"Authed"})
      /\ UnderWay(lgToCm'[c], {"Close", "Disconnected"}) =>
            UnderWay(lgToCm[c], {"Close", "Disconnected"})
  <2>1. UnderWay(Append(lgToCm[c], "Waiting"), {"Authed"}) <=>
          UnderWay(lgToCm[c], {"Authed"}) \/ "Waiting" \in {"Authed"}
    BY <1>1, UnderWayAppend
  <2>2. UnderWay(Append(lgToCm[c], "Waiting"), {"Close", "Disconnected"}) <=>
          UnderWay(lgToCm[c], {"Close", "Disconnected"}) \/ "Waiting" \in {"Close", "Disconnected"}
    BY <1>1, UnderWayAppend
  <2> QED
    BY <1>2, <2>1, <2>2
<1>4. LgAt(c)'
  BY <1>3 DEF LgAt, ConnAt
<1> QED
  BY <1>2, <1>4

(* check_failure reads no count past the limit.                            *)
LEMMA CheckKeeps ==
  ASSUME LgTypeOK, FailuresBounded, NEW c \in LgConn, NEW i \in {0, 1}, NEW pw \in Nat,
         NEW next \in {"check", "check2"}, CheckFailure(c, i, pw, next),
         lgPhase[c] \in {"open", "code"}
  PROVE  /\ lgRead' \in [LgConn -> [fail : Nat, pw : Nat]]
         /\ \A d \in LgConn : lgRead'[d].fail <= LgFailLimit
         /\ lgPhase' \in [LgConn -> LgPhases]
         /\ lgPhase'[c] \in {lgPhase[c], next}
         /\ \A d \in LgConn : d # c => lgPhase'[d] = lgPhase[d]
<1>1. /\ lgPhase' \in [LgConn -> LgPhases]
      /\ lgPhase'[c] \in {lgPhase[c], next}
      /\ \A d \in LgConn : d # c => lgPhase'[d] = lgPhase[d]
  <2>1. lgPhase' = lgPhase \/ lgPhase' = [lgPhase EXCEPT ![c] = next]
    BY DEF CheckFailure
  <2>2. next \in LgPhases
    BY DEF LgPhases
  <2>3. lgPhase \in [LgConn -> LgPhases]
    BY DEF LgTypeOK
  <2>4. CASE lgPhase' = lgPhase
    BY <2>3, <2>4
  <2>5. CASE lgPhase' = [lgPhase EXCEPT ![c] = next]
    <3>1. lgPhase' \in [LgConn -> LgPhases]
      BY <2>2, <2>3, <2>5
    <3> QED
      BY <2>3, <2>5, <3>1
  <2> QED
    BY <2>1, <2>4, <2>5
<1>2. lgFail[i] \in Nat
  BY DEF LgTypeOK
<1>3. CASE lgRead' = lgRead
  BY <1>1, <1>3 DEF LgTypeOK, FailuresBounded
<1>4. CASE /\ lgFail[i] <= LgFailLimit
           /\ lgRead' = [lgRead EXCEPT ![c] = [fail |-> lgFail[i], pw |-> pw]]
  <2>1. lgRead \in [LgConn -> [fail : Nat, pw : Nat]]
    BY DEF LgTypeOK
  <2>2. lgRead' \in [LgConn -> [fail : Nat, pw : Nat]]
    BY <1>2, <1>4, <2>1
  <2>3. \A d \in LgConn : lgRead'[d].fail <= LgFailLimit
    BY <1>4, <2>1 DEF FailuresBounded
  <2> QED
    BY <1>1, <2>2, <2>3
<1> QED
  BY <1>3, <1>4 DEF CheckFailure

(* update_failure writes at most one failure past the limit.               *)
LEMMA UpdateKeeps ==
  ASSUME LgTypeOK, FailuresBounded, NEW c \in LgConn, NEW i \in {0, 1}, NEW remove \in BOOLEAN,
         UpdateFailure(c, i, remove), lgRead' = [lgRead EXCEPT ![c] = NoRead]
  PROVE  /\ lgFail' \in [{0, 1} -> Nat] /\ FailuresBounded'
         /\ lgRead' \in [LgConn -> [fail : Nat, pw : Nat]]
<1>1. lgRead[c].fail \in Nat /\ lgRead[c].fail <= LgFailLimit /\ lgFail \in [{0, 1} -> Nat]
  BY DEF LgTypeOK, FailuresBounded
<1>2. lgFail' \in [{0, 1} -> Nat] /\ \A k \in {0, 1} : lgFail'[k] <= LgFailLimit + 1
  <2> DEFINE v == IF ~remove THEN lgRead[c].fail + 1
                  ELSE IF lgRead[c].fail # 0 THEN 0 ELSE lgFail[i]
  <2>1. lgFail' = [lgFail EXCEPT ![i] = v]
    BY DEF UpdateFailure
  <2>2. v \in Nat /\ v <= LgFailLimit + 1
    BY <1>1, LgBounds DEF FailuresBounded
  <2> HIDE DEF v
  <2> QED
    BY <1>1, <2>1, <2>2 DEF FailuresBounded
<1>3. NoRead \in [fail : Nat, pw : Nat] /\ NoRead.fail = 0
  BY DEF NoRead, Wrong
<1>4. lgRead \in [LgConn -> [fail : Nat, pw : Nat]]
  BY DEF LgTypeOK
<1>5. lgRead' \in [LgConn -> [fail : Nat, pw : Nat]]
  BY <1>3, <1>4
<1>6. \A d \in LgConn : lgRead'[d].fail <= LgFailLimit
  BY <1>3, <1>4, LgBounds DEF FailuresBounded
<1> QED
  BY <1>2, <1>5, <1>6 DEF FailuresBounded

(* check_remove_session leaves the session or none, and the connections that*)
(* refresh it with it.                                                     *)
LEMMA DropKeeps ==
  ASSUME LgTypeOK, SessionCodeGiven, HeldIsOn, NEW sess \in {lgSess, NoSession},
         DropSession(sess)
  PROVE  /\ lgSess' \in [on : BOOLEAN, pw : Nat, tfa : BOOLEAN]
         /\ lgHold' \in [LgConn -> BOOLEAN] /\ lgCode' \in BOOLEAN
         /\ SessionCodeGiven' /\ HeldIsOn'
<1>1. NoSession \in [on : BOOLEAN, pw : Nat, tfa : BOOLEAN] /\ ~NoSession.on
  BY DEF NoSession, Wrong
<1>2. lgSess \in [on : BOOLEAN, pw : Nat, tfa : BOOLEAN]
  BY DEF LgTypeOK
<1>3. lgSess' = sess /\ sess \in [on : BOOLEAN, pw : Nat, tfa : BOOLEAN]
  BY <1>1, <1>2 DEF DropSession
<1>4. lgCode' \in BOOLEAN /\ SessionCodeGiven'
  BY <1>1, <1>3 DEF DropSession, SessionCodeGiven
<1>5. lgHold' \in [LgConn -> BOOLEAN] /\ HeldIsOn'
  BY <1>1, <1>3 DEF DropSession, HeldIsOn, LgTypeOK
<1> QED
  BY <1>3, <1>4, <1>5

(* No connection, no session, no failure on record.                        *)
LEMMA LgInitInv == LgInit => LgInv
<1> SUFFICES ASSUME LgInit PROVE LgInv
  OBVIOUS
<1> USE LgBounds
<1>1. \A c \in LgConn : lgToCm[c] = <<>> /\ lgToConn[c] = <<>>
  BY DEF LgInit
<1>2. NoRead \in [fail : Nat, pw : Nat] /\ NoRead.fail = 0
  BY DEF NoRead, Wrong
<1>3. NoSession \in [on : BOOLEAN, pw : Nat, tfa : BOOLEAN] /\ ~NoSession.on
  BY DEF NoSession, Wrong
<1>4. /\ lgToCm \in [LgConn -> Seq(CmMsg)] /\ lgToConn \in [LgConn -> Seq(ConnMsg)]
      /\ lgRead \in [LgConn -> [fail : Nat, pw : Nat]]
  BY <1>2 DEF LgInit
<1>5. LgTypeOK
  <2>1. lgPhase \in [LgConn -> LgPhases]
    BY DEF LgInit, LgPhases
  <2>2. lgTfa \in [LgConn -> BOOLEAN] /\ lgHold \in [LgConn -> BOOLEAN]
    BY DEF LgInit
  <2>3. lgPw \in Nat /\ lgPw >= FirstPw /\ lgTries \in 0 .. LgMaxTries
    BY DEF LgInit, FirstPw
  <2>4. lgFail \in [{0, 1} -> Nat] /\ lgAuthed \subseteq LgConn
    BY DEF LgInit
  <2>5. /\ lgIpc \in [LgConn -> {"none", "up", "down"}]
        /\ lgCm \in [LgConn -> {"none", "waiting", "authed", "left"}]
    BY DEF LgInit
  <2> QED
    BY <1>3, <1>4, <2>1, <2>2, <2>3, <2>4, <2>5 DEF LgInit, LgTypeOK
<1>6. SessionCodeGiven /\ FailuresBounded /\ HeldIsOn
  BY <1>2, <1>3 DEF LgInit, SessionCodeGiven, FailuresBounded, HeldIsOn
<1>7. \A c \in LgConn : LgAt(c)
  <2>1. \A M : ~UnderWay(<<>>, M)
    BY DEF UnderWay
  <2> QED
    BY <1>1, <2>1 DEF LgInit, LgAt, ConnAt
<1> QED
  BY <1>5, <1>6, <1>7 DEF LgInv

(* Every step of a task, of the window and of the session keeps the        *)
(* invariant.                                                              *)
LEMMA LgStep == LgInv /\ [LgNext]_lgVars => LgInv'
<1> SUFFICES ASSUME LgInv, [LgNext]_lgVars PROVE LgInv'
  OBVIOUS
<1> USE LgBounds DEF LgInv
<1>0. /\ lgPhase \in [LgConn -> LgPhases] /\ lgIpc \in [LgConn -> {"none", "up", "down"}]
      /\ lgToCm \in [LgConn -> Seq(CmMsg)] /\ lgToConn \in [LgConn -> Seq(ConnMsg)]
      /\ lgCm \in [LgConn -> {"none", "waiting", "authed", "left"}]
      /\ lgTfa \in [LgConn -> BOOLEAN] /\ lgHold \in [LgConn -> BOOLEAN]
      /\ lgPw \in Nat /\ lgPw >= FirstPw /\ lgTries \in 0 .. LgMaxTries
      /\ lgSess \in [on : BOOLEAN, pw : Nat, tfa : BOOLEAN]
  BY DEF LgTypeOK
<1>1. ASSUME NEW c \in LgConn, LgConnect(c) PROVE LgInv'
  <2>1. /\ lgPhase' \in [LgConn -> LgPhases] /\ lgPhase'[c] = "open" /\ lgPhase[c] = "off"
        /\ \A d \in LgConn : d # c => lgPhase'[d] = lgPhase[d]
    BY <1>0, <1>1 DEF LgConnect, LgPhases
  <2>2. LgTypeOK'
    BY <1>1, <2>1 DEF LgConnect, lgPipe, LgTypeOK
  <2>3. SessionCodeGiven' /\ FailuresBounded' /\ HeldIsOn'
    BY <1>1 DEF LgConnect, SessionCodeGiven, FailuresBounded, HeldIsOn
  <2>4. LgAt(c)'
    BY <1>1, <2>1 DEF LgConnect, lgPipe, LgAt, ConnAt
  <2>5. \A d \in LgConn : LgAt(d)'
    BY <1>1, <2>1, <2>4, OthersAt DEF LgConnect, lgPipe
  <2> QED
    BY <2>2, <2>3, <2>5
<1>2. ASSUME NEW c \in LgConn, LgAskUser(c) PROVE LgInv'
  <2>1. /\ lgIpc' \in [LgConn -> {"none", "up", "down"}]
        /\ lgIpc'[c] = lgIpc[c] \/ (lgIpc[c] = "none" /\ lgIpc'[c] = "up")
        /\ \A d \in LgConn : d # c => lgIpc'[d] = lgIpc[d]
        /\ lgTries' \in 0 .. LgMaxTries
    BY <1>0, <1>2 DEF LgAskUser
  <2>2. /\ LgAt(c)' /\ lgToCm' \in [LgConn -> Seq(CmMsg)]
        /\ \A d \in LgConn : d # c => lgToCm'[d] = lgToCm[d]
    BY <1>2, <2>1, WaitingAt DEF LgAskUser
  <2>3. LgTypeOK'
    BY <1>2, <2>1, <2>2 DEF LgAskUser, LgTypeOK
  <2>4. SessionCodeGiven' /\ FailuresBounded' /\ HeldIsOn'
    BY <1>2 DEF LgAskUser, SessionCodeGiven, FailuresBounded, HeldIsOn
  <2>5. \A d \in LgConn : LgAt(d)'
    BY <1>2, <2>1, <2>2, OthersAt DEF LgAskUser
  <2> QED
    BY <2>3, <2>4, <2>5
<1>3. ASSUME NEW c \in LgConn, LgValidate(c) PROVE LgInv'
  <2>1. /\ lgRead[c].pw \in Nat /\ lgRead' = [lgRead EXCEPT ![c] = NoRead]
        /\ lgPhase[c] = "check" /\ lgToConn' = lgToConn /\ lgIpc' = lgIpc /\ lgCm' = lgCm
    BY <1>3 DEF LgValidate, LgTypeOK
  <2>2. /\ lgFail' \in [{0, 1} -> Nat] /\ FailuresBounded'
        /\ lgRead' \in [LgConn -> [fail : Nat, pw : Nat]]
    BY <1>3, <2>1, UpdateKeeps DEF LgValidate
  <2>3. CASE /\ lgSess' = SessionWith(lgRead[c].pw)
             /\ lgCode' = (lgCode /\ lgRead[c].pw # lgPw)
             /\ Logon(c, SessionWith(lgRead[c].pw), lgTfa[c])
    <3> DEFINE sess == SessionWith(lgRead[c].pw)
    <3>1. /\ sess \in [on : BOOLEAN, pw : Nat, tfa : BOOLEAN]
          /\ sess = lgSess \/ (sess.on /\ ~sess.tfa)
          /\ lgSess.on => sess.on
          /\ lgRead[c].pw # lgPw => sess = lgSess
          /\ lgRead[c].pw = lgPw => ~sess.tfa
      BY <1>0, <2>1 DEF SessionWith
    <3>2. lgSess' = sess /\ Logon(c, sess, lgTfa[c]) /\ sess.on \in BOOLEAN
      BY <2>3, <3>1
    <3> HIDE DEF sess
    <3>3. /\ LgAt(c)'
          /\ lgToCm' \in [LgConn -> Seq(CmMsg)]
          /\ lgPhase' \in [LgConn -> LgPhases]
          /\ lgHold' \in [LgConn -> BOOLEAN] /\ lgAuthed' \subseteq LgConn
          /\ \A d \in LgConn : d # c =>
                /\ lgPhase'[d] = lgPhase[d] /\ lgToCm'[d] = lgToCm[d]
                /\ d \in lgAuthed' <=> d \in lgAuthed
          /\ \A d \in LgConn : lgHold'[d] => lgHold[d] \/ sess.on
      BY <2>1, <3>2, LogonAt
    <3>4. LgTypeOK'
      BY <1>3, <2>2, <2>3, <3>1, <3>2, <3>3 DEF LgValidate, LgTypeOK
    <3>5. SessionCodeGiven' /\ HeldIsOn'
      BY <2>3, <3>1, <3>2, <3>3 DEF SessionCodeGiven, HeldIsOn
    <3>6. \A d \in LgConn : LgAt(d)'
      BY <2>1, <3>3, OthersAt
    <3> QED
      BY <2>2, <3>4, <3>5, <3>6
  <2>4. CASE /\ lgPhase' = [lgPhase EXCEPT ![c] = "open"] /\ lgToCm' = Tell(c, "Waiting")
             /\ UNCHANGED <<lgSess, lgCode, lgAuthed, lgHold>>
    <3>1. /\ lgPhase' \in [LgConn -> LgPhases] /\ lgPhase'[c] = "open"
          /\ \A d \in LgConn : d # c => lgPhase'[d] = lgPhase[d]
      BY <1>0, <2>4 DEF LgPhases
    <3>2. /\ LgAt(c)' /\ lgToCm' \in [LgConn -> Seq(CmMsg)]
          /\ \A d \in LgConn : d # c => lgToCm'[d] = lgToCm[d]
      BY <2>1, <2>4, <3>1, WaitingAt
    <3>3. LgTypeOK'
      BY <1>3, <2>2, <2>4, <3>1, <3>2 DEF LgValidate, LgTypeOK
    <3>4. SessionCodeGiven' /\ HeldIsOn'
      BY <2>4 DEF SessionCodeGiven, HeldIsOn
    <3>5. \A d \in LgConn : LgAt(d)'
      BY <2>1, <2>4, <3>1, <3>2, OthersAt
    <3> QED
      BY <2>2, <3>3, <3>4, <3>5
  <2> QED
    BY <1>3, <2>3, <2>4 DEF LgValidate
<1>4. ASSUME NEW c \in LgConn, LgCode2fa(c) PROVE LgInv'
  <2>1. /\ CheckFailure(c, 1, Wrong, "check2") /\ Wrong \in Nat /\ lgPhase[c] = "code"
    BY <1>4 DEF LgCode2fa, Wrong
  <2>2. /\ lgRead' \in [LgConn -> [fail : Nat, pw : Nat]]
        /\ \A d \in LgConn : lgRead'[d].fail <= LgFailLimit
        /\ lgPhase' \in [LgConn -> LgPhases] /\ lgPhase'[c] \in {lgPhase[c], "check2"}
        /\ \A d \in LgConn : d # c => lgPhase'[d] = lgPhase[d]
    BY <2>1, CheckKeeps
  <2>3. LgTypeOK'
    BY <1>4, <2>2 DEF LgCode2fa, lgPipe, LgTypeOK
  <2>4. SessionCodeGiven' /\ FailuresBounded' /\ HeldIsOn'
    BY <1>4, <2>2 DEF LgCode2fa, SessionCodeGiven, FailuresBounded, HeldIsOn
  <2>5. LgAt(c)'
    BY <1>4, <2>1, <2>2 DEF LgCode2fa, lgPipe, LgAt, ConnAt
  <2>6. \A d \in LgConn : LgAt(d)'
    BY <1>4, <2>2, <2>5, OthersAt DEF LgCode2fa, lgPipe
  <2> QED
    BY <2>3, <2>4, <2>6
<1>5. ASSUME NEW c \in LgConn, LgAuth2fa(c) PROVE LgInv'
  <2>1. /\ lgRead' = [lgRead EXCEPT ![c] = NoRead] /\ lgPhase[c] = "check2"
        /\ lgToConn' = lgToConn /\ lgIpc' = lgIpc /\ lgCm' = lgCm
    BY <1>5 DEF LgAuth2fa
  <2>2. /\ lgFail' \in [{0, 1} -> Nat] /\ FailuresBounded'
        /\ lgRead' \in [LgConn -> [fail : Nat, pw : Nat]]
    BY <1>5, <2>1, UpdateKeeps DEF LgAuth2fa
  <2>3. CASE /\ lgTfa' = [lgTfa EXCEPT ![c] = FALSE]
             /\ lgSess' = [lgSess EXCEPT !.on = TRUE, !.tfa = TRUE] /\ lgCode' = TRUE
             /\ Logon(c, lgSess', FALSE)
    <3>1. lgSess' \in [on : BOOLEAN, pw : Nat, tfa : BOOLEAN] /\ lgSess'.on
      BY <1>0, <2>3
    <3>2. lgTfa' \in [LgConn -> BOOLEAN]
      BY <1>0, <2>3
    <3>3. /\ LgAt(c)'
          /\ lgToCm' \in [LgConn -> Seq(CmMsg)]
          /\ lgPhase' \in [LgConn -> LgPhases]
          /\ lgHold' \in [LgConn -> BOOLEAN] /\ lgAuthed' \subseteq LgConn
          /\ \A d \in LgConn : d # c =>
                /\ lgPhase'[d] = lgPhase[d] /\ lgToCm'[d] = lgToCm[d]
                /\ d \in lgAuthed' <=> d \in lgAuthed
      <4>1. lgSess'.on \in BOOLEAN
        BY <3>1
      <4> QED
        BY <2>1, <2>3, <4>1, LogonAt
    <3>4. LgTypeOK'
      BY <1>5, <2>2, <2>3, <3>1, <3>2, <3>3 DEF LgAuth2fa, LgTypeOK
    <3>5. SessionCodeGiven' /\ HeldIsOn'
      BY <2>3, <3>1 DEF SessionCodeGiven, HeldIsOn
    <3>6. \A d \in LgConn : LgAt(d)'
      BY <2>1, <3>3, OthersAt
    <3> QED
      BY <2>2, <3>4, <3>5, <3>6
  <2>4. CASE /\ lgPhase' = [lgPhase EXCEPT ![c] = "code"]
             /\ UNCHANGED <<lgTfa, lgSess, lgCode, lgToCm, lgAuthed, lgHold>>
    <3>1. /\ lgPhase' \in [LgConn -> LgPhases] /\ lgPhase'[c] = "code"
          /\ \A d \in LgConn : d # c => lgPhase'[d] = lgPhase[d]
      BY <1>0, <2>4 DEF LgPhases
    <3>2. LgTypeOK'
      BY <1>5, <2>2, <2>4, <3>1 DEF LgAuth2fa, LgTypeOK
    <3>3. SessionCodeGiven' /\ HeldIsOn'
      BY <2>4 DEF SessionCodeGiven, HeldIsOn
    <3>4. LgAt(c)'
      BY <2>1, <2>4, <3>1 DEF LgAt, ConnAt
    <3>5. \A d \in LgConn : LgAt(d)'
      BY <2>1, <2>4, <3>1, <3>4, OthersAt
    <3> QED
      BY <2>2, <3>2, <3>3, <3>5
  <2> QED
    BY <1>5, <2>3, <2>4 DEF LgAuth2fa
<1>6. ASSUME NEW c \in LgConn, LgPeerClose(c) PROVE LgInv'
  <2>1. PICK msg \in {"Close", "Disconnected"} : Leaves(c, msg)
    BY <1>6 DEF LgPeerClose, Farewell
  <2>2. lgIpc' = lgIpc /\ lgCm' = lgCm /\ lgToConn' = lgToConn /\ lgPhase[c] # "off"
    BY <1>6 DEF LgPeerClose, Listening
  <2>3. /\ LgAt(c)'
        /\ lgToCm' \in [LgConn -> Seq(CmMsg)] /\ lgPhase' \in [LgConn -> LgPhases]
        /\ \A d \in LgConn : d # c => lgPhase'[d] = lgPhase[d] /\ lgToCm'[d] = lgToCm[d]
    BY <2>1, <2>2, LeavesAt
  <2>4. SessionAfter(c) \in {lgSess, NoSession} /\ DropSession(SessionAfter(c))
    BY <1>6 DEF LgPeerClose, SessionAfter
  <2>5. /\ lgSess' \in [on : BOOLEAN, pw : Nat, tfa : BOOLEAN]
        /\ lgHold' \in [LgConn -> BOOLEAN] /\ lgCode' \in BOOLEAN
        /\ SessionCodeGiven' /\ HeldIsOn'
    BY <2>4, DropKeeps
  <2>6. LgTypeOK' /\ FailuresBounded'
    BY <1>6, <2>3, <2>5 DEF LgPeerClose, LgTypeOK, FailuresBounded
  <2>7. \A d \in LgConn : LgAt(d)'
    BY <1>6, <2>2, <2>3, OthersAt DEF LgPeerClose
  <2> QED
    BY <2>5, <2>6, <2>7
<1>7. ASSUME NEW c \in LgConn, LgLost(c) PROVE LgInv'
  <2>1. PICK msg \in {"Close", "Disconnected"} : Leaves(c, msg)
    BY <1>7 DEF LgLost, Farewell
  <2>2. lgIpc' = lgIpc /\ lgCm' = lgCm /\ lgToConn' = lgToConn /\ lgPhase[c] # "off"
    BY <1>7 DEF LgLost, Listening
  <2>3. /\ LgAt(c)'
        /\ lgToCm' \in [LgConn -> Seq(CmMsg)] /\ lgPhase' \in [LgConn -> LgPhases]
        /\ \A d \in LgConn : d # c => lgPhase'[d] = lgPhase[d] /\ lgToCm'[d] = lgToCm[d]
    BY <2>1, <2>2, LeavesAt
  <2>4. LgTypeOK' /\ SessionCodeGiven' /\ HeldIsOn' /\ FailuresBounded'
    BY <1>7, <2>3 DEF LgLost, LgTypeOK, FailuresBounded, SessionCodeGiven, HeldIsOn
  <2>5. \A d \in LgConn : LgAt(d)'
    BY <1>7, <2>2, <2>3, OthersAt DEF LgLost
  <2> QED
    BY <2>4, <2>5
<1>8. ASSUME NEW c \in LgConn, LgEnd(c) PROVE LgInv'
  <2>1. /\ lgPhase' \in [LgConn -> LgPhases] /\ lgPhase'[c] = "gone" /\ lgPhase[c] = "closing"
        /\ \A d \in LgConn : d # c => lgPhase'[d] = lgPhase[d]
    BY <1>0, <1>8 DEF LgEnd, LgPhases
  <2>2. /\ lgToConn' \in [LgConn -> Seq(ConnMsg)]
        /\ \A d \in LgConn : d # c => lgToConn'[d] = lgToConn[d]
    BY <1>0, <1>8 DEF LgEnd
  <2>3. lgPw' \in Nat /\ lgPw' >= FirstPw
    BY <1>0, <1>8 DEF LgEnd, FirstPw
  <2>4. lgHold' \in [LgConn -> BOOLEAN] /\ \A d \in LgConn : lgHold'[d] => lgHold[d]
    BY <1>0, <1>8 DEF LgEnd
  <2>5. lgTfa' \in [LgConn -> BOOLEAN] /\ lgAuthed' \subseteq LgConn
    BY <1>0, <1>8 DEF LgEnd, LgTypeOK
  <2>6. LgTypeOK'
    BY <1>8, <2>1, <2>2, <2>3, <2>4, <2>5 DEF LgEnd, LgTypeOK
  <2>7. SessionCodeGiven' /\ FailuresBounded' /\ HeldIsOn'
    BY <1>8, <2>4 DEF LgEnd, SessionCodeGiven, FailuresBounded, HeldIsOn
  <2>8. LgAt(c)'
    BY <1>8, <2>1 DEF LgEnd, LgAt, ConnAt
  <2>9. \A d \in LgConn : LgAt(d)'
    BY <1>8, <2>1, <2>2, <2>8, OthersAt DEF LgEnd
  <2> QED
    BY <2>6, <2>7, <2>9
<1>9. ASSUME NEW c \in LgConn, LgCmRecv(c) PROVE LgInv'
  <2> DEFINE msg == Head(lgToCm[c])
             kept == [d \in LgConn |-> IF lgCm[d] = "left" THEN "none" ELSE lgCm[d]]
  <2>1. /\ lgToCm[c] \in Seq(CmMsg) /\ lgToCm[c] # <<>> /\ lgIpc[c] = "up"
        /\ lgToCm'[c] = Tail(lgToCm[c])
        /\ \A d \in LgConn : d # c => lgToCm'[d] = lgToCm[d]
    BY <1>0, <1>9 DEF LgCmRecv
  <2>2. /\ msg \in CmMsg /\ Tail(lgToCm[c]) \in Seq(CmMsg)
        /\ UnderWay(lgToCm[c], {"Authed"}) <=>
              msg \in {"Authed"} \/ UnderWay(lgToCm'[c], {"Authed"})
        /\ UnderWay(lgToCm[c], {"Close", "Disconnected"}) <=>
              msg \in {"Close", "Disconnected"} \/ UnderWay(lgToCm'[c], {"Close", "Disconnected"})
    BY <2>1, UnderWayTail
  <2>3. lgToCm' \in [LgConn -> Seq(CmMsg)]
    BY <1>0, <1>9, <2>2 DEF LgCmRecv
  <2>4. \/ msg = "Authed" /\ lgCm' = [kept EXCEPT ![c] = "authed"] /\ lgIpc' = lgIpc
        \/ msg = "Waiting" /\ lgCm' = [kept EXCEPT ![c] = "waiting"] /\ lgIpc' = lgIpc
        \/ /\ msg = "Close" /\ lgCm' = [lgCm EXCEPT ![c] = "none"]
           /\ lgIpc' = [lgIpc EXCEPT ![c] = "down"]
        \/ /\ msg = "Disconnected"
           /\ lgCm' = [lgCm EXCEPT ![c] = IF @ = "none" THEN @ ELSE "left"]
           /\ lgIpc' = [lgIpc EXCEPT ![c] = "down"]
    BY <1>9 DEF LgCmRecv
  <2>5. kept \in [LgConn -> {"none", "waiting", "authed", "left"}]
    BY <1>0
  <2>6. \A d \in LgConn : kept[d] = lgCm[d] \/ (lgCm[d] = "left" /\ kept[d] = "none")
    OBVIOUS
  <2> HIDE DEF msg, kept
  <2>7. /\ lgIpc' \in [LgConn -> {"none", "up", "down"}]
        /\ \A d \in LgConn : d # c => lgIpc'[d] = lgIpc[d]
    BY <1>0, <2>4
  <2>8. lgCm' \in [LgConn -> {"none", "waiting", "authed", "left"}]
    BY <1>0, <2>4, <2>5
  <2>9. \A d \in LgConn : d # c =>
           lgCm'[d] = lgCm[d] \/ (lgCm[d] = "left" /\ lgCm'[d] = "none")
    BY <1>0, <2>4, <2>5, <2>6
  <2>10. /\ lgPhase' = lgPhase /\ lgToConn' = lgToConn /\ lgAuthed' = lgAuthed
    BY <1>9 DEF LgCmRecv
  <2>11. LgAt(c)'
    <3>1. CASE msg = "Authed"
      <4>1. lgCm'[c] = "authed" /\ lgIpc' = lgIpc
        BY <2>4, <2>5, <3>1
      <4> QED
        BY <2>1, <2>2, <2>10, <3>1, <4>1 DEF LgAt, ConnAt
    <3>2. CASE msg = "Waiting"
      <4>1. lgCm'[c] = "waiting" /\ lgIpc' = lgIpc
        BY <2>4, <2>5, <3>2
      <4> QED
        BY <2>1, <2>2, <2>10, <3>2, <4>1 DEF LgAt, ConnAt
    <3>3. CASE msg \in {"Close", "Disconnected"}
      <4>1. lgCm'[c] \in {"none", "left"} /\ lgIpc'[c] = "down"
        BY <1>0, <2>4, <3>3
      <4> QED
        BY <2>1, <2>2, <2>10, <3>3, <4>1 DEF LgAt, ConnAt
    <3> QED
      BY <2>4, <3>1, <3>2, <3>3
  <2>12. LgTypeOK'
    BY <1>9, <2>3, <2>7, <2>8 DEF LgCmRecv, LgTypeOK
  <2>13. SessionCodeGiven' /\ FailuresBounded' /\ HeldIsOn'
    BY <1>9 DEF LgCmRecv, SessionCodeGiven, FailuresBounded, HeldIsOn
  <2>14. \A d \in LgConn : LgAt(d)'
    BY <2>1, <2>7, <2>9, <2>10, <2>11, OthersAt
  <2> QED
    BY <2>12, <2>13, <2>14
<1>10. ASSUME NEW c \in LgConn, LgConnRecv(c) PROVE LgInv'
  <2> DEFINE msg == Head(lgToConn[c])
  <2>1. /\ lgToConn[c] \in Seq(ConnMsg) /\ lgToConn[c] # <<>> /\ Listening(c)
        /\ lgToConn'[c] = Tail(lgToConn[c])
        /\ \A d \in LgConn : d # c => lgToConn'[d] = lgToConn[d]
        /\ lgIpc' = lgIpc /\ lgCm' = lgCm
    BY <1>0, <1>10 DEF LgConnRecv
  <2>2. /\ msg \in ConnMsg /\ Tail(lgToConn[c]) \in Seq(ConnMsg)
        /\ UnderWay(lgToConn[c], {"CmErr", "Close"}) <=>
              msg \in {"CmErr", "Close"} \/ UnderWay(lgToConn'[c], {"CmErr", "Close"})
    BY <2>1, UnderWayTail
  <2>3. lgToConn' \in [LgConn -> Seq(ConnMsg)]
    BY <1>0, <1>10, <2>2 DEF LgConnRecv
  <2>4. CASE /\ msg = "Authorize" /\ lgTfa' = [lgTfa EXCEPT ![c] = FALSE]
             /\ IF lgPhase[c] = "authed" THEN UNCHANGED <<lgPhase, lgAuthed, lgHold>>
                ELSE Authorized(c, lgSess)
             /\ UNCHANGED <<lgToCm, lgSess, lgCode>>
    <3>1. lgTfa' \in [LgConn -> BOOLEAN]
      BY <1>0, <2>4
    <3>2. /\ lgPhase' \in [LgConn -> LgPhases] /\ lgPhase'[c] = "authed"
          /\ \A d \in LgConn : d # c => lgPhase'[d] = lgPhase[d]
      BY <1>0, <2>4 DEF Authorized, LgPhases
    <3>3. /\ lgAuthed' \subseteq LgConn /\ c \in lgAuthed'
          /\ \A d \in LgConn : d # c => (d \in lgAuthed' <=> d \in lgAuthed)
      BY <2>4 DEF Authorized, LgTypeOK, LgAt, ConnAt
    <3>4. /\ lgHold' \in [LgConn -> BOOLEAN]
          /\ \A d \in LgConn : lgHold'[d] => lgHold[d] \/ lgSess.on
      BY <1>0, <2>4 DEF Authorized
    <3>5. LgTypeOK'
      BY <1>10, <2>3, <2>4, <3>1, <3>2, <3>3, <3>4 DEF LgConnRecv, LgTypeOK
    <3>6. SessionCodeGiven' /\ FailuresBounded' /\ HeldIsOn'
      BY <1>10, <2>4, <3>4 DEF LgConnRecv, SessionCodeGiven, FailuresBounded, HeldIsOn
    <3>7. LgAt(c)'
      <4>1. msg \notin {"CmErr", "Close"}
        BY <2>4
      <4>2. UnderWay(lgToConn[c], {"CmErr", "Close"}) <=> UnderWay(lgToConn'[c], {"CmErr", "Close"})
        BY <2>2, <4>1
      <4>3. lgPhase[c] \in {"open", "code", "authed"}
        BY <2>1 DEF Listening
      <4> QED
        BY <2>1, <2>4, <3>2, <3>3, <4>2, <4>3 DEF LgAt, ConnAt
    <3>8. \A d \in LgConn : LgAt(d)'
      BY <2>1, <2>4, <3>2, <3>3, <3>7, OthersAt
    <3> QED
      BY <3>5, <3>6, <3>8
  <2>5. CASE /\ Leaves(c, "Close") /\ lgTfa' = lgTfa /\ lgAuthed' = lgAuthed
             /\ \/ DropSession(SessionAfter(c))
                \/ UNCHANGED <<lgSess, lgHold, lgCode>>
    <3>1. /\ LgAt(c)'
          /\ lgToCm' \in [LgConn -> Seq(CmMsg)] /\ lgPhase' \in [LgConn -> LgPhases]
          /\ \A d \in LgConn : d # c => lgPhase'[d] = lgPhase[d] /\ lgToCm'[d] = lgToCm[d]
      BY <2>1, <2>5, LeavesAt DEF Listening
    <3>2. /\ lgSess' \in [on : BOOLEAN, pw : Nat, tfa : BOOLEAN]
          /\ lgHold' \in [LgConn -> BOOLEAN] /\ lgCode' \in BOOLEAN
          /\ SessionCodeGiven' /\ HeldIsOn'
      <4>1. CASE DropSession(SessionAfter(c))
        BY <4>1, DropKeeps DEF SessionAfter
      <4>2. CASE UNCHANGED <<lgSess, lgHold, lgCode>>
        BY <4>2 DEF LgTypeOK, SessionCodeGiven, HeldIsOn
      <4> QED
        BY <2>5, <4>1, <4>2
    <3>3. LgTypeOK' /\ FailuresBounded'
      BY <1>10, <2>3, <2>5, <3>1, <3>2 DEF LgConnRecv, LgTypeOK, FailuresBounded
    <3>4. \A d \in LgConn : LgAt(d)'
      BY <2>1, <2>5, <3>1, OthersAt
    <3> QED
      BY <3>2, <3>3, <3>4
  <2> QED
    BY <1>10, <2>4, <2>5 DEF LgConnRecv
<1>11. ASSUME NEW c \in LgConn, NEW pw \in Passwords, LgRequest(c, pw) PROVE LgInv'
  <2>1. /\ lgIpc' \in [LgConn -> {"none", "up", "down"}]
        /\ lgIpc'[c] = lgIpc[c] \/ (lgIpc[c] = "none" /\ lgIpc'[c] = "up")
        /\ \A d \in LgConn : d # c => lgIpc'[d] = lgIpc[d]
        /\ lgTries' \in 0 .. LgMaxTries /\ lgPhase[c] = "open"
        /\ lgToConn' = lgToConn /\ lgCm' = lgCm
    BY <1>0, <1>11 DEF LgRequest
  <2>2. pw \in Nat /\ lgSess.on \in BOOLEAN
    BY <1>0 DEF Passwords, Wrong, Permanent
  <2>3. CASE Logon(c, lgSess, lgTfa[c]) /\ lgRead' = lgRead
    <3>1. /\ LgAt(c)'
          /\ lgToCm' \in [LgConn -> Seq(CmMsg)]
          /\ lgPhase' \in [LgConn -> LgPhases]
          /\ lgHold' \in [LgConn -> BOOLEAN] /\ lgAuthed' \subseteq LgConn
          /\ \A d \in LgConn : d # c =>
                /\ lgPhase'[d] = lgPhase[d] /\ lgToCm'[d] = lgToCm[d]
                /\ d \in lgAuthed' <=> d \in lgAuthed
          /\ \A d \in LgConn : lgHold'[d] => lgHold[d] \/ lgSess.on
      BY <2>1, <2>2, <2>3, LogonAt
    <3>2. LgTypeOK'
      BY <1>11, <2>1, <2>3, <3>1 DEF LgRequest, LgTypeOK
    <3>3. SessionCodeGiven' /\ FailuresBounded' /\ HeldIsOn'
      BY <1>11, <2>3, <3>1 DEF LgRequest, SessionCodeGiven, FailuresBounded, HeldIsOn
    <3>4. \A d \in LgConn : LgAt(d)'
      BY <2>1, <3>1, OthersAt
    <3> QED
      BY <3>2, <3>3, <3>4
  <2>4. CASE CheckFailure(c, 0, pw, "check") /\ UNCHANGED <<lgToCm, lgAuthed, lgHold>>
    <3>1. /\ lgRead' \in [LgConn -> [fail : Nat, pw : Nat]]
          /\ \A d \in LgConn : lgRead'[d].fail <= LgFailLimit
          /\ lgPhase' \in [LgConn -> LgPhases] /\ lgPhase'[c] \in {lgPhase[c], "check"}
          /\ \A d \in LgConn : d # c => lgPhase'[d] = lgPhase[d]
      BY <2>1, <2>2, <2>4, CheckKeeps
    <3>2. LgTypeOK'
      BY <1>11, <2>1, <2>4, <3>1 DEF LgRequest, LgTypeOK
    <3>3. SessionCodeGiven' /\ FailuresBounded' /\ HeldIsOn'
      BY <1>11, <2>4, <3>1 DEF LgRequest, SessionCodeGiven, FailuresBounded, HeldIsOn
    <3>4. LgAt(c)'
      BY <2>1, <2>4, <3>1 DEF LgAt, ConnAt
    <3>5. \A d \in LgConn : LgAt(d)'
      BY <2>1, <2>4, <3>1, <3>4, OthersAt
    <3> QED
      BY <3>2, <3>3, <3>5
  <2> QED
    BY <1>11, <2>3, <2>4 DEF LgRequest
<1>12. ASSUME NEW c \in LgConn, NEW msg \in {"Authorize", "Close"}, LgCmClick(c, msg)
       PROVE  LgInv'
  <2>1. /\ lgToConn[c] \in Seq(ConnMsg) /\ msg \in ConnMsg /\ lgIpc[c] = "up"
        /\ lgToConn' = [lgToConn EXCEPT ![c] = Append(@, msg)]
        /\ \A d \in LgConn : d # c => lgToConn'[d] = lgToConn[d]
    BY <1>0, <1>12 DEF LgCmClick, ConnMsg
  <2>2. Append(lgToConn[c], msg) \in Seq(ConnMsg)
    BY <2>1
  <2>3. lgToConn' \in [LgConn -> Seq(ConnMsg)] /\ lgToConn'[c] = Append(lgToConn[c], msg)
    BY <1>0, <2>1, <2>2
  <2>4. UnderWay(lgToConn'[c], {"Authorize", "Close"})
    BY <2>1, <2>3, UnderWayAppend
  <2>5. /\ lgCm' \in [LgConn -> {"none", "waiting", "authed", "left"}]
        /\ \A d \in LgConn : d # c => lgCm'[d] = lgCm[d]
    BY <1>0, <1>12 DEF LgCmClick
  <2>6. LgTypeOK'
    BY <1>12, <2>3, <2>5 DEF LgCmClick, LgTypeOK
  <2>7. SessionCodeGiven' /\ FailuresBounded' /\ HeldIsOn'
    BY <1>12 DEF LgCmClick, SessionCodeGiven, FailuresBounded, HeldIsOn
  <2>8. LgAt(c)'
    BY <1>12, <2>1, <2>4 DEF LgCmClick, LgAt, ConnAt
  <2>9. \A d \in LgConn : LgAt(d)'
    BY <1>12, <2>1, <2>5, <2>8, OthersAt DEF LgCmClick
  <2> QED
    BY <2>6, <2>7, <2>9
<1>13. CASE LgExpire
  <2>1. DropSession(NoSession)
    BY <1>13 DEF LgExpire
  <2>2. /\ lgSess' \in [on : BOOLEAN, pw : Nat, tfa : BOOLEAN]
        /\ lgHold' \in [LgConn -> BOOLEAN] /\ lgCode' \in BOOLEAN
        /\ SessionCodeGiven' /\ HeldIsOn'
    BY <2>1, DropKeeps
  <2>3. LgTypeOK' /\ FailuresBounded'
    BY <1>13, <2>2 DEF LgExpire, lgPipe, LgTypeOK, FailuresBounded
  <2>4. \A d \in LgConn : LgAt(d)'
    BY <1>13, OthersAt DEF LgExpire, lgPipe
  <2> QED
    BY <2>2, <2>3, <2>4
<1>14. CASE LgCmDies
  <2>1. \A c \in LgConn : Append(lgToConn[c], "CmErr") \in Seq(ConnMsg)
    BY <1>0 DEF ConnMsg
  <2>2. /\ lgToConn' \in [LgConn -> Seq(ConnMsg)]
        /\ \A c \in LgConn : lgToConn'[c] = IF lgIpc[c] = "up" THEN Append(lgToConn[c], "CmErr")
                                            ELSE lgToConn[c]
    BY <1>0, <1>14, <2>1 DEF LgCmDies
  <2>3. /\ lgToCm' \in [LgConn -> Seq(CmMsg)]
        /\ \A c \in LgConn : lgToCm'[c] = IF lgIpc[c] = "up" THEN <<>> ELSE lgToCm[c]
    BY <1>0, <1>14 DEF LgCmDies
  <2>4. /\ lgIpc' \in [LgConn -> {"none", "up", "down"}]
        /\ \A c \in LgConn : lgIpc'[c] = IF lgIpc[c] = "up" THEN "down" ELSE lgIpc[c]
    BY <1>0, <1>14 DEF LgCmDies
  <2>5. /\ lgCm' \in [LgConn -> {"none", "waiting", "authed", "left"}]
        /\ \A c \in LgConn : lgCm'[c] = "none"
    BY <1>14 DEF LgCmDies
  <2>6. LgTypeOK'
    BY <1>14, <2>2, <2>3, <2>4, <2>5 DEF LgCmDies, LgTypeOK
  <2>7. SessionCodeGiven' /\ FailuresBounded' /\ HeldIsOn'
    BY <1>14 DEF LgCmDies, SessionCodeGiven, FailuresBounded, HeldIsOn
  <2>8. ASSUME NEW d \in LgConn PROVE LgAt(d)'
    <3>1. lgPhase' = lgPhase /\ lgAuthed' = lgAuthed
      BY <1>14 DEF LgCmDies
    <3>2. CASE lgIpc[d] = "up"
      <4>1. UnderWay(lgToConn'[d], {"CmErr", "Close"})
        <5>1. lgToConn[d] \in Seq(ConnMsg) /\ "CmErr" \in ConnMsg
          BY <1>0 DEF ConnMsg
        <5>2. UnderWay(Append(lgToConn[d], "CmErr"), {"CmErr", "Close"})
          BY <5>1, UnderWayAppend
        <5> QED
          BY <2>2, <3>2, <5>2
      <4>2. \A M : ~UnderWay(lgToCm'[d], M)
        BY <2>3, <3>2 DEF UnderWay
      <4> QED
        BY <2>4, <2>5, <3>1, <3>2, <4>1, <4>2 DEF LgAt, ConnAt
    <3>3. CASE lgIpc[d] # "up"
      BY <2>2, <2>3, <2>4, <2>5, <3>1, <3>3 DEF LgAt, ConnAt
    <3> QED
      BY <3>2, <3>3
  <2> QED
    BY <2>6, <2>7, <2>8
<1>15. CASE UNCHANGED lgVars
  BY <1>15 DEF lgVars, LgTypeOK, SessionCodeGiven, FailuresBounded, HeldIsOn, LgAt
<1> QED
  BY <1>1, <1>2, <1>3, <1>4, <1>5, <1>6, <1>7, <1>8, <1>9, <1>10, <1>11, <1>12, <1>13,
     <1>14, <1>15 DEF LgNext

(* What holds of each connection is what the window and the pipe promise.  *)
LEMMA LgInvSafe == LgInv => LgSafe
<1> SUFFICES ASSUME LgInv PROVE LgSafe
  OBVIOUS
<1>1. CmHonest
  BY DEF LgInv, LgAt, ConnAt, CmHonest, Alive
<1>2. CmFollows
  <2>1. \A M : ~UnderWay(<<>>, M)
    BY DEF UnderWay
  <2> QED
    BY <2>1 DEF LgInv, LgAt, ConnAt, CmFollows, Alive
<1> QED
  BY <1>1, <1>2 DEF LgInv, LgSafe

(* The connection manager never shows a connection as accepted that is     *)
(* not, neither of the two processes loses track of the other, a session   *)
(* lets nobody in without the code that was asked for, and the failures    *)
(* on record stay within the limit (connection.rs, ui_cm_interface.rs):    *)
(* for every set of connections, all limits, and every interleaving of     *)
(* the tasks.                                                              *)
THEOREM LoginSafe == LgSpec => []LgSafe
<1>1. LgSpec => []LgInv
  BY LgInitInv, LgStep, PTL DEF LgSpec
<1> QED
  BY <1>1, LgInvSafe, PTL

(* The session that an authorized remote connection refreshes is removed   *)
(* only by a remote connection that closes for good: neither by the        *)
(* timeout nor by a file transfer of the same peer (check_remove_session   *)
(* in connection.rs).                                                      *)
THEOREM SessionStays == LgSpec => SessionKept
<1>1. LgSpec => []LgInv
  BY LgInitInv, LgStep, PTL DEF LgSpec
<1>2. ASSUME LgInv, [LgNext]_lgVars
      PROVE  [\A c \in LgConn :
                 lgPhase[c] = "authed" /\ lgKind[c] = "remote" /\ lgHold[c] /\ ~lgSess'.on =>
                    \E d \in lgAuthed : lgKind[d] = "remote" /\ lgPhase[d] # "closing"
                                                             /\ lgPhase'[d] = "closing"]_lgVars
  <2> SUFFICES ASSUME LgNext, NEW c \in LgConn, lgPhase[c] = "authed", lgKind[c] = "remote",
                      lgHold[c], ~lgSess'.on
               PROVE  \E d \in lgAuthed : lgKind[d] = "remote" /\ lgPhase[d] # "closing"
                                                              /\ lgPhase'[d] = "closing"
    BY <1>2
  <2>1. lgSess.on /\ c \in lgAuthed /\ lgSess \in [on : BOOLEAN, pw : Nat, tfa : BOOLEAN]
        /\ lgPhase \in [LgConn -> LgPhases]
    BY <1>2 DEF LgInv, HeldIsOn, LgAt, ConnAt, LgTypeOK
  <2>2. ASSUME NEW d \in LgConn, Listening(d), lgPhase' = [lgPhase EXCEPT ![d] = "closing"],
               lgSess' = SessionAfter(d)
        PROVE  d \in lgAuthed /\ lgKind[d] = "remote" /\ lgPhase[d] # "closing"
               /\ lgPhase'[d] = "closing"
    <3>1. \/ d \in lgAuthed /\ lgKind[d] = "remote"
          \/ ~\E e \in lgAuthed \ {d} : lgKind[e] = "remote"
      BY <2>1, <2>2 DEF SessionAfter
    <3>2. d \in lgAuthed /\ lgKind[d] = "remote"
      BY <2>1, <3>1
    <3> QED
      BY <2>1, <2>2, <3>2 DEF Listening
  <2>3. ASSUME NEW d \in LgConn, LgPeerClose(d)
        PROVE  \E e \in lgAuthed : lgKind[e] = "remote" /\ lgPhase[e] # "closing"
                                                       /\ lgPhase'[e] = "closing"
    BY <2>2, <2>3 DEF LgPeerClose, Leaves, DropSession
  <2>4. ASSUME NEW d \in LgConn, LgConnRecv(d)
        PROVE  \E e \in lgAuthed : lgKind[e] = "remote" /\ lgPhase[e] # "closing"
                                                       /\ lgPhase'[e] = "closing"
    <3>1. Listening(d) /\ Leaves(d, "Close") /\ DropSession(SessionAfter(d))
      BY <2>1, <2>4 DEF LgConnRecv
    <3> QED
      BY <2>2, <3>1 DEF Leaves, DropSession
  <2>5. ~LgExpire
    BY <1>2 DEF LgExpire
  <2>6. ASSUME NEW d \in LgConn, LgValidate(d) PROVE FALSE
    <3>1. lgSess' = lgSess \/ lgSess' = SessionWith(lgRead[d].pw)
      BY <2>6 DEF LgValidate
    <3> QED
      BY <2>1, <3>1 DEF SessionWith
  <2>7. ASSUME NEW d \in LgConn, LgAuth2fa(d) PROVE FALSE
    <3>1. lgSess' = lgSess \/ lgSess' = [lgSess EXCEPT !.on = TRUE, !.tfa = TRUE]
      BY <2>7 DEF LgAuth2fa
    <3> QED
      BY <2>1, <3>1
  <2>8. ASSUME NEW d \in LgConn,
               \/ LgConnect(d) \/ LgAskUser(d) \/ LgCode2fa(d) \/ LgLost(d) \/ LgEnd(d)
               \/ LgCmRecv(d)
               \/ \E pw \in Passwords : LgRequest(d, pw)
               \/ \E msg \in {"Authorize", "Close"} : LgCmClick(d, msg)
        PROVE  lgSess' = lgSess
    BY <2>8 DEF LgConnect, LgAskUser, LgCode2fa, LgLost, LgEnd, LgCmRecv, LgRequest,
       LgCmClick
  <2>9. LgCmDies => lgSess' = lgSess
    BY DEF LgCmDies
  <2> QED
    BY <2>1, <2>3, <2>4, <2>5, <2>6, <2>7, <2>8, <2>9 DEF LgNext
<1> QED
  BY <1>1, <1>2, PTL DEF LgSpec, SessionKept

-----------------------------------------------------------------------------
(* RdTransfer: a download and what it leaves on disk.                      *)

(* The first k blocks of a file.                                           *)
Front(k) == [i \in 1 .. k |-> i]

(* name.download and name.digest come and go together, and what is in      *)
(* name.download is the front of the source, unless the file is an exception.*)
PartsSound ==
    \A f \in File :
        /\ tfPart[f] # NoFile <=> f \in tfDigest
        /\ tfPart[f] # NoFile => Len(tfPart[f]) <= TfBlocks
        /\ f \notin tfOdd => tfPart[f] = NoFile \/ \E b \in 1 .. TfBlocks : tfPart[f] = Front(b)

(* Jobs are numbered; nothing on the way is of a job that was not started. *)
IdsKnown ==
    /\ tfJob.id = tfStarted /\ tfRead.id <= tfStarted
    /\ \A i \in 1 .. Len(tfToHost) : tfToHost[i].id <= tfStarted
    /\ \A i \in 1 .. Len(tfToClient) : tfToClient[i].id <= tfStarted
    /\ tfJob.st \in {"run", "last"} => tfStarted >= 1

(* The host has only files of the job open.                                *)
ReadSound == tfRead.open => tfRead.num \in File

(* A file the job is through with.                                         *)
Settled(f) ==
    \/ f \in tfOdd \cup tfSkipped \/ tfName[f] = Whole
    \/ tfJob.num = f /\ tfJob.open /\ tfPart[f] = Whole

(* The client has not begun file n: it stands before it, or behind the last*)
(* file that it received, which has yet to get its name.                   *)
Behind(n) ==
    /\ tfJob.num < n /\ tfJob.num \in File /\ tfJob.open
    /\ tfJob.num \in tfOdd \/ tfPart[tfJob.num] = Whole
Ready(n) == (tfJob.num = n /\ ~tfJob.open) \/ Behind(n)

(* The client has come to block b of file n, past every file that was      *)
(* skipped; -1 before the file is confirmed.                               *)
Reached(n, b) ==
    /\ \A f \in File : f < n => Settled(f)
    /\ \A f \in tfSkipped : f < n /\ f # tfJob.num
    /\ b >= 0 => n \in File
    /\ b <= 0 => Ready(n)
    /\ b = 0 /\ tfJob.num = n /\ tfJob.resume /\ n \notin tfOdd => tfPart[n] = NoFile
    /\ b >= 1 => \/ /\ tfJob.num = n /\ tfJob.open /\ tfPart[n] # NoFile
                    /\ Len(tfPart[n]) <= b /\ (n \in tfOdd \/ tfPart[n] = Front(b))
                 \/ n \in tfOdd /\ Behind(n)

OfJob(m) == m.id = tfJob.id

(* m is what a host sends that stands at block b of file n, and where it   *)
(* stands after a block.                                                   *)
Comes(m, n, b) ==
    \/ m.k = "error"
    \/ m.k = "digest" /\ m.num = n /\ b = -1
    \/ m.k = "done" /\ n = TfFiles /\ b = -1
    \/ m.k = "block" /\ m.num = n /\ b >= 0 /\ m.data = IF b = TfBlocks THEN <<>> ELSE <<b + 1>>
NumAfter(m) == IF m.data = <<>> THEN m.num + 1 ELSE m.num
BlockAfter(m) == IF m.data = <<>> THEN -1 ELSE m.data[1]

Pending == Len(tfToClient) > 0 /\ OfJob(tfToClient[Len(tfToClient)])
LastMsg == tfToClient[Len(tfToClient)]

(* The messages of the job to the client follow on each other, from where  *)
(* the client is.                                                          *)
Chained(q, n, b) ==
    /\ \A i, j \in 1 .. Len(q) : i <= j /\ OfJob(q[i]) => OfJob(q[j])
    /\ \A i \in 1 .. Len(q) : OfJob(q[i]) /\ (i = 1 \/ ~OfJob(q[i - 1])) => Comes(q[i], n, b)
    /\ \A i \in 1 .. Len(q) - 1 :
          OfJob(q[i]) => \/ q[i].k = "error"
                         \/ /\ q[i].k = "block"
                            /\ Comes(q[i + 1], NumAfter(q[i]), BlockAfter(q[i]))

Serves(open, confirmed) ==
    /\ tfRead.on /\ tfRead.id = tfJob.id /\ tfRead.open = open /\ tfRead.confirmed = confirmed
HostBlock == IF tfRead.open THEN tfRead.pos ELSE -1

(* The host's end of the conversation: it has ended the job; or sends, and *)
(* stands where its last message leads; or waits for the confirmation of the*)
(* file whose digest, question or answer is under way.                     *)
HostOver ==
    /\ ~tfRead.on /\ tfToHost = <<>> /\ tfAsked = Nobody
    /\ Pending /\ LastMsg.k \in {"done", "error"}
HostSends(n, b) ==
    /\ Serves(FALSE, FALSE) \/ Serves(TRUE, TRUE)
    /\ tfToHost = <<>> /\ tfAsked = Nobody
    /\ Pending => /\ LastMsg.k = "block"
                  /\ tfRead.num = NumAfter(LastMsg) /\ HostBlock = BlockAfter(LastMsg)
    /\ ~Pending => n = tfRead.num /\ b = HostBlock
HostWaits == Serves(TRUE, FALSE) /\ tfRead.pos = 0 /\ tfRead.num \in File
HostAsks ==
    /\ HostWaits /\ tfToHost = <<>> /\ tfAsked = Nobody
    /\ Pending /\ LastMsg.k = "digest" /\ LastMsg.num = tfRead.num
UserAsked(n, b) ==
    /\ HostWaits /\ tfToHost = <<>> /\ tfAsked = tfRead.num /\ ~Pending
    /\ n = tfRead.num /\ b = -1 /\ ~Resumable(n)
HostAnswered(n, b) ==
    /\ HostWaits /\ Len(tfToHost) = 1 /\ tfAsked = Nobody /\ ~Pending
    /\ LET m == tfToHost[1] IN
       /\ m.k = "confirm" /\ m.id = tfJob.id /\ m.num = tfRead.num
       /\ IF m.skip THEN n = m.num + 1 /\ b = -1 ELSE n = m.num /\ b = m.off
HostEnd(n, b) ==
    HostOver \/ HostSends(n, b) \/ HostAsks \/ UserAsked(n, b) \/ HostAnswered(n, b)

(* Nothing of the job is on the way but, for a job that runs, its request. *)
NothingUnderWay(len) ==
    /\ \A i \in 1 .. len : tfToHost[i].id # tfJob.id
    /\ \A i \in 1 .. Len(tfToClient) : ~OfJob(tfToClient[i])
    /\ tfRead.id # tfJob.id /\ tfAsked = Nobody /\ ~tfJob.open /\ Reached(tfJob.num, -1)
Requested ==
    /\ Len(tfToHost) > 0
    /\ tfToHost[Len(tfToHost)] = [k |-> "send", id |-> tfJob.id, num |-> tfJob.num]
    /\ NothingUnderWay(Len(tfToHost) - 1)
Talking ==
    \E n \in 0 .. TfFiles, b \in -1 .. TfBlocks :
        Reached(n, b) /\ Chained(tfToClient, n, b) /\ HostEnd(n, b)

Conversation ==
    /\ tfJob.st = "run" => Requested \/ Talking
    /\ tfJob.st = "last" => NothingUnderWay(Len(tfToHost))
    /\ tfJob.st \in {"idle", "done"} => tfAsked = Nobody

TfInv == TfSafe /\ PartsSound /\ IdsKnown /\ ReadSound /\ Conversation
-----------------------------------------------------------------------------
(* The fields of a message, by its kind.                                   *)
LEMMA HostMsgFields ==
  ASSUME NEW m \in HostMsg
  PROVE  /\ m.id \in Nat /\ m.k \in {"send", "cancel", "confirm"}
         /\ m.k = "confirm" => m.num \in File /\ m.skip \in BOOLEAN /\ m.off \in 0 .. TfBlocks
         /\ m.k # "confirm" => m.num \in 0 .. TfFiles
  BY DEF HostMsg

(* The fields of a message to the client.                                  *)
LEMMA ClientMsgFields ==
  ASSUME NEW m \in ClientMsg
  PROVE  /\ m.id \in Nat /\ m.k \in {"digest", "block", "done", "error"}
         /\ m.k \in {"digest", "block"} => m.num \in File
         /\ m.num \in 0 .. TfFiles
         /\ m.data = <<>> \/ \E b \in 1 .. TfBlocks : m.data = <<b>>
<1>1. File \subseteq 0 .. TfFiles
  BY TfBounds DEF File
<1>2. CASE m \in [k : {"digest"}, id : Nat, num : File, data : {<<>>}]
  BY <1>1, <1>2
<1>3. CASE m \in [k : {"block"}, id : Nat, num : File,
                  data : {<<>>} \cup {<<b>> : b \in 1 .. TfBlocks}]
  BY <1>1, <1>3
<1>4. CASE m \in [k : {"done", "error"}, id : Nat, num : 0 .. TfFiles, data : {<<>>}]
  BY <1>1, <1>4
<1> QED
  BY <1>2, <1>3, <1>4 DEF ClientMsg

(* A message taken from the front of a queue.                              *)
LEMMA TakeFirst ==
  ASSUME NEW T, NEW q \in Seq(T), q # <<>>
  PROVE  /\ Head(q) = q[1] /\ q[1] \in T /\ Len(q) \in Nat /\ Len(q) >= 1
         /\ Tail(q) \in Seq(T) /\ Len(Tail(q)) = Len(q) - 1
         /\ \A i \in 1 .. Len(q) - 1 : Tail(q)[i] = q[i + 1]
  OBVIOUS

(* A message put at the end of a queue.                                    *)
LEMMA PutLast ==
  ASSUME NEW T, NEW q \in Seq(T), NEW x \in T
  PROVE  /\ Append(q, x) \in Seq(T) /\ Len(q) \in Nat /\ Len(Append(q, x)) = Len(q) + 1
         /\ \A i \in 1 .. Len(q) : Append(q, x)[i] = q[i]
         /\ Append(q, x)[Len(q) + 1] = x
  OBVIOUS

(* Fronts of a file.                                                       *)
LEMMA FrontFacts ==
  /\ Whole = Front(TfBlocks) /\ Whole \in Content
  /\ \A b \in 1 .. TfBlocks : /\ Front(b) \in Content /\ Len(Front(b)) = b
                              /\ Front(b) # NoFile /\ Front(b) # <<>>
  /\ Front(1) = <<1>>
  /\ \A b \in 1 .. TfBlocks - 1 : Front(b) \o <<b + 1>> = Front(b + 1)
  /\ \A c \in Content : c # NoFile /\ c # Old
<1> USE TfBounds
<1>1. Whole = Front(TfBlocks)
  BY DEF Whole, Front
<1>2. ASSUME NEW b \in 1 .. TfBlocks
      PROVE  Front(b) \in Content /\ Len(Front(b)) = b /\ Front(b) # <<>> /\ Front(b)[1] = 1
  BY DEF Front, Content
<1>3. Front(1) = <<1>>
  BY DEF Front
<1>4. ASSUME NEW b \in 1 .. TfBlocks - 1 PROVE Front(b) \o <<b + 1>> = Front(b + 1)
  BY DEF Front
<1>5. ASSUME NEW c \in Content PROVE c # NoFile /\ c # Old
  BY DEF Content, NoFile, Old
<1> QED
  BY <1>1, <1>2, <1>3, <1>4, <1>5

(* A step that leaves the client and its disk alone.                       *)
LEMMA ClientSame ==
  ASSUME TfInv, UNCHANGED <<tfName, tfPart, tfDigest, tfJob, tfSkipped, tfOdd>>
  PROVE  /\ PartsSound' /\ NamesWhole' /\ DoneDelivers'
         /\ \A n, b : Reached(n, b) => Reached(n, b)'
         /\ Reached(tfJob.num, -1) => Reached(tfJob.num, -1)'
         /\ \A n : Resumable(n) <=> Resumable(n)'
         /\ \A m : OfJob(m) <=> OfJob(m)'
<1>1. PartsSound' /\ NamesWhole' /\ DoneDelivers'
  BY DEF TfInv, TfSafe, PartsSound, NamesWhole, DoneDelivers
<1>2. \A n, b : Reached(n, b) => Reached(n, b)'
  BY DEF Reached, Settled, Ready, Behind
<1>3. Reached(tfJob.num, -1) => Reached(tfJob.num, -1)'
  BY DEF Reached, Settled, Ready, Behind
<1> QED
  BY <1>1, <1>2, <1>3 DEF Resumable, HasPart, OfJob

(* No job was started, and the destination has no name.download.           *)
LEMMA TfInitInv == TfInit => TfInv
<1> SUFFICES ASSUME TfInit PROVE TfInv
  OBVIOUS
<1> USE TfBounds
<1>1. TfTypeOK
  <2>1. tfName \in [File -> {NoFile, Old} \cup Content]
    BY DEF TfInit
  <2>2. tfPart \in [File -> {NoFile} \cup Content] /\ tfDigest \subseteq File
    BY DEF TfInit
  <2>3. tfJob \in WriteJob /\ tfRead \in ReadJob /\ ~tfRead.waiting
    BY DEF TfInit, WriteJob, ReadJob, NoReadJob
  <2>4. tfBad \subseteq File
    BY DEF TfInit, File
  <2> QED
    BY <2>1, <2>2, <2>3, <2>4 DEF TfInit, TfTypeOK
<1>2. /\ tfJob.st = "idle" /\ tfJob.id = 0 /\ tfRead.id = 0 /\ tfStarted = 0
      /\ Len(tfToHost) = 0 /\ Len(tfToClient) = 0 /\ tfAsked = Nobody
  BY DEF TfInit, NoReadJob
<1>3. NamesWhole /\ DoneDelivers
  BY <1>2 DEF TfInit, NamesWhole, DoneDelivers
<1>4. PartsSound
  BY DEF TfInit, PartsSound
<1>5. IdsKnown /\ Conversation
  BY <1>2 DEF IdsKnown, Conversation
<1>6. ReadSound
  BY DEF TfInit, ReadSound, NoReadJob
<1> QED
  BY <1>1, <1>3, <1>4, <1>5, <1>6 DEF TfInv, TfSafe

(* Send, SendConfirm and Cancel at the host.                               *)
LEMMA HostRecvStep == ASSUME TfInv, TfHostRecv PROVE TfInv'
<1> USE TfBounds
<1> DEFINE m == Head(tfToHost)
<1>1. /\ tfToHost \in Seq(HostMsg) /\ tfToClient \in Seq(ClientMsg)
      /\ tfJob \in WriteJob /\ tfRead \in ReadJob /\ tfStarted \in Nat
  BY DEF TfInv, TfSafe, TfTypeOK
<1>2. /\ m = tfToHost[1] /\ m \in HostMsg /\ Len(tfToHost) \in Nat /\ Len(tfToHost) >= 1
      /\ tfToHost' \in Seq(HostMsg) /\ Len(tfToHost') = Len(tfToHost) - 1
      /\ \A i \in 1 .. Len(tfToHost) - 1 : tfToHost'[i] = tfToHost[i + 1]
  BY <1>1, TakeFirst DEF TfHostRecv
<1>3. /\ m.id \in Nat /\ m.id <= tfStarted
      /\ m.k = "confirm" => m.num \in File /\ m.skip \in BOOLEAN /\ m.off \in 0 .. TfBlocks
      /\ m.k # "confirm" => m.num \in 0 .. TfFiles
  BY <1>2, HostMsgFields DEF TfInv, IdsKnown
<1>4. \/ m.k = "send" /\ tfRead' = [NoReadJob EXCEPT !.on = TRUE, !.id = m.id, !.num = m.num]
      \/ m.k = "confirm" /\ tfRead' = ReadConfirm(tfRead, m)
      \/ m.k = "cancel" /\ tfRead' = IF tfRead.id = m.id THEN NoReadJob ELSE tfRead
  BY DEF TfHostRecv
<1>5. UNCHANGED <<tfName, tfPart, tfDigest, tfJob, tfToClient, tfAsked, tfBad, tfStarted,
                  tfBreaks, tfSkipped, tfOdd>>
  BY DEF TfHostRecv, tfDisk, tfHist
<1> HIDE DEF m
<1>6. /\ tfRead' \in ReadJob /\ (tfRead'.waiting => tfRead'.open)
      /\ tfRead'.id \in {0, tfRead.id, m.id}
      /\ tfRead'.id = m.id => tfRead.id = m.id \/ m.k = "send" \/ m.id = 0
      /\ tfRead'.open => tfRead'.num \in File
  <2>1. (tfRead.waiting => tfRead.open) /\ (tfRead.open => tfRead.num \in File)
    BY DEF TfInv, TfSafe, TfTypeOK, ReadSound
  <2>2. NoReadJob \in ReadJob /\ ~NoReadJob.waiting /\ NoReadJob.id = 0 /\ ~NoReadJob.open
    BY DEF NoReadJob, ReadJob
  <2>3. CASE m.k = "send"
    <3>1. tfRead' = [NoReadJob EXCEPT !.on = TRUE, !.id = m.id, !.num = m.num]
      BY <1>4, <2>3
    <3> QED
      BY <1>3, <2>2, <2>3, <3>1 DEF ReadJob
  <2>4. CASE m.k = "confirm"
    <3>1. tfRead' = ReadConfirm(tfRead, m)
      BY <1>4, <2>4
    <3>2. CASE tfRead' = tfRead
      BY <1>1, <2>1, <3>2
    <3>3. CASE /\ tfRead.id = m.id /\ tfRead.num = m.num
               /\ tfRead' = [tfRead EXCEPT !.num = @ + 1, !.open = FALSE, !.confirmed = FALSE,
                                           !.waiting = FALSE, !.skipped = TRUE]
      <4>1. tfRead.num + 1 \in 0 .. TfFiles
        BY <1>3, <2>4, <3>3 DEF File
      <4> QED
        BY <1>1, <3>3, <4>1 DEF ReadJob
    <3>4. CASE tfRead' = [tfRead EXCEPT !.confirmed = TRUE, !.skipped = FALSE,
                                        !.pos = IF m.off > 0 THEN m.off ELSE @]
      <4>1. (IF m.off > 0 THEN m.off ELSE tfRead.pos) \in 0 .. TfBlocks
        BY <1>1, <1>3, <2>4 DEF ReadJob
      <4>2. tfRead' \in ReadJob
        BY <1>1, <3>4, <4>1 DEF ReadJob
      <4> QED
        BY <1>1, <2>1, <3>4, <4>2 DEF ReadJob
    <3> QED
      BY <3>1, <3>2, <3>3, <3>4 DEF ReadConfirm
  <2>5. CASE m.k = "cancel"
    BY <1>1, <1>4, <2>1, <2>2, <2>5
  <2> QED
    BY <1>4, <2>3, <2>4, <2>5
<1>7. TfTypeOK'
  BY <1>2, <1>5, <1>6 DEF TfInv, TfSafe, TfTypeOK
<1>8. /\ PartsSound' /\ NamesWhole' /\ DoneDelivers'
      /\ \A n, b : Reached(n, b) => Reached(n, b)'
      /\ Reached(tfJob.num, -1) => Reached(tfJob.num, -1)'
      /\ \A x : OfJob(x) <=> OfJob(x)'
  BY <1>5, ClientSame
<1>9. IdsKnown'
  <2>1. tfRead'.id <= tfStarted'
    BY <1>1, <1>3, <1>5, <1>6 DEF TfInv, IdsKnown
  <2>2. \A i \in 1 .. Len(tfToHost') : tfToHost'[i].id <= tfStarted'
    BY <1>2, <1>5 DEF TfInv, IdsKnown
  <2> QED
    BY <1>5, <2>1, <2>2 DEF TfInv, IdsKnown
<1>10. Conversation'
  <2>1. CASE tfJob.st = "run" /\ Requested
    <3>1. tfStarted >= 1 /\ tfJob.id = tfStarted
      BY <2>1 DEF TfInv, IdsKnown
    <3>2. /\ \A i \in 1 .. Len(tfToHost) - 1 : tfToHost[i].id # tfJob.id
          /\ \A i \in 1 .. Len(tfToClient) : ~OfJob(tfToClient[i])
          /\ tfRead.id # tfJob.id /\ tfAsked = Nobody /\ ~tfJob.open
          /\ Reached(tfJob.num, -1)
          /\ tfToHost[Len(tfToHost)] = [k |-> "send", id |-> tfJob.id, num |-> tfJob.num]
      BY <2>1 DEF Requested, NothingUnderWay
    <3>3. CASE Len(tfToHost) = 1
      <4>1. m.k = "send" /\ m.id = tfJob.id /\ m.num = tfJob.num
        BY <1>2, <3>2, <3>3
      <4>2. tfRead' = [NoReadJob EXCEPT !.on = TRUE, !.id = m.id, !.num = m.num]
        BY <1>4, <4>1
      <4>3. /\ tfRead'.on /\ tfRead'.id = tfJob.id /\ tfRead'.num = tfJob.num
            /\ tfRead'.open = FALSE /\ tfRead'.confirmed = FALSE
        BY <4>1, <4>2 DEF NoReadJob
      <4>4. tfToHost' = <<>>
        BY <1>2, <3>3
      <4>5. ~Pending'
        BY <1>1, <1>5, <3>2 DEF Pending, OfJob
      <4>6. PICK j \in 0 .. TfFiles : j = tfJob.num
        BY <1>1 DEF WriteJob
      <4>7. HostSends(j, -1)'
        BY <1>5, <3>2, <4>3, <4>4, <4>5, <4>6 DEF HostSends, Serves, HostBlock
      <4>8. Chained(tfToClient, j, -1)'
        BY <1>5, <3>2 DEF Chained, OfJob
      <4>9. Reached(j, -1)'
        BY <1>8, <3>2, <4>6
      <4>10. Talking'
        BY <4>7, <4>8, <4>9, <4>6 DEF Talking, HostEnd
      <4> QED
        BY <1>5, <2>1, <4>10 DEF Conversation
    <3>4. CASE Len(tfToHost) > 1
      <4>1. m.id # tfJob.id
        BY <1>2, <3>2, <3>4
      <4>2. tfRead'.id # tfJob.id
        BY <1>6, <3>1, <3>2, <4>1
      <4>3. Len(tfToHost') > 0 /\ tfToHost'[Len(tfToHost')] = tfToHost[Len(tfToHost)]
        BY <1>2, <3>4
      <4>4. \A i \in 1 .. Len(tfToHost') - 1 : tfToHost'[i].id # tfJob.id
        BY <1>2, <3>2, <3>4
      <4>5. Reached(tfJob.num, -1)'
        BY <1>8, <3>2
      <4>6. Requested'
        BY <1>5, <3>2, <4>2, <4>3, <4>4, <4>5 DEF Requested, NothingUnderWay, OfJob
      <4> QED
        BY <1>5, <2>1, <4>6 DEF Conversation
    <3> QED
      BY <1>2, <3>3, <3>4
  <2>2. CASE tfJob.st = "run" /\ Talking
    <3>1. PICK n \in 0 .. TfFiles, b \in -1 .. TfBlocks :
            Reached(n, b) /\ Chained(tfToClient, n, b) /\ HostEnd(n, b)
      BY <2>2 DEF Talking
    <3>2. HostAnswered(n, b)
      <4>1. tfToHost # <<>>
        BY <1>2
      <4> QED
        BY <3>1, <4>1 DEF HostEnd, HostOver, HostSends, HostAsks, UserAsked
    <3>3. /\ tfRead.on /\ tfRead.id = tfJob.id /\ tfRead.open = TRUE /\ tfRead.pos = 0
          /\ tfRead.num \in File /\ Len(tfToHost) = 1 /\ tfAsked = Nobody /\ ~Pending
          /\ m.k = "confirm" /\ m.id = tfJob.id /\ m.num = tfRead.num
          /\ IF m.skip THEN n = m.num + 1 /\ b = -1 ELSE n = m.num /\ b = m.off
      BY <1>2, <3>2 DEF HostAnswered, HostWaits, Serves
    <3>4. tfRead' = ReadConfirm(tfRead, m)
      BY <1>4, <3>3
    <3>5. /\ tfRead'.on /\ tfRead'.id = tfJob.id /\ tfRead'.num = n
          /\ (m.skip /\ tfRead'.open = FALSE /\ tfRead'.confirmed = FALSE)
             \/ (~m.skip /\ tfRead'.open = TRUE /\ tfRead'.confirmed = TRUE /\ tfRead'.pos = b)
      <4>1. CASE m.skip
        <5>1. tfRead' = [tfRead EXCEPT !.num = @ + 1, !.open = FALSE, !.confirmed = FALSE,
                                       !.waiting = FALSE, !.skipped = TRUE]
          BY <3>3, <3>4, <4>1 DEF ReadConfirm
        <5> QED
          BY <1>1, <3>3, <4>1, <5>1 DEF ReadJob
      <4>2. CASE ~m.skip
        <5>1. tfRead' = [tfRead EXCEPT !.confirmed = TRUE, !.skipped = FALSE,
                                       !.pos = IF m.off > 0 THEN m.off ELSE @]
          BY <3>3, <3>4, <4>2 DEF ReadConfirm
        <5>2. (IF m.off > 0 THEN m.off ELSE tfRead.pos) = b
          BY <1>3, <3>3, <4>2
        <5> QED
          BY <1>1, <3>3, <4>2, <5>1, <5>2 DEF ReadJob
      <4> QED
        BY <4>1, <4>2
    <3>6. tfToHost' = <<>> /\ ~Pending'
      BY <1>2, <1>5, <3>3 DEF Pending, OfJob
    <3>8. HostSends(n, b)'
      BY <1>5, <3>3, <3>5, <3>6 DEF HostSends, Serves, HostBlock
    <3>9. Reached(n, b)' /\ Chained(tfToClient, n, b)'
      BY <1>5, <1>8, <3>1 DEF Chained, OfJob
    <3>10. Talking'
      BY <3>8, <3>9 DEF Talking, HostEnd
    <3> QED
      BY <1>5, <2>2, <3>10 DEF Conversation
  <2>3. CASE tfJob.st = "last"
    <3>1. /\ NothingUnderWay(Len(tfToHost)) /\ tfStarted >= 1 /\ tfJob.id = tfStarted
      BY <2>3 DEF TfInv, IdsKnown, Conversation
    <3>2. tfRead'.id # tfJob.id
      BY <1>2, <1>6, <3>1 DEF NothingUnderWay
    <3>3. \A i \in 1 .. Len(tfToHost') : tfToHost'[i].id # tfJob.id
      BY <1>2, <3>1 DEF NothingUnderWay
    <3>4. Reached(tfJob.num, -1)'
      BY <1>8, <3>1 DEF NothingUnderWay
    <3>5. NothingUnderWay(Len(tfToHost))'
      BY <1>5, <3>1, <3>2, <3>3, <3>4 DEF NothingUnderWay, OfJob
    <3> QED
      BY <1>5, <2>3, <3>5 DEF Conversation
  <2>4. CASE tfJob.st \in {"idle", "done"}
    BY <1>5, <2>4 DEF TfInv, Conversation
  <2> QED
    BY <1>1, <2>1, <2>2, <2>3, <2>4 DEF TfInv, Conversation, WriteJob
<1> QED
  BY <1>6, <1>7, <1>8, <1>9, <1>10 DEF TfInv, TfSafe, ReadSound

(* One more message of the job: it is what comes after the last one, or,   *)
(* when there was none, what comes where the client is.                    *)
LEMMA ChainAppend ==
  ASSUME NEW q \in Seq(ClientMsg), NEW n, NEW b, Chained(q, n, b),
         NEW m \in ClientMsg, OfJob(m),
         ~(Len(q) > 0 /\ OfJob(q[Len(q)])) => Comes(m, n, b),
         Len(q) > 0 /\ OfJob(q[Len(q)]) =>
            \/ q[Len(q)].k = "error"
            \/ q[Len(q)].k = "block" /\ Comes(m, NumAfter(q[Len(q)]), BlockAfter(q[Len(q)]))
  PROVE  Chained(Append(q, m), n, b)
<1> DEFINE r == Append(q, m)
<1>1. /\ Len(q) \in Nat /\ Len(r) = Len(q) + 1 /\ r[Len(q) + 1] = m
      /\ \A i \in 1 .. Len(q) : r[i] = q[i]
  BY PutLast
<1> HIDE DEF r
<1>2. \A i, j \in 1 .. Len(r) : i <= j /\ OfJob(r[i]) => OfJob(r[j])
  BY <1>1 DEF Chained
<1>3. ASSUME NEW i \in 1 .. Len(r), OfJob(r[i]), i = 1 \/ ~OfJob(r[i - 1])
      PROVE  Comes(r[i], n, b)
  <2>1. CASE i \in 1 .. Len(q)
    <3>1. r[i] = q[i] /\ (i # 1 => r[i - 1] = q[i - 1])
      BY <1>1, <2>1
    <3> QED
      BY <1>3, <2>1, <3>1 DEF Chained
  <2>2. CASE i = Len(q) + 1
    <3>1. r[i] = m /\ (Len(q) > 0 => r[i - 1] = q[Len(q)])
      BY <1>1, <2>2
    <3> QED
      BY <1>1, <1>3, <2>2, <3>1
  <2> QED
    BY <1>1, <1>3, <2>1, <2>2
<1>4. ASSUME NEW i \in 1 .. Len(r) - 1, OfJob(r[i])
      PROVE  \/ r[i].k = "error"
             \/ r[i].k = "block" /\ Comes(r[i + 1], NumAfter(r[i]), BlockAfter(r[i]))
  <2>1. CASE i \in 1 .. Len(q) - 1
    <3>1. r[i] = q[i] /\ r[i + 1] = q[i + 1]
      BY <1>1, <2>1
    <3> QED
      BY <1>4, <2>1, <3>1 DEF Chained
  <2>2. CASE i = Len(q)
    <3>1. r[i] = q[Len(q)] /\ r[i + 1] = m /\ Len(q) > 0
      BY <1>1, <1>4, <2>2
    <3> QED
      BY <1>4, <3>1
  <2> QED
    BY <1>1, <1>4, <2>1, <2>2
<1>5. Chained(r, n, b)
  BY <1>2, <1>3, <1>4 DEF Chained
<1> QED
  BY <1>5 DEF r

(* What a chain is depends on the state only through the number of the job.*)
LEMMA ChainSame ==
  ASSUME NEW n, NEW b, tfJob'.id = tfJob.id, Chained(tfToClient', n, b)
  PROVE  Chained(tfToClient, n, b)'
<1>1. \A x : OfJob(x) <=> x.id = tfJob.id
  BY DEF OfJob
<1>2. PICK q : q = tfToClient'
  OBVIOUS
<1>3. \A i, j \in 1 .. Len(q) : i <= j /\ q[i].id = tfJob'.id => q[j].id = tfJob'.id
  BY <1>1, <1>2 DEF Chained
<1>4. \A i \in 1 .. Len(q) :
        q[i].id = tfJob'.id /\ (i = 1 \/ ~(q[i - 1].id = tfJob'.id)) => Comes(q[i], n, b)
  BY <1>1, <1>2 DEF Chained
<1>5. \A i \in 1 .. Len(q) - 1 :
        q[i].id = tfJob'.id =>
          \/ q[i].k = "error"
          \/ q[i].k = "block" /\ Comes(q[i + 1], NumAfter(q[i]), BlockAfter(q[i]))
  BY <1>1, <1>2 DEF Chained
<1> QED
  BY ONLY <1>2, <1>3, <1>4, <1>5 DEF Chained, OfJob, Comes, NumAfter, BlockAfter

(* What handle_read_jobs does in one turn: the messages it sends, and the  *)
(* job afterwards.                                                         *)
LEMMA HostTickEffect ==
  ASSUME TfTypeOK, ReadSound, TfHostTick
  PROVE  /\ tfRead' \in ReadJob /\ (tfRead'.waiting => tfRead'.open) /\ ReadSound'
         /\ tfRead'.id \in {0, tfRead.id}
         /\ \/ \E m \in ClientMsg : m.id = tfRead.id /\ tfToClient' = Append(tfToClient, m)
            \/ \E m, e \in ClientMsg :
                  /\ m.id = tfRead.id /\ e.id = tfRead.id
                  /\ tfToClient' = Append(Append(tfToClient, e), m)
<1> USE TfBounds
<1>1. tfRead \in ReadJob /\ tfToClient \in Seq(ClientMsg) /\ tfBad \subseteq File
  BY DEF TfTypeOK
<1>2. NoReadJob \in ReadJob /\ ~NoReadJob.waiting /\ NoReadJob.id = 0 /\ ~NoReadJob.open
  BY DEF NoReadJob, ReadJob
<1>3. \A f \in File : f + 1 \in 0 .. TfFiles
  BY DEF File
<1>4. CASE /\ tfRead.num \in File
           /\ tfRead' = [tfRead EXCEPT !.open = TRUE, !.pos = 0, !.confirmed = FALSE,
                                       !.waiting = TRUE]
           /\ tfToClient' = Append(tfToClient, Msg("digest", tfRead.num, <<>>))
  <2>1. Msg("digest", tfRead.num, <<>>) \in ClientMsg
    BY <1>1, <1>4 DEF Msg, ClientMsg, ReadJob
  <2>2. Msg("digest", tfRead.num, <<>>).id = tfRead.id
    BY DEF Msg
  <2>3. tfRead' \in ReadJob /\ tfRead'.open /\ tfRead'.num = tfRead.num
            /\ tfRead'.id = tfRead.id
    <3>1. tfRead' \in ReadJob
      <4>1. tfRead' = [tfRead EXCEPT !.open = TRUE, !.pos = 0, !.confirmed = FALSE,
                                     !.waiting = TRUE]
        BY <1>4
      <4>2. tfRead \in ReadJob /\ 0 \in 0 .. TfBlocks
        BY <1>1
      <4> QED
        BY ONLY <4>1, <4>2 DEF ReadJob
    <3>2. tfRead'.open /\ tfRead'.num = tfRead.num /\ tfRead'.id = tfRead.id
      BY <1>1, <1>4 DEF ReadJob
    <3> QED
      BY <3>1, <3>2
  <2> QED
    BY <1>4, <2>1, <2>2, <2>3 DEF ReadSound
<1>5. CASE /\ tfRead.num \in tfBad /\ tfRead' = NoReadJob
           /\ tfToClient' = tfToClient \o <<Msg("error", tfRead.num + 1, <<>>),
                                            Msg("done", tfRead.num + 1, <<>>)>>
  <2> DEFINE e == Msg("error", tfRead.num + 1, <<>>)
             m == Msg("done", tfRead.num + 1, <<>>)
  <2>1. e \in ClientMsg /\ m \in ClientMsg
    BY <1>1, <1>3, <1>5 DEF Msg, ClientMsg, ReadJob
  <2>2. e.id = tfRead.id /\ m.id = tfRead.id
    BY DEF Msg
  <2> HIDE DEF e, m
  <2>3. tfToClient \o <<e, m>> = Append(Append(tfToClient, e), m)
    BY <1>1, <2>1
  <2> QED
    BY <1>2, <1>5, <2>1, <2>2, <2>3 DEF e, m, ReadSound
<1>6. CASE /\ tfRead.open /\ tfRead.num \in File /\ tfRead.pos < TfBlocks
           /\ tfRead' = [tfRead EXCEPT !.pos = @ + 1]
           /\ tfToClient' = Append(tfToClient, Msg("block", tfRead.num, <<tfRead.pos + 1>>))
  <2>1. tfRead.pos + 1 \in 1 .. TfBlocks
    BY <1>1, <1>6 DEF ReadJob
  <2>2. Msg("block", tfRead.num, <<tfRead.pos + 1>>) \in ClientMsg
    BY <1>1, <1>6, <2>1 DEF Msg, ClientMsg, ReadJob
  <2>3. Msg("block", tfRead.num, <<tfRead.pos + 1>>).id = tfRead.id
    BY DEF Msg
  <2>4. tfRead' \in ReadJob /\ tfRead'.open /\ tfRead'.num = tfRead.num
            /\ tfRead'.id = tfRead.id
    <3>1. tfRead' \in ReadJob
      <4>1. tfRead' = [tfRead EXCEPT !.pos = @ + 1]
        BY <1>6
      <4>2. tfRead \in ReadJob /\ tfRead.pos + 1 \in 0 .. TfBlocks
        BY <1>1, <2>1
      <4> QED
        BY ONLY <4>1, <4>2 DEF ReadJob
    <3>2. tfRead'.open /\ tfRead'.num = tfRead.num /\ tfRead'.id = tfRead.id
      BY <1>1, <1>6, <2>1 DEF ReadJob
    <3> QED
      BY <3>1, <3>2
  <2> QED
    BY <1>6, <2>2, <2>3, <2>4 DEF ReadSound
<1>7. CASE /\ tfRead.num \in File
           /\ tfRead' = [tfRead EXCEPT !.num = @ + 1, !.open = FALSE, !.confirmed = FALSE,
                                       !.waiting = FALSE]
           /\ tfToClient' = Append(tfToClient, Msg("block", tfRead.num, <<>>))
  <2>1. Msg("block", tfRead.num, <<>>) \in ClientMsg
    BY <1>1, <1>7 DEF Msg, ClientMsg, ReadJob
  <2>2. Msg("block", tfRead.num, <<>>).id = tfRead.id
    BY DEF Msg
  <2>3. tfRead' \in ReadJob /\ ~tfRead'.waiting /\ ~tfRead'.open /\ tfRead'.id = tfRead.id
    BY <1>1, <1>3, <1>7 DEF ReadJob
  <2> QED
    BY <1>7, <2>1, <2>2, <2>3 DEF ReadSound
<1>8. CASE /\ tfRead' = NoReadJob
           /\ \E k \in {"error", "done"} :
                 tfToClient' = Append(tfToClient, Msg(k, tfRead.num, <<>>))
  <2>1. PICK k \in {"error", "done"} : tfToClient' = Append(tfToClient, Msg(k, tfRead.num, <<>>))
    BY <1>8
  <2>2. Msg(k, tfRead.num, <<>>) \in ClientMsg
    BY <1>1 DEF Msg, ClientMsg, ReadJob
  <2>3. Msg(k, tfRead.num, <<>>).id = tfRead.id
    BY DEF Msg
  <2> QED
    BY <1>2, <1>8, <2>1, <2>2, <2>3 DEF ReadSound
<1>9. tfRead.open => tfRead.num \in File
  BY DEF ReadSound
<1> QED
  BY <1>4, <1>5, <1>6, <1>7, <1>8, <1>9 DEF TfHostTick

(* One turn of the host's read job.                                        *)
LEMMA HostTickStep == ASSUME TfInv, TfHostTick PROVE TfInv'
<1> USE TfBounds
<1>1. /\ tfToHost \in Seq(HostMsg) /\ tfToClient \in Seq(ClientMsg) /\ Len(tfToClient) \in Nat
      /\ tfJob \in WriteJob /\ tfRead \in ReadJob /\ tfStarted \in Nat /\ tfBad \subseteq File
  BY DEF TfInv, TfSafe, TfTypeOK
<1>2. UNCHANGED <<tfName, tfPart, tfDigest, tfJob, tfToHost, tfAsked, tfBad, tfStarted, tfBreaks,
                  tfSkipped, tfOdd>>
  BY DEF TfHostTick, tfDisk, tfHist
<1>3. /\ tfRead' \in ReadJob /\ (tfRead'.waiting => tfRead'.open) /\ ReadSound'
      /\ tfRead'.id \in {0, tfRead.id}
      /\ \/ \E m \in ClientMsg : m.id = tfRead.id /\ tfToClient' = Append(tfToClient, m)
         \/ \E m, e \in ClientMsg :
               /\ m.id = tfRead.id /\ e.id = tfRead.id
               /\ tfToClient' = Append(Append(tfToClient, e), m)
  BY HostTickEffect DEF TfInv, TfSafe
<1>4. /\ tfToClient' \in Seq(ClientMsg) /\ Len(tfToClient') \in Nat
      /\ \A i \in 1 .. Len(tfToClient') :
            \/ i \in 1 .. Len(tfToClient) /\ tfToClient'[i] = tfToClient[i]
            \/ tfToClient'[i].id = tfRead.id
  <2>1. ASSUME NEW m \in ClientMsg, m.id = tfRead.id, tfToClient' = Append(tfToClient, m)
        PROVE  <1>4
    <3>1. /\ Append(tfToClient, m) \in Seq(ClientMsg)
          /\ Len(Append(tfToClient, m)) = Len(tfToClient) + 1
          /\ \A i \in 1 .. Len(tfToClient) : Append(tfToClient, m)[i] = tfToClient[i]
          /\ Append(tfToClient, m)[Len(tfToClient) + 1] = m
      BY <1>1, PutLast
    <3> QED
      BY <1>1, <2>1, <3>1
  <2>2. ASSUME NEW m \in ClientMsg, NEW e \in ClientMsg, m.id = tfRead.id, e.id = tfRead.id,
               tfToClient' = Append(Append(tfToClient, e), m)
        PROVE  <1>4
    <3> DEFINE q == Append(tfToClient, e)
    <3>1. /\ q \in Seq(ClientMsg) /\ Len(q) = Len(tfToClient) + 1
          /\ \A i \in 1 .. Len(tfToClient) : q[i] = tfToClient[i]
          /\ q[Len(tfToClient) + 1] = e
      BY <1>1, PutLast
    <3> HIDE DEF q
    <3>2. /\ Append(q, m) \in Seq(ClientMsg) /\ Len(Append(q, m)) = Len(q) + 1
          /\ \A i \in 1 .. Len(q) : Append(q, m)[i] = q[i]
          /\ Append(q, m)[Len(q) + 1] = m
      BY <3>1, PutLast
    <3>3. tfToClient' = Append(q, m)
      BY <2>2 DEF q
    <3> QED
      BY <1>1, <2>2, <3>1, <3>2, <3>3
  <2> QED
    BY <1>3, <2>1, <2>2
<1>5. TfTypeOK'
  BY <1>2, <1>3, <1>4 DEF TfInv, TfSafe, TfTypeOK
<1>6. /\ PartsSound' /\ NamesWhole' /\ DoneDelivers'
      /\ \A n, b : Reached(n, b) => Reached(n, b)'
      /\ Reached(tfJob.num, -1) => Reached(tfJob.num, -1)'
      /\ \A x : OfJob(x) <=> OfJob(x)'
  BY <1>2, ClientSame
<1>7. IdsKnown'
  <2>1. tfRead'.id <= tfStarted'
    BY <1>1, <1>2, <1>3 DEF TfInv, IdsKnown
  <2>2. \A i \in 1 .. Len(tfToClient') : tfToClient'[i].id <= tfStarted'
    BY <1>2, <1>4 DEF TfInv, IdsKnown
  <2> QED
    BY <1>2, <2>1, <2>2 DEF TfInv, IdsKnown
<1>8. ASSUME tfJob.st \in {"run", "last"}, NEW len, NothingUnderWay(len)
      PROVE  NothingUnderWay(len)'
  <2>1. tfStarted >= 1 /\ tfJob.id = tfStarted
    BY <1>8 DEF TfInv, IdsKnown
  <2>2. tfRead.id # tfJob.id /\ \A i \in 1 .. Len(tfToClient) : ~OfJob(tfToClient[i])
    BY <1>8 DEF NothingUnderWay
  <2>3. tfRead'.id # tfJob.id
    BY <1>3, <2>1, <2>2
  <2>4. \A i \in 1 .. Len(tfToClient') : ~OfJob(tfToClient'[i])
    BY <1>4, <2>2 DEF OfJob
  <2>5. Reached(tfJob.num, -1)'
    BY <1>6, <1>8 DEF NothingUnderWay
  <2> QED
    BY <1>2, <1>6, <1>8, <2>3, <2>4, <2>5 DEF NothingUnderWay
<1>9. Conversation'
  <2>1. CASE tfJob.st = "run" /\ Requested
    <3>1. Requested'
      BY <1>2, <1>8, <2>1 DEF Requested
    <3> QED
      BY <1>2, <2>1, <3>1 DEF Conversation
  <2>2. CASE tfJob.st = "run" /\ Talking
    <3>1. PICK n \in 0 .. TfFiles, b \in -1 .. TfBlocks :
            Reached(n, b) /\ Chained(tfToClient, n, b) /\ HostEnd(n, b)
      BY <2>2 DEF Talking
    <3>2. HostSends(n, b)
      <4>1. ~HostWaits
        BY DEF TfHostTick, HostWaits, Serves
      <4>2. tfRead.on
        BY DEF TfHostTick
      <4> QED
        BY <3>1, <4>1, <4>2 DEF HostEnd, HostOver, HostAsks, UserAsked, HostAnswered
    <3>3. /\ tfRead.on /\ tfRead.id = tfJob.id /\ tfToHost = <<>> /\ tfAsked = Nobody
          /\ tfRead.open = tfRead.confirmed
          /\ Pending => /\ LastMsg.k = "block"
                        /\ tfRead.num = NumAfter(LastMsg) /\ HostBlock = BlockAfter(LastMsg)
          /\ ~Pending => n = tfRead.num /\ b = HostBlock
          /\ tfRead.open => tfRead.num \in File
      BY <3>2 DEF HostSends, Serves, TfInv, ReadSound
    <3>4. ASSUME NEW m \in ClientMsg, m.id = tfRead.id, Comes(m, tfRead.num, HostBlock)
          PROVE  Chained(Append(tfToClient, m), n, b)
      <4>1. OfJob(m)
        BY <3>3, <3>4 DEF OfJob
      <4> QED
        BY <1>1, <3>1, <3>3, <3>4, <4>1, ChainAppend DEF Pending, LastMsg
    <3>5. ASSUME NEW q, NEW m, q = Append(tfToClient, m), m \in ClientMsg, m.id = tfRead.id
          PROVE  q \in Seq(ClientMsg) /\ Len(q) > 0 /\ q[Len(q)] = m /\ OfJob(q[Len(q)])
      <4>1. /\ Append(tfToClient, m) \in Seq(ClientMsg)
            /\ Len(Append(tfToClient, m)) = Len(tfToClient) + 1
            /\ Append(tfToClient, m)[Len(tfToClient) + 1] = m
        BY <1>1, <3>5, PutLast
      <4> QED
        BY <1>1, <3>3, <3>5, <4>1 DEF OfJob
    <3>6. ASSUME NEW m, tfToClient' = Append(tfToClient, m), m \in ClientMsg, m.id = tfRead.id,
                 Comes(m, tfRead.num, HostBlock)
          PROVE  Pending' /\ LastMsg' = m /\ Chained(tfToClient, n, b)'
      <4>1. Len(tfToClient') > 0 /\ tfToClient'[Len(tfToClient')] = m /\ OfJob(m)
        BY <3>5, <3>6
      <4>2. Chained(tfToClient', n, b)
        BY <3>4, <3>6
      <4>3. Chained(tfToClient, n, b)'
        BY <1>2, <4>2, ChainSame
      <4> QED
        BY <1>6, <4>1, <4>3 DEF Pending, LastMsg
    <3>7. ASSUME /\ tfRead.num \in File /\ ~tfRead.open
                 /\ tfRead' = [tfRead EXCEPT !.open = TRUE, !.pos = 0, !.confirmed = FALSE,
                                             !.waiting = TRUE]
                 /\ tfToClient' = Append(tfToClient, Msg("digest", tfRead.num, <<>>))
          PROVE  Talking'
      <4> DEFINE m == Msg("digest", tfRead.num, <<>>)
      <4>1. m \in ClientMsg /\ m.id = tfRead.id /\ m.k = "digest" /\ m.num = tfRead.num
        BY <1>1, <3>7 DEF Msg, ClientMsg, ReadJob
      <4>2. Comes(m, tfRead.num, HostBlock)
        BY <3>7, <4>1 DEF Comes, HostBlock
      <4> HIDE DEF m
      <4>3. Pending' /\ LastMsg' = m /\ Chained(tfToClient, n, b)'
        BY <3>6, <3>7, <4>1, <4>2 DEF m
      <4>4. /\ tfRead'.on /\ tfRead'.id = tfJob.id /\ tfRead'.num = tfRead.num
            /\ tfRead'.open = TRUE /\ tfRead'.confirmed = FALSE /\ tfRead'.pos = 0
        BY <1>1, <3>3, <3>7 DEF ReadJob
      <4>5. HostAsks'
        BY <1>2, <3>3, <3>7, <4>1, <4>3, <4>4 DEF HostAsks, HostWaits, Serves
      <4> QED
        BY <1>6, <3>1, <4>3, <4>5 DEF Talking, HostEnd
    <3>8. ASSUME /\ tfRead.num \in tfBad /\ tfRead' = NoReadJob
                 /\ tfToClient' = tfToClient \o <<Msg("error", tfRead.num + 1, <<>>),
                                                  Msg("done", tfRead.num + 1, <<>>)>>
          PROVE  Talking'
      <4> DEFINE e == Msg("error", tfRead.num + 1, <<>>)
                 m == Msg("done", tfRead.num + 1, <<>>)
                 q == Append(tfToClient, e)
      <4>1. /\ e \in ClientMsg /\ e.id = tfRead.id /\ e.k = "error"
            /\ m \in ClientMsg /\ m.id = tfRead.id /\ m.k = "done"
        <5>1. tfRead.num + 1 \in 0 .. TfFiles
          <6>1. tfRead.num \in File
            BY <1>1, <3>8
          <6> QED
            BY <6>1 DEF File
        <5> QED
          BY <1>1, <5>1 DEF Msg, ClientMsg, ReadJob
      <4>2. Comes(e, tfRead.num, HostBlock)
        BY <4>1 DEF Comes
      <4> HIDE DEF e, m
      <4>3. Chained(q, n, b) /\ q \in Seq(ClientMsg) /\ Len(q) > 0 /\ q[Len(q)] = e /\ OfJob(e)
        BY <3>4, <3>5, <4>1, <4>2
      <4>4. tfToClient' = Append(q, m)
        BY <1>1, <3>8, <4>1 DEF e, m
      <4> HIDE DEF q
      <4>5. Len(Append(q, m)) = Len(q) + 1 /\ Append(q, m)[Len(q) + 1] = m /\ Len(q) \in Nat
        BY <4>1, <4>3, PutLast
      <4>6. OfJob(m)
        BY <3>3, <4>1 DEF OfJob
      <4>7. Chained(tfToClient', n, b)
        BY <4>1, <4>3, <4>4, <4>6, ChainAppend
      <4>8. Chained(tfToClient, n, b)'
        BY <1>2, <4>7, ChainSame
      <4>9. Pending' /\ LastMsg' = m
        BY <1>6, <4>4, <4>5, <4>6 DEF Pending, LastMsg
      <4>10. HostOver'
        BY <1>2, <3>3, <3>8, <4>1, <4>9 DEF HostOver, NoReadJob
      <4> QED
        BY <1>6, <3>1, <4>8, <4>10 DEF Talking, HostEnd
    <3>9. ASSUME /\ tfRead.open /\ tfRead.confirmed /\ tfRead.pos < TfBlocks
                 /\ tfRead' = [tfRead EXCEPT !.pos = @ + 1]
                
                
                
                 /\ tfToClient' = Append(tfToClient, Msg("block", tfRead.num, <<tfRead.pos + 1>>))
          PROVE  Talking'
      <4> DEFINE m == Msg("block", tfRead.num, <<tfRead.pos + 1>>)
      <4>1. tfRead.pos \in 0 .. TfBlocks /\ tfRead.pos + 1 \in 1 .. TfBlocks
        BY <1>1, <3>9 DEF ReadJob
      <4>2. /\ m \in ClientMsg /\ m.id = tfRead.id /\ m.k = "block" /\ m.num = tfRead.num
            /\ m.data = <<tfRead.pos + 1>>
        BY <1>1, <3>3, <3>9, <4>1 DEF Msg, ClientMsg, ReadJob
      <4> HIDE DEF m
      <4>3. Comes(m, tfRead.num, HostBlock)
        <5>1. HostBlock = tfRead.pos /\ tfRead.pos >= 0 /\ tfRead.pos # TfBlocks
          BY <3>9, <4>1 DEF HostBlock
        <5> QED
          BY <4>2, <5>1 DEF Comes
      <4>4. Pending' /\ LastMsg' = m /\ Chained(tfToClient, n, b)'
        BY <3>6, <3>9, <4>2, <4>3 DEF m
      <4>5. /\ tfRead'.on /\ tfRead'.id = tfJob.id /\ tfRead'.num = tfRead.num
            /\ tfRead'.open = TRUE /\ tfRead'.confirmed = TRUE /\ tfRead'.pos = tfRead.pos + 1
        BY <1>1, <3>3, <3>9 DEF ReadJob
      <4>6. NumAfter(m) = tfRead.num /\ BlockAfter(m) = tfRead.pos + 1
        BY <4>2 DEF NumAfter, BlockAfter
      <4>7. HostSends(n, b)'
        BY <1>2, <3>3, <4>2, <4>4, <4>5, <4>6 DEF HostSends, Serves, HostBlock,
           NumAfter, BlockAfter
      <4> QED
        BY <1>6, <3>1, <4>4, <4>7 DEF Talking, HostEnd
    <3>10. ASSUME /\ tfRead.open /\ tfRead.confirmed /\ tfRead.pos = TfBlocks
                 
                 
                 
                  /\ tfRead' = [tfRead EXCEPT !.num = @ + 1, !.open = FALSE, !.confirmed = FALSE,
                                              !.waiting = FALSE]
                  /\ tfToClient' = Append(tfToClient, Msg("block", tfRead.num, <<>>))
           PROVE  Talking'
      <4> DEFINE m == Msg("block", tfRead.num, <<>>)
      <4>2. /\ m \in ClientMsg /\ m.id = tfRead.id /\ m.k = "block" /\ m.num = tfRead.num
            /\ m.data = <<>>
        BY <1>1, <3>3, <3>10 DEF Msg, ClientMsg, ReadJob
      <4>3. Comes(m, tfRead.num, HostBlock)
        BY <3>10, <4>2 DEF Comes, HostBlock
      <4> HIDE DEF m
      <4>4. Pending' /\ LastMsg' = m /\ Chained(tfToClient, n, b)'
        BY <3>6, <3>10, <4>2, <4>3 DEF m
      <4>5. /\ tfRead'.on /\ tfRead'.id = tfJob.id /\ tfRead'.num = tfRead.num + 1
            /\ tfRead'.open = FALSE /\ tfRead'.confirmed = FALSE
        BY <1>1, <3>3, <3>10 DEF ReadJob
      <4>6. HostSends(n, b)'
        BY <1>2, <3>3, <4>2, <4>4, <4>5 DEF HostSends, Serves, HostBlock, NumAfter,
           BlockAfter
      <4> QED
        BY <1>6, <3>1, <4>4, <4>6 DEF Talking, HostEnd
    <3>11. ASSUME /\ tfRead.num \notin File /\ tfRead' = NoReadJob
                  /\ tfToClient' = Append(tfToClient,
                        Msg(IF tfRead.skipped
                            /\ TfFiles = 1 THEN "error" ELSE "done", tfRead.num, <<>>))
           PROVE  Talking'
      <4> DEFINE m == Msg(IF tfRead.skipped
              /\ TfFiles = 1 THEN "error" ELSE "done", tfRead.num, <<>>)
      <4>1. m \in ClientMsg /\ m.id = tfRead.id /\ m.k \in {"done", "error"}
        BY <1>1 DEF Msg, ClientMsg, ReadJob
      <4>2. tfRead.num = TfFiles /\ ~tfRead.open
        BY <1>1, <3>3, <3>11 DEF ReadJob, File
      <4>3. Comes(m, tfRead.num, HostBlock)
        BY <4>1, <4>2 DEF Comes, HostBlock
      <4> HIDE DEF m
      <4>4. Pending' /\ LastMsg' = m /\ Chained(tfToClient, n, b)'
        BY <3>6, <3>11, <4>1, <4>3 DEF m
      <4>5. HostOver'
        BY <1>2, <3>3, <3>11, <4>1, <4>4 DEF HostOver, NoReadJob
      <4> QED
        BY <1>6, <3>1, <4>4, <4>5 DEF Talking, HostEnd
    <3>12. Talking'
      BY <3>7, <3>8, <3>9, <3>10, <3>11 DEF TfHostTick
    <3> QED
      BY <1>2, <2>2, <3>12 DEF Conversation
  <2>3. CASE tfJob.st = "last"
    <3>1. NothingUnderWay(Len(tfToHost))'
      BY <1>2, <1>8, <2>3 DEF TfInv, Conversation
    <3> QED
      BY <1>2, <2>3, <3>1 DEF Conversation
  <2>4. CASE tfJob.st \in {"idle", "done"}
    BY <1>2, <2>4 DEF TfInv, Conversation
  <2> QED
    BY <1>1, <2>1, <2>2, <2>3, <2>4 DEF TfInv, Conversation, WriteJob
<1> QED
  BY <1>3, <1>5, <1>6, <1>7, <1>9 DEF TfInv, TfSafe

(* The first message of a queue is taken, one of another job.              *)
LEMMA ChainTailOther ==
  ASSUME NEW q \in Seq(ClientMsg), NEW n, NEW b, Chained(q, n, b), q # <<>>, ~OfJob(q[1])
  PROVE  Chained(Tail(q), n, b)
<1> DEFINE r == Tail(q)
<1>1. /\ Len(q) \in Nat /\ Len(q) >= 1 /\ Len(r) = Len(q) - 1
      /\ \A i \in 1 .. Len(q) - 1 : r[i] = q[i + 1]
  BY TakeFirst
<1> HIDE DEF r
<1>2. \A i, j \in 1 .. Len(r) : i <= j /\ OfJob(r[i]) => OfJob(r[j])
  BY <1>1 DEF Chained
<1>3. ASSUME NEW i \in 1 .. Len(r), OfJob(r[i]), i = 1 \/ ~OfJob(r[i - 1])
      PROVE  Comes(r[i], n, b)
  <2>1. i + 1 \in 1 .. Len(q) /\ r[i] = q[i + 1] /\ ~OfJob(q[(i + 1) - 1])
    BY <1>1, <1>3
  <2> QED
    BY <1>3, <2>1 DEF Chained
<1>4. ASSUME NEW i \in 1 .. Len(r) - 1, OfJob(r[i])
      PROVE  \/ r[i].k = "error"
             \/ r[i].k = "block" /\ Comes(r[i + 1], NumAfter(r[i]), BlockAfter(r[i]))
  <2>1. i + 1 \in 1 .. Len(q) - 1 /\ r[i] = q[i + 1] /\ r[i + 1] = q[(i + 1) + 1]
    BY <1>1, <1>4
  <2> QED
    BY <1>4, <2>1 DEF Chained
<1>5. Chained(r, n, b)
  BY <1>2, <1>3, <1>4 DEF Chained
<1> QED
  BY <1>5 DEF r

(* A message of the job is taken.                                          *)
LEMMA ChainTailMine ==
  ASSUME NEW q \in Seq(ClientMsg), NEW n, NEW b, Chained(q, n, b), q # <<>>, OfJob(q[1])
  PROVE  /\ Comes(q[1], n, b) /\ OfJob(q[Len(q)])
         /\ q[1].k \in {"digest", "done"} => Len(q) = 1
         /\ q[1].k = "block" => Chained(Tail(q), NumAfter(q[1]), BlockAfter(q[1]))
<1> DEFINE r == Tail(q)
<1>1. /\ Len(q) \in Nat /\ Len(q) >= 1 /\ Len(r) = Len(q) - 1
      /\ \A i \in 1 .. Len(q) - 1 : r[i] = q[i + 1]
  BY TakeFirst
<1> HIDE DEF r
<1>2. Comes(q[1], n, b) /\ \A j \in 1 .. Len(q) : OfJob(q[j])
  BY <1>1 DEF Chained
<1>3. q[1].k \in {"digest", "done"} => Len(q) = 1
  BY <1>1 DEF Chained
<1>4. ASSUME q[1].k = "block" PROVE Chained(r, NumAfter(q[1]), BlockAfter(q[1]))
  <2>1. \A j \in 1 .. Len(r) : OfJob(r[j])
    BY <1>1, <1>2
  <2>2. ASSUME NEW i \in 1 .. Len(r), i = 1 \/ ~OfJob(r[i - 1])
        PROVE  Comes(r[i], NumAfter(q[1]), BlockAfter(q[1]))
    <3>1. i = 1
      BY <1>1, <2>1, <2>2
    <3>2. 1 \in 1 .. Len(q) - 1 /\ r[1] = q[1 + 1]
      BY <1>1, <2>2, <3>1
    <3>3. \/ q[1].k = "error"
          \/ Comes(q[1 + 1], NumAfter(q[1]), BlockAfter(q[1]))
      BY <3>2 DEF Chained
    <3> QED
      BY <1>4, <3>1, <3>2, <3>3
  <2>3. ASSUME NEW i \in 1 .. Len(r) - 1, OfJob(r[i])
        PROVE  \/ r[i].k = "error"
               \/ r[i].k = "block" /\ Comes(r[i + 1], NumAfter(r[i]), BlockAfter(r[i]))
    <3>1. i + 1 \in 1 .. Len(q) - 1 /\ r[i] = q[i + 1] /\ r[i + 1] = q[(i + 1) + 1]
      BY <1>1, <2>3
    <3> QED
      BY <2>3, <3>1 DEF Chained
  <2> QED
    BY <2>1, <2>2, <2>3 DEF Chained
<1> QED
  BY <1>1, <1>2, <1>3, <1>4 DEF r

(* What modify_time does for the job's current file.                       *)
LEMMA NamingFacts ==
  ASSUME TfTypeOK, NEW j \in 0 .. TfFiles
  PROVE  /\ NamedFile(j) \in [File -> {NoFile, Old} \cup Content]
         /\ Unparted(j) \in [File -> {NoFile} \cup Content]
         /\ \A f \in File : f # j => NamedFile(j)[f] = tfName[f] /\ Unparted(j)[f] = tfPart[f]
         /\ j \in File => Unparted(j)[j] = NoFile
         /\ j \in File /\ tfPart[j] # NoFile => NamedFile(j)[j] = tfPart[j]
         /\ j \in File /\ tfPart[j] = NoFile => NamedFile(j)[j] = tfName[j]
<1>1. /\ tfName \in [File -> {NoFile, Old} \cup Content]
      /\ tfPart \in [File -> {NoFile} \cup Content]
  BY DEF TfTypeOK
<1>2. CASE j \in File /\ tfPart[j] # NoFile
  <2>1. tfPart[j] \in Content
    BY <1>1, <1>2
  <2> QED
    BY <1>1, <1>2, <2>1 DEF NamedFile, Unparted, HasPart
<1>3. CASE j \in File /\ tfPart[j] = NoFile
  BY <1>1, <1>3 DEF NamedFile, Unparted, HasPart
<1>4. CASE j \notin File
  BY <1>1, <1>4 DEF NamedFile, Unparted, HasPart
<1> QED
  BY <1>2, <1>3, <1>4

(* A block lands where the client has come to: it begins the file, after the*)
(* one before has got its name, or it follows on what is there.            *)
LEMMA BlockLands ==
  ASSUME TfInv, tfJob.st = "run", NEW n \in 0 .. TfFiles, NEW b \in -1 .. TfBlocks, Reached(n, b),
         NEW m \in ClientMsg, m.k = "block", Comes(m, n, b), TfBlock(m)
  PROVE  /\ tfName' \in [File -> {NoFile, Old} \cup Content]
         /\ tfPart' \in [File -> {NoFile} \cup Content] /\ tfDigest' \subseteq File
         /\ tfJob' \in WriteJob /\ tfJob'.st = "run" /\ tfJob'.id = tfJob.id
         /\ tfOdd' \subseteq File
         /\ PartsSound' /\ NamesWhole'
         /\ NumAfter(m) \in 0 .. TfFiles /\ BlockAfter(m) \in -1 .. TfBlocks
         /\ Reached(NumAfter(m), BlockAfter(m))'
<1> USE TfBounds
<1>1. /\ tfName \in [File -> {NoFile, Old} \cup Content]
      /\ tfPart \in [File -> {NoFile} \cup Content] /\ tfDigest \subseteq File
      /\ tfJob \in WriteJob /\ tfOdd \subseteq File /\ TfTypeOK
  BY DEF TfInv, TfSafe, TfTypeOK
<1>2. /\ n \in File /\ m.num = n /\ b >= 0
      /\ m.data = (IF b = TfBlocks THEN <<>> ELSE <<b + 1>>)
      /\ b < TfBlocks => b + 1 \in 1 .. TfBlocks
  BY DEF Comes, Reached
<1>3. m.data \in Content /\ m.data # NoFile /\ Len(m.data) <= 1
  <2>1. <<>> \in Content /\ \A x \in 1 .. TfBlocks : <<x>> \in Content
    BY DEF Content
  <2> QED
    BY <1>2, <2>1, FrontFacts
<1>4. PICK p \in -1 .. TfBlocks, a \in 0 .. TfFiles :
        /\ a = NumAfter(m) /\ p = BlockAfter(m)
        /\ b = TfBlocks => a = n + 1 /\ p = -1
        /\ b # TfBlocks => a = n /\ p = b + 1
  <2>1. b = TfBlocks => NumAfter(m) = n + 1 /\ BlockAfter(m) = -1
    BY <1>2 DEF NumAfter, BlockAfter
  <2>2. b # TfBlocks => NumAfter(m) = n /\ BlockAfter(m) = b + 1
    BY <1>2 DEF NumAfter, BlockAfter
  <2>3. n + 1 \in 0 .. TfFiles
    BY <1>2 DEF File
  <2> QED
    BY <1>2, <2>1, <2>2, <2>3
<1>5. ASSUME NEW f \in File, f < n PROVE Settled(f)
  BY <1>5 DEF Reached
<1>6. ASSUME NEW f \in File
      PROVE  /\ tfPart[f] # NoFile <=> f \in tfDigest
             /\ tfPart[f] # NoFile => Len(tfPart[f]) <= TfBlocks
             /\ f \notin tfOdd => \/ tfPart[f] = NoFile
                                  \/ \E k \in 1 .. TfBlocks : tfPart[f] = Front(k)
             /\ f \notin tfOdd => tfName[f] \in {NoFile, Old, Whole}
  BY DEF TfInv, TfSafe, PartsSound, NamesWhole
<1>7. n \in Nat /\ TfFiles \in Nat /\ \A f \in File : f \in Nat
  BY <1>2 DEF File
<1>10. a \in {n, n + 1} /\ \A f \in tfSkipped : f < n /\ f < a /\ f # n /\ f # tfJob.num
  <2>1. tfSkipped \subseteq File /\ \A f \in tfSkipped : f < n /\ f # tfJob.num
    BY DEF Reached, TfInv, TfSafe, TfTypeOK
  <2> QED
    BY <1>4, <1>7, <2>1
<1>8. CASE m.num # tfJob.num \/ ~tfJob.open
  <2>1. PICK j \in 0 .. TfFiles : j = tfJob.num
    BY <1>1 DEF WriteJob
  <2>2. /\ tfName' = NamedFile(j)
        /\ tfPart' = [Unparted(j) EXCEPT ![n] = m.data]
        /\ tfDigest' = (tfDigest \ {j}) \cup {n}
        /\ tfJob' = [tfJob EXCEPT !.num = n, !.open = TRUE]
        /\ tfOdd' = (IF LeftoverMoved(m) THEN tfOdd \cup {n} ELSE tfOdd)
        /\ tfSkipped' = tfSkipped
    BY <1>2, <1>8, <2>1 DEF TfBlock
  <2>3. /\ NamedFile(j) \in [File -> {NoFile, Old} \cup Content]
        /\ Unparted(j) \in [File -> {NoFile} \cup Content]
        /\ \A f \in File : f # j => NamedFile(j)[f] = tfName[f] /\ Unparted(j)[f] = tfPart[f]
        /\ j \in File => Unparted(j)[j] = NoFile
        /\ j \in File /\ tfPart[j] # NoFile => NamedFile(j)[j] = tfPart[j]
        /\ j \in File /\ tfPart[j] = NoFile => NamedFile(j)[j] = tfName[j]
    BY <1>1, NamingFacts
  <2>4. /\ tfPart' \in [File -> {NoFile} \cup Content] /\ tfPart'[n] = m.data
        /\ \A f \in File \ {n} : tfPart'[f] = Unparted(j)[f]
    BY <1>2, <1>3, <2>2, <2>3
  <2>5. /\ tfJob' \in WriteJob /\ tfJob'.st = "run" /\ tfJob'.id = tfJob.id
        /\ tfJob'.num = n /\ tfJob'.open = TRUE
    BY <1>1, <1>2, <2>2 DEF WriteJob
  <2>6. tfOdd \subseteq tfOdd' /\ tfOdd' \subseteq File
    BY <1>1, <1>2, <2>2
  <2>7. \/ j = n /\ ~tfJob.open /\ b = 0
        \/ Behind(n) /\ (b = 0 \/ n \in tfOdd)
    <3>1. CASE b = 0
      BY <1>2, <1>8, <2>1, <3>1 DEF Reached, Ready
    <3>2. CASE b >= 1
      BY <1>2, <1>8, <2>1, <3>2 DEF Reached
    <3> QED
      BY <1>2, <3>1, <3>2
  <2>8. j # n => j < n /\ j \in File /\ (j \in tfOdd \/ tfPart[j] = Whole)
    BY <2>1, <2>7 DEF Behind
  <2>9. n \in tfOdd' \/ j # n \/ tfPart[n] = NoFile
    <3>1. CASE j = n /\ tfPart[n] # NoFile
      <4>1. ~tfJob.open /\ b = 0
        BY <1>7, <2>1, <2>7, <3>1 DEF Behind
      <4>2. CASE LeftoverMoved(m)
        BY <2>2, <4>2
      <4>3. CASE ~LeftoverMoved(m)
        <5>1. tfJob.resume
          BY <1>2, <2>1, <3>1, <4>1, <4>3 DEF LeftoverMoved, HasPart
        <5>2. n \in tfOdd
          BY <2>1, <3>1, <4>1, <5>1 DEF Reached
        <5> QED
          BY <2>6, <5>2
      <4> QED
        BY <4>2, <4>3
    <3> QED
      BY <3>1
  <2>10. b = 0 => m.data = Front(1)
    BY <1>2, FrontFacts
  <2>11. b # 0 => n \in tfOdd
    BY <2>7
  <2>12. PartsSound'
    <3>1. ASSUME NEW f \in File
          PROVE  /\ tfPart'[f] # NoFile <=> f \in tfDigest'
                 /\ tfPart'[f] # NoFile => Len(tfPart'[f]) <= TfBlocks
                 /\ f \notin tfOdd' => \/ tfPart'[f] = NoFile
                                       \/ \E k \in 1 .. TfBlocks : tfPart'[f] = Front(k)
      <4>1. CASE f = n
        BY <1>3, <2>2, <2>4, <2>6, <2>10, <2>11, <4>1
      <4>2. CASE f # n /\ f = j
        BY <2>2, <2>3, <2>4, <4>2
      <4>3. CASE f # n /\ f # j
        BY <1>6, <2>2, <2>3, <2>4, <2>6, <4>3
      <4> QED
        BY <4>1, <4>2, <4>3
    <3> QED
      BY <3>1 DEF PartsSound
  <2>13. NamesWhole'
    <3>1. ASSUME NEW f \in File, f \notin tfOdd' PROVE tfName'[f] \in {NoFile, Old, Whole}
      <4>1. f \notin tfOdd
        BY <2>6, <3>1
      <4>2. CASE f # j \/ tfPart[f] = NoFile
        BY <1>6, <2>2, <2>3, <4>1, <4>2
      <4>3. CASE f = j /\ tfPart[f] # NoFile
        BY <2>2, <2>3, <2>8, <2>9, <3>1, <4>1, <4>3
      <4> QED
        BY <4>2, <4>3
    <3> QED
      BY <3>1 DEF NamesWhole
  <2>14. ASSUME NEW f \in File, f < n PROVE Settled(f)'
    <3>1. Settled(f) /\ f # n
      BY <1>5, <1>7, <2>14
    <3>2. CASE f = j
      <4>1. f \in tfOdd \/ tfPart[f] = Whole
        BY <2>8, <3>1, <3>2
      <4>2. f \in tfOdd' \/ tfName'[f] = Whole
        BY <2>2, <2>3, <2>6, <3>2, <4>1, FrontFacts
      <4> QED
        BY <4>2 DEF Settled
    <3>3. CASE f # j
      BY <2>1, <2>2, <2>3, <2>6, <3>1, <3>3 DEF Settled
    <3> QED
      BY <3>2, <3>3
  <2>15. Reached(a, p)'
    <3>3. \A f \in tfSkipped' : f < a /\ f # tfJob'.num
      BY <1>10, <2>2, <2>5
    <3>1. CASE b # TfBlocks
      <4>1. a = n /\ p = b + 1 /\ p >= 1
        BY <1>2, <1>4, <3>1
      <4>2. tfPart'[n] # NoFile /\ Len(tfPart'[n]) <= p
        BY <1>3, <2>4, <4>1
      <4>3. n \in tfOdd' \/ tfPart'[n] = Front(p)
        BY <1>2, <2>4, <2>6, <2>10, <2>11, <4>1
      <4> QED
        BY <1>2, <2>5, <2>14, <3>3, <4>1, <4>2, <4>3 DEF Reached
    <3>2. CASE b = TfBlocks
      <4>1. a = n + 1 /\ p = -1 /\ n \in tfOdd'
        BY <1>4, <2>6, <2>11, <3>2
      <4>2. Settled(n)'
        BY <4>1 DEF Settled
      <4>3. Behind(a)'
        BY <1>2, <1>7, <2>5, <4>1 DEF Behind
      <4>4. \A f \in File : f < a => Settled(f)'
        BY <1>7, <2>14, <4>1, <4>2
      <4> QED
        BY <3>3, <4>1, <4>3, <4>4 DEF Reached, Ready
    <3> QED
      BY <3>1, <3>2
  <2> QED
    BY <1>2, <1>4, <2>2, <2>3, <2>4, <2>5, <2>6, <2>12, <2>13, <2>15, <1>1
<1>9. CASE m.num = tfJob.num /\ tfJob.open
  <2>1. /\ tfPart' = [tfPart EXCEPT ![n] = @ \o m.data] /\ tfName' = tfName
        /\ tfDigest' = tfDigest /\ tfJob' = tfJob /\ tfOdd' = tfOdd /\ tfSkipped' = tfSkipped
        /\ tfJob.num = n
    BY <1>2, <1>9 DEF TfBlock
  <2>2. /\ b >= 1 /\ tfPart[n] # NoFile /\ Len(tfPart[n]) <= b
        /\ n \in tfOdd \/ tfPart[n] = Front(b)
    <3>1. ~Ready(n) /\ ~Behind(n)
      BY <1>7, <1>9, <2>1 DEF Ready, Behind
    <3> QED
      BY <1>2, <3>1 DEF Reached
  <2>3. tfPart[n] \in Content /\ tfPart'[n] = tfPart[n] \o m.data
        /\ \A f \in File \ {n} : tfPart'[f] = tfPart[f]
    BY <1>1, <1>2, <2>1, <2>2
  <2>4. /\ tfPart'[n] \in Content
        /\ b = TfBlocks => tfPart'[n] = tfPart[n]
        /\ b # TfBlocks => Len(tfPart'[n]) = Len(tfPart[n]) + 1
    <3>1. CASE b = TfBlocks
      <4>1. m.data = <<>>
        BY <1>2, <3>1
      <4> QED
        BY <2>3, <3>1, <4>1 DEF Content
    <3>2. CASE b # TfBlocks
      <4>1. m.data = <<b + 1>> /\ b + 1 \in 1 .. TfBlocks
        BY <1>2, <3>2
      <4> QED
        BY <2>3, <3>2, <4>1 DEF Content
    <3> QED
      BY <3>1, <3>2
  <2>5. Len(tfPart[n]) \in Nat /\ tfPart'[n] # NoFile
    <3>1. Len(tfPart[n]) \in Nat
      BY <2>3 DEF Content
    <3> QED
      BY <2>4, <3>1, FrontFacts
  <2>6. b # TfBlocks => n \in tfOdd \/ tfPart'[n] = Front(b + 1)
    <3>1. ASSUME b # TfBlocks, tfPart[n] = Front(b) PROVE tfPart'[n] = Front(b + 1)
      <4>1. b \in 1 .. TfBlocks - 1 /\ m.data = <<b + 1>>
        BY <1>2, <2>2, <3>1
      <4> QED
        BY <2>3, <3>1, <4>1, FrontFacts
    <3> QED
      BY <2>2, <3>1
  <2>7. tfPart' \in [File -> {NoFile} \cup Content]
    <3>1. \A f \in File : tfPart'[f] \in {NoFile} \cup Content
      BY <1>1, <2>3, <2>4
    <3> QED
      BY <1>1, <2>1, <3>1
  <2>8. PartsSound'
    <3>1. ASSUME NEW f \in File
          PROVE  /\ tfPart'[f] # NoFile <=> f \in tfDigest'
                 /\ tfPart'[f] # NoFile => Len(tfPart'[f]) <= TfBlocks
                 /\ f \notin tfOdd' => \/ tfPart'[f] = NoFile
                                       \/ \E k \in 1 .. TfBlocks : tfPart'[f] = Front(k)
      <4>1. CASE f = n /\ b = TfBlocks
        BY <1>6, <2>1, <2>4, <4>1
      <4>2. CASE f = n /\ b # TfBlocks
        <5>1. b + 1 \in 1 .. TfBlocks
          BY <1>2, <4>2
        <5>2. Len(tfPart'[f]) <= TfBlocks
          BY <2>2, <2>4, <2>5, <4>2, <5>1
        <5>3. f \in tfDigest' /\ tfPart'[f] # NoFile
          BY <1>6, <2>1, <2>2, <2>5, <4>2
        <5>4. f \in tfOdd' \/ tfPart'[f] = Front(b + 1)
          BY <2>1, <2>6, <4>2
        <5> QED
          BY <5>1, <5>2, <5>3, <5>4
      <4>3. CASE f # n
        BY <1>6, <2>1, <2>3, <4>3
      <4> QED
        BY <4>1, <4>2, <4>3
    <3> QED
      BY <3>1 DEF PartsSound
  <2>9. NamesWhole'
    BY <2>1 DEF TfInv, TfSafe, NamesWhole
  <2>10. ASSUME NEW f \in File, f < n PROVE Settled(f)'
    <3>1. f # n
      BY <1>7, <2>10
    <3> QED
      BY <1>5, <2>1, <2>3, <2>10, <3>1 DEF Settled
  <2>11. Reached(a, p)'
    <3>3. \A f \in tfSkipped' : f < a /\ f # tfJob'.num
      BY <1>10, <2>1
    <3>1. CASE b # TfBlocks
      <4>1. a = n /\ p = b + 1 /\ p >= 1
        BY <1>2, <1>4, <3>1
      <4>2. Len(tfPart'[n]) <= p
        BY <2>2, <2>4, <2>5, <3>1, <4>1
      <4> QED
        BY <1>2, <1>9, <2>1, <2>5, <2>6, <2>10, <3>1, <3>3, <4>1, <4>2 DEF Reached
    <3>2. CASE b = TfBlocks
      <4>1. a = n + 1 /\ p = -1
        BY <1>4, <3>2
      <4>2. n \in tfOdd \/ tfPart'[n] = Whole
        BY <2>2, <2>4, <3>2, FrontFacts
      <4>3. Settled(n)'
        BY <1>9, <2>1, <4>2 DEF Settled
      <4>4. Behind(a)'
        <5>1. n \in File /\ n < a
          BY <1>2, <1>7, <4>1
        <5>2. tfJob'.num = n /\ tfJob'.open /\ (n \in tfOdd' \/ tfPart'[n] = Whole)
          BY <1>9, <2>1, <4>2
        <5> QED
          BY <5>1, <5>2 DEF Behind
      <4>5. \A f \in File : f < a => Settled(f)'
        BY <1>7, <2>10, <4>1, <4>3
      <4> QED
        BY <3>3, <4>1, <4>4, <4>5 DEF Reached, Ready
    <3> QED
      BY <3>1, <3>2
  <2> QED
    BY <1>1, <1>4, <2>1, <2>7, <2>8, <2>9, <2>11
<1> QED
  BY <1>8, <1>9 DEF TfBlock

(* A confirmation without an offset leaves the write job as it is, and the *)
(* client before the first block: it has no leftover that would be resumed.*)
LEMMA ConfirmOver ==
  ASSUME TfInv, NEW n \in File, Reached(n, -1), ~Resumable(n),
         tfJob' = WriteConfirm(tfJob, n, FALSE, 0), tfSkipped' \in {tfSkipped, tfSkipped \ {n}},
         UNCHANGED <<tfName, tfPart, tfDigest, tfOdd>>
  PROVE  tfJob' = tfJob /\ Reached(n, 0)'
<1> USE TfBounds
<1>1. tfJob \in WriteJob /\ n \in Nat
  BY DEF TfInv, TfSafe, TfTypeOK, File
<1>2. tfJob' = tfJob
  <2>1. tfJob.open \in BOOLEAN /\ ~(0 > 0)
    BY <1>1 DEF WriteJob
  <2>2. (tfJob.open \/ 0 > 0) = tfJob.open
    BY <2>1
  <2>3. [tfJob EXCEPT !.open = tfJob.open] = tfJob
    BY <1>1 DEF WriteJob
  <2> QED
    BY <2>2, <2>3 DEF WriteConfirm
<1>3. ASSUME tfJob.resume, n \notin tfOdd PROVE tfPart[n] = NoFile
  <2>1. tfPart[n] = NoFile \/ \E k \in 1 .. TfBlocks : tfPart[n] = Front(k)
    BY <1>3 DEF TfInv, PartsSound
  <2>2. tfPart[n] # NoFile => n \in tfDigest
    BY DEF TfInv, PartsSound
  <2>3. tfPart[n] # NoFile => tfPart[n] # <<>>
    BY <2>1, FrontFacts
  <2> QED
    BY <1>3, <2>2, <2>3 DEF Resumable, HasPart
<1>4. ASSUME NEW f \in File, f < n PROVE Settled(f)'
  <2>1. Settled(f) /\ f # n
    BY <1>1, <1>4 DEF Reached, File
  <2> QED
    BY <1>2, <2>1 DEF Settled
<1>5. Ready(n)'
  <2>1. Ready(n)
    BY DEF Reached
  <2> QED
    BY <1>2, <2>1 DEF Ready, Behind
<1>6. tfJob'.resume /\ n \notin tfOdd' => tfPart'[n] = NoFile
  BY <1>2, <1>3
<1>7. Reached(n, 0)'
  <2>1. n \in File /\ \A f \in File : f < n => Settled(f)'
    BY <1>4
  <2>2. \A f \in tfSkipped' : f < n /\ f # tfJob'.num
    BY <1>2 DEF Reached
  <2> QED
    BY ONLY <1>5, <1>6, <2>1, <2>2 DEF Reached
<1> QED
  BY <1>2, <1>7

(* A leftover that a resumed job takes up.                                 *)
LEMMA ConfirmResume ==
  ASSUME TfInv, NEW n \in File, Reached(n, -1), Resumable(n),
         tfJob' = WriteConfirm(tfJob, n, FALSE, Len(tfPart[n])),
         tfOdd' = IF n # tfJob.num THEN tfOdd \cup {n} ELSE tfOdd,
         UNCHANGED <<tfName, tfPart, tfDigest, tfSkipped>>
  PROVE  /\ tfJob' \in WriteJob /\ tfJob'.st = tfJob.st /\ tfJob'.id = tfJob.id
         /\ Len(tfPart[n]) \in 1 .. TfBlocks /\ Reached(n, Len(tfPart[n]))'
<1> USE TfBounds
<1>1. tfJob \in WriteJob /\ n \in Nat /\ tfPart \in [File -> {NoFile} \cup Content]
  BY DEF TfInv, TfSafe, TfTypeOK, File
<1>2. tfPart[n] # NoFile /\ tfPart[n] # <<>> /\ tfPart[n] \in Content
  BY <1>1 DEF Resumable, HasPart
<1>3. PICK b : b = Len(tfPart[n])
  OBVIOUS
<1>4. b \in 1 .. TfBlocks
  <2>1. b <= TfBlocks
    BY <1>2, <1>3 DEF TfInv, PartsSound
  <2>2. b \in Nat /\ b # 0
    BY <1>2, <1>3 DEF Content
  <2> QED
    BY <2>1, <2>2
<1>5. n \in tfOdd \/ tfPart[n] = Front(b)
  <2>1. n \in tfOdd \/ \E k \in 1 .. TfBlocks : tfPart[n] = Front(k)
    BY <1>2 DEF TfInv, PartsSound
  <2> QED
    BY <1>3, <2>1, FrontFacts
<1>6. CASE n = tfJob.num
  <2>1. tfJob' = [tfJob EXCEPT !.open = tfJob.open \/ b > 0]
    BY <1>3, <1>6 DEF WriteConfirm
  <2>2. (tfJob.open \/ b > 0) = TRUE
    BY <1>4
  <2>3. tfJob' = [tfJob EXCEPT !.open = TRUE]
    BY <2>1, <2>2
  <2>4. /\ tfJob' \in WriteJob /\ tfJob'.st = tfJob.st /\ tfJob'.id = tfJob.id
        /\ tfJob'.num = n /\ tfJob'.open = TRUE
    BY <1>1, <1>6, <2>3 DEF WriteJob
  <2>5. ASSUME NEW f \in File, f < n PROVE Settled(f)'
    <3>1. Settled(f) /\ f # n
      BY <1>1, <2>5 DEF Reached, File
    <3> QED
      BY <1>6, <3>1 DEF Settled
  <2>6. /\ tfPart'[n] # NoFile /\ Len(tfPart'[n]) <= b
        /\ n \in tfOdd' \/ tfPart'[n] = Front(b)
    BY <1>2, <1>3, <1>4, <1>5, <1>6
  <2>7. Reached(n, b)'
    <3>1. n \in File /\ b >= 1
      BY <1>4
    <3>2. \A f \in File : f < n => Settled(f)'
      BY <2>5
    <3>3. \A f \in tfSkipped' : f < n /\ f # tfJob'.num
      BY <1>6, <2>4 DEF Reached
    <3> QED
      BY ONLY <1>4, <2>4, <2>6, <3>1, <3>2, <3>3, TfBounds DEF Reached
  <2> QED
    BY <1>3, <1>4, <2>4, <2>7
<1>7. CASE n # tfJob.num
  <2>1. tfJob' = tfJob /\ tfOdd' = tfOdd \cup {n}
    BY <1>7 DEF WriteConfirm
  <2>2. Behind(n)'
    <3>1. Behind(n)
      BY <1>7 DEF Reached, Ready
    <3> QED
      BY <2>1, <3>1 DEF Behind
  <2>3. ASSUME NEW f \in File, f < n PROVE Settled(f)'
    BY <2>1, <2>3 DEF Reached, Settled
  <2>4. Reached(n, b)'
    <3>1. n \in File /\ n \in tfOdd' /\ b >= 1
      BY <1>4, <2>1
    <3>2. \A f \in File : f < n => Settled(f)'
      BY <2>3
    <3>3. \A f \in tfSkipped' : f < n /\ f # tfJob'.num
      BY <2>1 DEF Reached
    <3> QED
      BY ONLY <1>4, <2>2, <3>1, <3>2, <3>3, TfBounds DEF Reached
  <2> QED
    BY <1>1, <1>3, <1>4, <2>1, <2>4
<1> QED
  BY <1>6, <1>7

(* A file that the user skips.                                             *)
LEMMA ConfirmSkip ==
  ASSUME TfInv, NEW n \in File, Reached(n, -1),
         tfJob' = WriteConfirm(tfJob, n, TRUE, 0), tfSkipped' = tfSkipped \cup {n},
         UNCHANGED <<tfName, tfPart, tfDigest, tfOdd>>
  PROVE  /\ tfJob' \in WriteJob /\ tfJob'.st = tfJob.st /\ tfJob'.id = tfJob.id
         /\ n + 1 \in 0 .. TfFiles /\ Reached(n + 1, -1)'
<1> USE TfBounds
<1>1. tfJob \in WriteJob /\ n \in Nat /\ n + 1 \in 0 .. TfFiles
  BY DEF TfInv, TfSafe, TfTypeOK, File
<1>2. Settled(n)'
  BY DEF Settled
<1>3. \A f \in File : f < n + 1 => f < n \/ f = n
  BY <1>1 DEF File
<1>6. /\ \A f \in tfSkipped : f < n /\ f # tfJob.num
      /\ \A f \in tfSkipped' : f < n + 1 /\ f # n + 1
  <2>1. tfSkipped \subseteq File /\ \A f \in File : f \in Nat
    BY DEF TfInv, TfSafe, TfTypeOK, File
  <2> QED
    BY <1>1, <2>1 DEF Reached
<1>4. CASE n = tfJob.num
  <2>1. tfJob' = [tfJob EXCEPT !.num = n + 1, !.open = FALSE]
    BY <1>4 DEF WriteConfirm
  <2>2. /\ tfJob' \in WriteJob /\ tfJob'.st = tfJob.st /\ tfJob'.id = tfJob.id
        /\ tfJob'.num = n + 1 /\ tfJob'.open = FALSE
    BY <1>1, <2>1 DEF WriteJob
  <2>3. ASSUME NEW f \in File, f < n PROVE Settled(f)'
    <3>1. Settled(f) /\ f # n
      BY <1>1, <2>3 DEF Reached, File
    <3> QED
      BY <1>4, <3>1 DEF Settled
  <2>4. PICK a : a = n + 1
    OBVIOUS
  <2>5. \A f \in File : f < a => Settled(f)'
    BY <1>2, <1>3, <2>3, <2>4
  <2>6. Reached(a, -1)'
    <3>1. \A f \in tfSkipped' : f < a /\ f # tfJob'.num
      BY <1>6, <2>2, <2>4
    <3> QED
      BY ONLY <2>2, <2>4, <2>5, <3>1 DEF Reached, Ready
  <2> QED
    BY <1>1, <2>2, <2>4, <2>6
<1>5. CASE n # tfJob.num
  <2>1. tfJob' = tfJob
    BY <1>5 DEF WriteConfirm
  <2>2. Behind(n)
    BY <1>5 DEF Reached, Ready
  <2>3. PICK a : a = n + 1
    OBVIOUS
  <2>4. ASSUME NEW f \in File, f < n PROVE Settled(f)'
    BY <2>1, <2>4 DEF Reached, Settled
  <2>5. \A f \in File : f < a => Settled(f)'
    BY <1>2, <1>3, <2>3, <2>4
  <2>6. Behind(a)'
    <3>1. tfJob.num < a
      BY <1>1, <2>2, <2>3 DEF Behind, WriteJob
    <3> QED
      BY <2>1, <2>2, <3>1 DEF Behind
  <2>7. Reached(a, -1)'
    <3>1. \A f \in tfSkipped' : f < a /\ f # tfJob'.num
      BY <1>5, <1>6, <2>1, <2>3
    <3> QED
      BY ONLY <2>5, <2>6, <3>1 DEF Reached, Ready
  <2> QED
    BY <1>1, <2>1, <2>3, <2>7
<1> QED
  BY <1>4, <1>5

(* The confirmation is on its way to a host that waits for it.             *)
LEMMA AnswerGiven ==
  ASSUME TfInv, HostWaits, tfToHost = <<>>, tfAsked' = Nobody, tfRead' = tfRead,
         NEW n \in File, n = tfRead.num, NEW skip \in BOOLEAN, NEW off \in 0 .. TfBlocks,
         tfToHost' = Append(tfToHost, [k |-> "confirm", id |-> tfJob.id, num |-> n,
                                       skip |-> skip, off |-> off]),
         tfJob'.id = tfJob.id, NEW a \in 0 .. TfFiles, NEW b \in -1 .. TfBlocks, Reached(a, b)',
         IF skip THEN a = n + 1 /\ b = -1 ELSE a = n /\ b = off,
         Len(tfToClient') \in Nat,
         \A i \in 1 .. Len(tfToClient') : tfToClient'[i].id # tfJob.id
  PROVE  /\ tfToHost' \in Seq(HostMsg) /\ Talking'
         /\ \A i \in 1 .. Len(tfToHost') : tfToHost'[i].id = tfJob.id
<1> DEFINE m == [k |-> "confirm", id |-> tfJob.id, num |-> n, skip |-> skip, off |-> off]
<1>1. m \in HostMsg
  BY DEF HostMsg, TfInv, TfSafe, TfTypeOK, WriteJob
<1>2. /\ m.k = "confirm" /\ m.id = tfJob.id /\ m.num = n /\ m.skip = skip /\ m.off = off
  OBVIOUS
<1> HIDE DEF m
<1>3. tfToHost' = <<m>>
  BY DEF m
<1>4. Len(tfToHost') = 1 /\ tfToHost'[1] = m /\ tfToHost' \in Seq(HostMsg)
  BY <1>1, <1>3
<1>5. ~Pending'
  BY DEF Pending, OfJob
<1>6. Chained(tfToClient, a, b)'
  BY DEF Chained, OfJob
<1>7. HostWaits'
  BY DEF HostWaits, Serves
<1>8. HostAnswered(a, b)'
  BY <1>2, <1>4, <1>5, <1>7 DEF HostAnswered
<1>9. Talking'
  BY <1>6, <1>8 DEF Talking, HostEnd
<1> QED
  BY <1>2, <1>4, <1>9

(* A message of another job: the client drops it.                          *)
LEMMA OtherStep ==
  ASSUME TfInv, tfToClient # <<>>, tfToClient' = Tail(tfToClient), ~Mine(tfToClient[1]),
         UNCHANGED <<tfName, tfPart, tfDigest, tfJob, tfRead, tfToHost, tfAsked, tfBad, tfStarted,
                     tfBreaks, tfSkipped, tfOdd>>
  PROVE  TfInv'
<1>1. tfToClient \in Seq(ClientMsg) /\ tfJob \in WriteJob
  BY DEF TfInv, TfSafe, TfTypeOK
<1>2. /\ Len(tfToClient) \in Nat /\ Len(tfToClient) >= 1
      /\ tfToClient' \in Seq(ClientMsg) /\ Len(tfToClient') = Len(tfToClient) - 1
      /\ \A i \in 1 .. Len(tfToClient) - 1 : tfToClient'[i] = tfToClient[i + 1]
  BY <1>1, TakeFirst
<1>3. TfTypeOK'
  BY <1>2 DEF TfInv, TfSafe, TfTypeOK
<1>4. /\ PartsSound' /\ NamesWhole' /\ DoneDelivers'
      /\ \A n, b : Reached(n, b) => Reached(n, b)'
      /\ Reached(tfJob.num, -1) => Reached(tfJob.num, -1)'
      /\ \A n : Resumable(n) <=> Resumable(n)'
      /\ \A x : OfJob(x) <=> OfJob(x)'
  BY ClientSame
<1>5. IdsKnown' /\ ReadSound'
  BY <1>2 DEF TfInv, IdsKnown, ReadSound
<1>6. ASSUME NEW len, NothingUnderWay(len) PROVE NothingUnderWay(len)'
  <2>1. \A i \in 1 .. Len(tfToClient') : ~OfJob(tfToClient'[i])
    BY <1>2, <1>6 DEF NothingUnderWay
  <2>2. Reached(tfJob.num, -1)'
    BY <1>4, <1>6 DEF NothingUnderWay
  <2> QED
    BY <1>4, <1>6, <2>1, <2>2 DEF NothingUnderWay
<1>7. CASE tfJob.st = "run" /\ Requested
  <2>1. Requested'
    BY <1>6, <1>7 DEF Requested
  <2> QED
    BY <1>3, <1>4, <1>5, <1>7, <2>1 DEF TfInv, TfSafe, Conversation
<1>8. CASE tfJob.st = "run" /\ Talking
  <2>1. PICK n \in 0 .. TfFiles, b \in -1 .. TfBlocks :
          Reached(n, b) /\ Chained(tfToClient, n, b) /\ HostEnd(n, b)
    BY <1>8 DEF Talking
  <2>2. ~OfJob(tfToClient[1])
    BY <1>8 DEF Mine, OfJob
  <2>3. Chained(tfToClient', n, b)
    BY <1>1, <2>1, <2>2, ChainTailOther
  <2>4. Chained(tfToClient, n, b)'
    BY <2>3, ChainSame
  <2>5. Pending' <=> Pending
    BY <1>2, <1>4, <2>2 DEF Pending
  <2>6. Pending => LastMsg' = LastMsg
    BY <1>2, <2>2 DEF Pending, LastMsg
  <2>7. HostEnd(n, b)'
    <3>1. HostOver => HostOver'
      BY <2>5, <2>6 DEF HostOver
    <3>2. HostSends(n, b) => HostSends(n, b)'
      BY <2>5, <2>6 DEF HostSends, Serves, HostBlock, NumAfter, BlockAfter
    <3>3. HostAsks => HostAsks'
      BY <2>5, <2>6 DEF HostAsks, HostWaits, Serves
    <3>4. UserAsked(n, b) => UserAsked(n, b)'
      BY <1>4, <2>5 DEF UserAsked, HostWaits, Serves
    <3>5. HostAnswered(n, b) => HostAnswered(n, b)'
      BY <2>5 DEF HostAnswered, HostWaits, Serves
    <3> QED
      BY <2>1, <3>1, <3>2, <3>3, <3>4, <3>5 DEF HostEnd
  <2>8. Talking'
    BY <1>4, <2>1, <2>4, <2>7 DEF Talking
  <2> QED
    BY <1>3, <1>4, <1>5, <1>8, <2>8 DEF TfInv, TfSafe, Conversation
<1>9. CASE tfJob.st = "last"
  <2>1. NothingUnderWay(Len(tfToHost))'
    BY <1>6, <1>9 DEF TfInv, Conversation
  <2> QED
    BY <1>3, <1>4, <1>5, <1>9, <2>1 DEF TfInv, TfSafe, Conversation
<1>10. CASE tfJob.st \in {"idle", "done"}
  BY <1>3, <1>4, <1>5, <1>10 DEF TfInv, TfSafe, Conversation
<1> QED
  BY <1>1, <1>7, <1>8, <1>9, <1>10 DEF TfInv, Conversation, WriteJob

(* Where the conversation stands when a message of the job is taken.       *)
LEMMA MineFacts ==
  ASSUME TfInv, tfToClient # <<>>, Mine(tfToClient[1])
  PROVE  /\ tfAsked = Nobody /\ tfToHost = <<>> /\ Pending
         /\ \E n \in 0 .. TfFiles, b \in -1 .. TfBlocks :
               /\ Reached(n, b) /\ Chained(tfToClient, n, b)
               /\ HostOver \/ HostSends(n, b) \/ HostAsks
<1>1. tfToClient \in Seq(ClientMsg)
  BY DEF TfInv, TfSafe, TfTypeOK
<1>2. tfJob.st = "run" /\ OfJob(tfToClient[1]) /\ Len(tfToClient) \in Nat
          /\ Len(tfToClient) >= 1
  BY <1>1 DEF Mine, OfJob
<1>3. ~Requested
  BY <1>2 DEF Requested, NothingUnderWay
<1>4. PICK n \in 0 .. TfFiles, b \in -1 .. TfBlocks :
        Reached(n, b) /\ Chained(tfToClient, n, b) /\ HostEnd(n, b)
  BY <1>2, <1>3 DEF TfInv, Conversation, Talking
<1>5. Pending
  <2>1. OfJob(tfToClient[Len(tfToClient)])
    BY <1>1, <1>2, <1>4, ChainTailMine
  <2> QED
    BY <1>2, <2>1 DEF Pending
<1>6. HostOver \/ HostSends(n, b) \/ HostAsks
  BY <1>4, <1>5 DEF HostEnd, UserAsked, HostAnswered
<1> QED
  BY <1>4, <1>5, <1>6 DEF HostOver, HostSends, HostAsks

(* A block of the job.                                                     *)
LEMMA BlockStep ==
  ASSUME TfInv, tfToClient # <<>>, tfToClient' = Tail(tfToClient), Mine(tfToClient[1]),
         tfToClient[1].k = "block", TfBlock(tfToClient[1]),
         UNCHANGED <<tfRead, tfBad, tfStarted, tfBreaks>>
  PROVE  TfInv'
<1>1. tfToClient \in Seq(ClientMsg) /\ tfJob \in WriteJob /\ tfJob.st = "run"
  BY DEF TfInv, TfSafe, TfTypeOK, Mine
<1>2. PICK m \in ClientMsg : m = tfToClient[1]
  BY <1>1, TakeFirst
<1>3. /\ Len(tfToClient) \in Nat /\ Len(tfToClient) >= 1
      /\ tfToClient' \in Seq(ClientMsg) /\ Len(tfToClient') = Len(tfToClient) - 1
      /\ \A i \in 1 .. Len(tfToClient) - 1 : tfToClient'[i] = tfToClient[i + 1]
  BY <1>1, TakeFirst
<1>4. OfJob(m) /\ m.k = "block" /\ TfBlock(m)
  BY <1>2 DEF Mine, OfJob
<1>5. UNCHANGED <<tfToHost, tfAsked, tfSkipped>>
  BY <1>4 DEF TfBlock
<1>6. tfAsked = Nobody /\ tfToHost = <<>> /\ Pending
  BY MineFacts
<1>7. PICK n \in 0 .. TfFiles, b \in -1 .. TfBlocks :
        /\ Reached(n, b) /\ Chained(tfToClient, n, b)
        /\ HostOver \/ HostSends(n, b) \/ HostAsks
  BY MineFacts
<1>8. Comes(m, n, b) /\ Chained(tfToClient', NumAfter(m), BlockAfter(m))
  BY <1>1, <1>2, <1>4, <1>7, ChainTailMine
<1>9. /\ tfName' \in [File -> {NoFile, Old} \cup Content]
      /\ tfPart' \in [File -> {NoFile} \cup Content] /\ tfDigest' \subseteq File
      /\ tfJob' \in WriteJob /\ tfJob'.st = "run" /\ tfJob'.id = tfJob.id
      /\ tfOdd' \subseteq File
      /\ PartsSound' /\ NamesWhole'
      /\ NumAfter(m) \in 0 .. TfFiles /\ BlockAfter(m) \in -1 .. TfBlocks
      /\ Reached(NumAfter(m), BlockAfter(m))'
  BY <1>1, <1>4, <1>7, <1>8, BlockLands
<1>10. PICK a \in 0 .. TfFiles, p \in -1 .. TfBlocks : a = NumAfter(m) /\ p = BlockAfter(m)
  BY <1>9
<1>11. Reached(a, p)' /\ Chained(tfToClient', a, p)
  BY <1>8, <1>9, <1>10
<1>12. TfTypeOK'
  BY <1>3, <1>5, <1>9 DEF TfInv, TfSafe, TfTypeOK
<1>13. DoneDelivers' /\ ReadSound'
  BY <1>9 DEF TfInv, DoneDelivers, ReadSound
<1>14. IdsKnown'
  <2>1. \A i \in 1 .. Len(tfToClient') : tfToClient'[i].id <= tfStarted
    BY <1>3 DEF TfInv, IdsKnown
  <2> QED
    BY <1>1, <1>5, <1>9, <2>1 DEF TfInv, IdsKnown
<1>15. Chained(tfToClient, a, p)'
  BY <1>9, <1>11, ChainSame
<1>16. ASSUME Len(tfToClient) > 1 PROVE Pending' /\ LastMsg' = LastMsg
  BY <1>3, <1>6, <1>9, <1>16 DEF Pending, LastMsg, OfJob
<1>17. ASSUME Len(tfToClient) = 1 PROVE ~Pending' /\ LastMsg = m
  BY <1>2, <1>3, <1>17 DEF Pending, LastMsg
<1>18. HostEnd(a, p)'
  <2>1. CASE HostOver
    <3>1. Len(tfToClient) > 1
      BY <1>3, <1>4, <1>17, <2>1 DEF HostOver
    <3> QED
      BY <1>5, <1>16, <2>1, <3>1 DEF HostEnd, HostOver
  <2>2. CASE HostAsks
    <3>1. Len(tfToClient) > 1
      BY <1>3, <1>4, <1>17, <2>2 DEF HostAsks
    <3> QED
      BY <1>5, <1>9, <1>16, <2>2, <3>1 DEF HostEnd, HostAsks, HostWaits, Serves
  <2>3. CASE HostSends(n, b)
    <3>1. /\ Serves(FALSE, FALSE)' \/ Serves(TRUE, TRUE)'
          /\ tfToHost' = <<>> /\ tfAsked' = Nobody /\ HostBlock' = HostBlock
          /\ LastMsg.k = "block"
          /\ tfRead.num = NumAfter(LastMsg) /\ HostBlock = BlockAfter(LastMsg)
      BY <1>5, <1>6, <1>9, <2>3 DEF HostSends, Serves, HostBlock
    <3>2. CASE Len(tfToClient) > 1
      BY <1>16, <3>1, <3>2 DEF HostEnd, HostSends, NumAfter, BlockAfter
    <3>3. CASE Len(tfToClient) = 1
      BY <1>10, <1>17, <3>1, <3>3 DEF HostEnd, HostSends
    <3> QED
      BY <1>3, <3>2, <3>3
  <2> QED
    BY <1>7, <2>1, <2>2, <2>3
<1>19. Conversation'
  BY <1>9, <1>11, <1>15, <1>18 DEF Conversation, Talking
<1> QED
  BY <1>9, <1>12, <1>13, <1>14, <1>19 DEF TfInv, TfSafe

(* The digest of a file: the client confirms it or asks its user.          *)
LEMMA DigestStep ==
  ASSUME TfInv, tfToClient # <<>>, tfToClient' = Tail(tfToClient), Mine(tfToClient[1]),
         tfToClient[1].k = "digest", TfDigest(tfToClient[1]),
         UNCHANGED <<tfRead, tfBad, tfStarted, tfBreaks>>
  PROVE  TfInv'
<1> USE TfBounds
<1>1. /\ tfToClient \in Seq(ClientMsg) /\ tfJob \in WriteJob /\ tfJob.st = "run"
      /\ tfOdd \subseteq File /\ tfStarted \in Nat
  BY DEF TfInv, TfSafe, TfTypeOK, Mine
<1>2. PICK m \in ClientMsg : m = tfToClient[1]
  BY <1>1, TakeFirst
<1>3. OfJob(m) /\ m.k = "digest" /\ TfDigest(m)
  BY <1>2 DEF Mine, OfJob
<1>4. tfAsked = Nobody /\ tfToHost = <<>> /\ Pending
  BY MineFacts
<1>5. PICK n \in 0 .. TfFiles, b \in -1 .. TfBlocks :
        /\ Reached(n, b) /\ Chained(tfToClient, n, b)
        /\ HostOver \/ HostSends(n, b) \/ HostAsks
  BY MineFacts
<1>6. Comes(m, n, b) /\ Len(tfToClient) = 1
  BY <1>1, <1>2, <1>3, <1>5, ChainTailMine
<1>7. LastMsg = m /\ tfToClient' = <<>> /\ tfToClient' \in Seq(ClientMsg)
          /\ Len(tfToClient') = 0
  BY <1>1, <1>2, <1>6, TakeFirst DEF LastMsg
<1>8. HostWaits /\ n = tfRead.num /\ m.num = n /\ n \in File /\ Reached(n, -1)
  BY <1>3, <1>4, <1>5, <1>6, <1>7 DEF HostOver, HostSends, HostAsks, Comes, HostWaits
<1>9. UNCHANGED <<tfName, tfPart, tfDigest, tfSkipped>>
  BY <1>3 DEF TfDigest, tfDisk
<1>10. tfJob.id = tfStarted /\ tfStarted >= 1
  BY <1>1 DEF TfInv, IdsKnown
<1>11. ASSUME tfJob' \in WriteJob, tfJob'.st = "run", tfJob'.id = tfJob.id,
              tfOdd \subseteq tfOdd', tfOdd' \subseteq File, tfAsked' \in File \cup {Nobody},
              tfToHost' \in Seq(HostMsg), Talking',
              \A i \in 1 .. Len(tfToHost') : tfToHost'[i].id = tfJob.id
       PROVE  TfInv'
  <2>1. TfTypeOK'
    BY <1>7, <1>9, <1>11 DEF TfInv, TfSafe, TfTypeOK
  <2>2. PartsSound' /\ NamesWhole' /\ DoneDelivers' /\ ReadSound'
    BY <1>9, <1>11 DEF TfInv, TfSafe, PartsSound, NamesWhole, DoneDelivers, ReadSound
  <2>3. IdsKnown'
    <3>1. tfJob'.id = tfStarted' /\ tfStarted' >= 1 /\ tfRead'.id <= tfStarted'
      BY <1>10, <1>11 DEF TfInv, IdsKnown
    <3>2. \A i \in 1 .. Len(tfToHost') : tfToHost'[i].id <= tfStarted'
      BY <1>1, <1>10, <1>11
    <3>3. \A i \in 1 .. Len(tfToClient') : tfToClient'[i].id <= tfStarted'
      BY ONLY <1>7
    <3> QED
      BY <3>1, <3>2, <3>3 DEF IdsKnown
  <2> QED
    BY <1>11, <2>1, <2>2, <2>3 DEF TfInv, TfSafe, Conversation
<1>12. CASE /\ Resumable(n) /\ Confirm(n, FALSE, Len(tfPart[n])) /\ tfAsked' = tfAsked
            /\ tfOdd' = IF n # tfJob.num THEN tfOdd \cup {n} ELSE tfOdd
  <2>1. /\ tfJob' = WriteConfirm(tfJob, n, FALSE, Len(tfPart[n]))
        /\ tfToHost' = Append(tfToHost, [k |-> "confirm", id |-> tfJob.id, num |-> n,
                                         skip |-> FALSE, off |-> Len(tfPart[n])])
    BY <1>12 DEF Confirm
  <2>2. /\ tfJob' \in WriteJob /\ tfJob'.st = tfJob.st /\ tfJob'.id = tfJob.id
        /\ Len(tfPart[n]) \in 1 .. TfBlocks /\ Reached(n, Len(tfPart[n]))'
    BY <1>8, <1>9, <1>12, <2>1, ConfirmResume
  <2>3. PICK l \in 1 .. TfBlocks : l = Len(tfPart[n])
    BY <2>2
  <2>4. Reached(n, l)'
    BY <1>9, <2>2, <2>3
  <2>5. l \in 0 .. TfBlocks /\ l \in -1 .. TfBlocks /\ FALSE \in BOOLEAN
    BY <2>3
  <2>6. /\ Len(tfToClient') \in Nat
        /\ \A i \in 1 .. Len(tfToClient') : tfToClient'[i].id # tfJob.id
    BY <1>7
  <2>7. tfToHost' = Append(tfToHost, [k |-> "confirm", id |-> tfJob.id, num |-> n,
                                      skip |-> FALSE, off |-> l])
    BY <2>1, <2>3
  <2>8. tfAsked' = Nobody /\ tfRead' = tfRead
    BY <1>4, <1>12
  <2>9. /\ tfToHost' \in Seq(HostMsg) /\ Talking'
        /\ \A i \in 1 .. Len(tfToHost') : tfToHost'[i].id = tfJob.id
    BY <1>4, <1>8, <2>2, <2>4, <2>5, <2>6, <2>7, <2>8, AnswerGiven
  <2>10. tfOdd \subseteq tfOdd' /\ tfOdd' \subseteq File
    BY <1>1, <1>8, <1>12
  <2> QED
    BY <1>1, <1>11, <2>2, <2>8, <2>9, <2>10
<1>13. CASE ~Resumable(n) /\ tfAsked' = n /\ UNCHANGED <<tfJob, tfToHost, tfOdd>>
  <2>1. /\ \A x, y : Reached(x, y) => Reached(x, y)'
        /\ \A x : Resumable(x) <=> Resumable(x)'
    BY <1>9, <1>13, ClientSame
  <2>2. ~Pending' /\ HostWaits'
    <3>1. ~Pending'
      BY <1>7 DEF Pending
    <3>2. HostWaits'
      BY <1>8, <1>13 DEF HostWaits, Serves
    <3> QED
      BY <3>1, <3>2
  <2>3. UserAsked(n, -1)'
    BY <1>4, <1>8, <1>13, <2>1, <2>2 DEF UserAsked
  <2>4. Chained(tfToClient, n, -1)'
    BY ONLY <1>7 DEF Chained
  <2>5. Talking'
    BY <1>8, <2>1, <2>3, <2>4 DEF Talking, HostEnd
  <2> QED
    BY <1>1, <1>4, <1>8, <1>11, <1>13, <2>5
<1>14. CASE ~Resumable(n) /\ Confirm(n, FALSE, 0) /\ UNCHANGED <<tfAsked, tfOdd>>
  <2>1. /\ tfJob' = WriteConfirm(tfJob, n, FALSE, 0)
        /\ tfToHost' = Append(tfToHost, [k |-> "confirm", id |-> tfJob.id, num |-> n,
                                         skip |-> FALSE, off |-> 0])
    BY <1>14 DEF Confirm
  <2>2. tfJob' = tfJob /\ Reached(n, 0)'
    BY <1>8, <1>9, <1>14, <2>1, ConfirmOver
  <2>3. 0 \in 0 .. TfBlocks /\ 0 \in -1 .. TfBlocks /\ FALSE \in BOOLEAN
    OBVIOUS
  <2>4. /\ Len(tfToClient') \in Nat
        /\ \A i \in 1 .. Len(tfToClient') : tfToClient'[i].id # tfJob.id
    BY <1>7
  <2>5. tfAsked' = Nobody /\ tfRead' = tfRead
    BY <1>4, <1>14
  <2>6. /\ tfToHost' \in Seq(HostMsg) /\ Talking'
        /\ \A i \in 1 .. Len(tfToHost') : tfToHost'[i].id = tfJob.id
    BY <1>4, <1>8, <2>1, <2>2, <2>3, <2>4, <2>5, AnswerGiven
  <2> QED
    BY <1>1, <1>11, <1>14, <2>2, <2>5, <2>6
<1> QED
  BY <1>3, <1>8, <1>12, <1>13, <1>14 DEF TfDigest

(* The job is done, or has failed.                                         *)
LEMMA EndStep ==
  ASSUME TfInv, tfToClient # <<>>, tfToClient' = Tail(tfToClient), Mine(tfToClient[1]),
         \/ tfToClient[1].k = "done" /\ TfDone
         \/ tfToClient[1].k = "error" /\ TfError,
         UNCHANGED <<tfRead, tfBad, tfStarted, tfBreaks>>
  PROVE  TfInv'
<1> USE TfBounds
<1>1. /\ tfToClient \in Seq(ClientMsg) /\ tfJob \in WriteJob /\ tfJob.st = "run" /\ TfTypeOK
      /\ tfDigest \subseteq File
  BY DEF TfInv, TfSafe, TfTypeOK, Mine
<1>2. OfJob(tfToClient[1]) /\ tfAsked = Nobody /\ tfToHost = <<>>
  BY MineFacts DEF Mine, OfJob
<1>3. /\ Len(tfToClient) \in Nat /\ Len(tfToClient) >= 1
      /\ tfToClient' \in Seq(ClientMsg) /\ Len(tfToClient') = Len(tfToClient) - 1
      /\ \A i \in 1 .. Len(tfToClient) - 1 : tfToClient'[i] = tfToClient[i + 1]
  BY <1>1, TakeFirst
<1>4. /\ UNCHANGED <<tfToHost, tfAsked, tfSkipped, tfOdd>>
      /\ tfJob' = [tfJob EXCEPT !.st = "done"] \/ tfJob' = [tfJob EXCEPT !.st = "idle"]
  BY DEF TfDone, TfError
<1>5. /\ tfJob' \in WriteJob /\ tfJob'.st \in {"idle", "done"} /\ tfJob'.id = tfJob.id
  BY <1>1, <1>4 DEF WriteJob
<1>6. ReadSound' /\ Conversation'
  BY <1>2, <1>4, <1>5 DEF TfInv, ReadSound, Conversation
<1>7. IdsKnown'
  <2>1. \A i \in 1 .. Len(tfToClient') : tfToClient'[i].id <= tfStarted
    BY <1>3 DEF TfInv, IdsKnown
  <2> QED
    BY <1>4, <1>5, <2>1 DEF TfInv, IdsKnown
<1>8. CASE tfToClient[1].k = "error" /\ TfError
  <2>1. UNCHANGED <<tfName, tfPart, tfDigest>> /\ tfJob'.st = "idle"
    BY <1>1, <1>8 DEF TfError, tfDisk, WriteJob
  <2>2. TfTypeOK'
    BY <1>3, <1>4, <1>5, <2>1 DEF TfInv, TfSafe, TfTypeOK
  <2>3. PartsSound' /\ NamesWhole' /\ DoneDelivers'
    BY <1>4, <2>1 DEF TfInv, TfSafe, PartsSound, NamesWhole, DoneDelivers
  <2> QED
    BY <1>6, <1>7, <2>2, <2>3 DEF TfInv, TfSafe
<1>9. CASE tfToClient[1].k = "done" /\ TfDone
  <2>1. PICK n \in 0 .. TfFiles, b \in -1 .. TfBlocks : Reached(n, b)
            /\ Chained(tfToClient, n, b)
    BY MineFacts
  <2>2. n = TfFiles /\ b = -1
    <3>1. Comes(tfToClient[1], n, b)
      BY <1>1, <1>2, <2>1, ChainTailMine
    <3> QED
      BY <1>9, <3>1 DEF Comes
  <2>3. PICK j \in 0 .. TfFiles : j = tfJob.num
    BY <1>1 DEF WriteJob
  <2>4. /\ tfName' = NamedFile(j) /\ tfPart' = Unparted(j) /\ tfDigest' = tfDigest \ {j}
    BY <1>9, <2>3 DEF TfDone
  <2>5. /\ NamedFile(j) \in [File -> {NoFile, Old} \cup Content]
        /\ Unparted(j) \in [File -> {NoFile} \cup Content]
        /\ \A f \in File : f # j => NamedFile(j)[f] = tfName[f] /\ Unparted(j)[f] = tfPart[f]
        /\ j \in File => Unparted(j)[j] = NoFile
        /\ j \in File /\ tfPart[j] # NoFile => NamedFile(j)[j] = tfPart[j]
        /\ j \in File /\ tfPart[j] = NoFile => NamedFile(j)[j] = tfName[j]
    BY <1>1, NamingFacts
  <2>6. j \in File => j \in tfOdd \/ tfPart[j] = Whole
    <3>1. Ready(TfFiles)
      BY <2>1, <2>2 DEF Reached
    <3> QED
      BY <2>3, <3>1 DEF Ready, Behind, File
  <2>7. TfTypeOK'
    BY <1>1, <1>3, <1>4, <1>5, <2>4, <2>5 DEF TfInv, TfSafe, TfTypeOK
  <2>8. PartsSound'
    <3>1. ASSUME NEW f \in File
          PROVE  /\ tfPart'[f] # NoFile <=> f \in tfDigest'
                 /\ tfPart'[f] # NoFile => Len(tfPart'[f]) <= TfBlocks
                 /\ f \notin tfOdd' => \/ tfPart'[f] = NoFile
                                       \/ \E k \in 1 .. TfBlocks : tfPart'[f] = Front(k)
      <4>1. CASE f = j
        BY <2>4, <2>5, <4>1
      <4>2. CASE f # j
        BY <1>4, <2>4, <2>5, <4>2 DEF TfInv, PartsSound
      <4> QED
        BY <4>1, <4>2
    <3> QED
      BY <3>1 DEF PartsSound
  <2>9. NamesWhole'
    <3>1. ASSUME NEW f \in File, f \notin tfOdd' PROVE tfName'[f] \in {NoFile, Old, Whole}
      <4>1. tfName[f] \in {NoFile, Old, Whole}
        BY <1>4, <3>1 DEF TfInv, TfSafe, NamesWhole
      <4> QED
        BY <1>4, <2>4, <2>5, <2>6, <3>1, <4>1
    <3> QED
      BY <3>1 DEF NamesWhole
  <2>10. DoneDelivers'
    <3>1. ASSUME NEW f \in File, f \notin tfSkipped', f \notin tfOdd' PROVE tfName'[f] = Whole
      <4>1. f \notin tfSkipped /\ f \notin tfOdd /\ f < TfFiles
        BY <1>4, <3>1 DEF File
      <4>2. Settled(f)
        BY <2>1, <2>2, <4>1 DEF Reached
      <4>3. CASE f = j
        BY <2>4, <2>5, <2>6, <4>1, <4>3, FrontFacts
      <4>4. CASE f # j
        BY <2>3, <2>4, <2>5, <4>1, <4>2, <4>4 DEF Settled
      <4> QED
        BY <4>3, <4>4
    <3> QED
      BY <3>1 DEF DoneDelivers
  <2> QED
    BY <1>6, <1>7, <2>7, <2>8, <2>9, <2>10 DEF TfInv, TfSafe
<1> QED
  BY <1>8, <1>9

(* A message from the host, as the four lemmas above have it.              *)
LEMMA ClientRecvStep == ASSUME TfInv, TfClientRecv PROVE TfInv'
<1>1. tfToClient # <<>> /\ tfToClient' = Tail(tfToClient) /\ Head(tfToClient) = tfToClient[1]
  BY DEF TfClientRecv, TfInv, TfSafe, TfTypeOK
<1>2. UNCHANGED <<tfRead, tfBad, tfStarted, tfBreaks>>
  BY DEF TfClientRecv
<1>3. PICK m : m = tfToClient[1]
  OBVIOUS
<1>4. \/ ~Mine(m) /\ UNCHANGED <<tfDisk, tfJob, tfToHost, tfAsked, tfSkipped, tfOdd>>
      \/ Mine(m) /\ m.k = "digest" /\ TfDigest(m)
      \/ Mine(m) /\ m.k = "block" /\ TfBlock(m)
      \/ Mine(m) /\ ((m.k = "done" /\ TfDone) \/ (m.k = "error" /\ TfError))
  BY <1>1, <1>3 DEF TfClientRecv
<1>5. CASE ~Mine(m) /\ UNCHANGED <<tfDisk, tfJob, tfToHost, tfAsked, tfSkipped, tfOdd>>
  BY <1>1, <1>2, <1>3, <1>5, OtherStep DEF tfDisk
<1>6. CASE Mine(m) /\ m.k = "digest" /\ TfDigest(m)
  BY <1>1, <1>2, <1>3, <1>6, DigestStep
<1>7. CASE Mine(m) /\ m.k = "block" /\ TfBlock(m)
  BY <1>1, <1>2, <1>3, <1>7, BlockStep
<1>8. CASE Mine(m) /\ ((m.k = "done" /\ TfDone) \/ (m.k = "error" /\ TfError))
  BY <1>1, <1>2, <1>3, <1>8, EndStep
<1> QED
  BY <1>4, <1>5, <1>6, <1>7, <1>8

(* The user's answer.                                                      *)
LEMMA AnswerStep == ASSUME TfInv, NEW over \in BOOLEAN, TfAnswer(over) PROVE TfInv'
<1> USE TfBounds
<1>1. /\ tfToClient \in Seq(ClientMsg) /\ tfJob \in WriteJob /\ tfStarted \in Nat
      /\ tfSkipped \subseteq File /\ Len(tfToClient) \in Nat
  BY DEF TfInv, TfSafe, TfTypeOK
<1>2. /\ tfAsked # Nobody /\ Confirm(tfAsked, ~over, 0) /\ tfAsked' = Nobody
      /\ tfSkipped' = (IF over THEN tfSkipped \ {tfAsked} ELSE tfSkipped \cup {tfAsked})
      /\ UNCHANGED <<tfName, tfPart, tfDigest, tfRead, tfToClient, tfBad, tfStarted, tfBreaks,
                     tfOdd>>
  BY DEF TfAnswer, tfDisk
<1>3. tfJob.st = "run" /\ Talking
  <2>1. ~Requested /\ ~NothingUnderWay(Len(tfToHost))
    BY <1>2 DEF Requested, NothingUnderWay
  <2> QED
    BY <1>1, <1>2, <2>1 DEF TfInv, Conversation, WriteJob
<1>4. PICK n \in 0 .. TfFiles, b \in -1 .. TfBlocks :
        Reached(n, b) /\ Chained(tfToClient, n, b) /\ HostEnd(n, b)
  BY <1>3 DEF Talking
<1>5. UserAsked(n, b)
  BY <1>2, <1>4 DEF HostEnd, HostOver, HostSends, HostAsks, HostAnswered
<1>6. /\ HostWaits /\ tfToHost = <<>> /\ tfAsked = n /\ n = tfRead.num /\ n \in File
      /\ Reached(n, -1) /\ ~Resumable(n) /\ ~Pending
  BY <1>4, <1>5 DEF UserAsked, HostWaits
<1>7. \A i \in 1 .. Len(tfToClient) : ~OfJob(tfToClient[i])
  BY <1>1, <1>4, <1>6 DEF Pending, Chained
<1>8. /\ tfJob' = WriteConfirm(tfJob, n, ~over, 0)
      /\ tfToHost' = Append(tfToHost, [k |-> "confirm", id |-> tfJob.id, num |-> n,
                                       skip |-> ~over, off |-> 0])
  BY <1>2, <1>6 DEF Confirm
<1>9. /\ Len(tfToClient') \in Nat
      /\ \A i \in 1 .. Len(tfToClient') : tfToClient'[i].id # tfJob.id
  BY <1>1, <1>2, <1>7 DEF OfJob
<1>10. 0 \in 0 .. TfBlocks /\ 0 \in -1 .. TfBlocks /\ -1 \in -1 .. TfBlocks
  OBVIOUS
<1>11. /\ tfJob' \in WriteJob /\ tfJob'.st = "run" /\ tfJob'.id = tfJob.id
       /\ tfToHost' \in Seq(HostMsg) /\ Talking'
       /\ \A i \in 1 .. Len(tfToHost') : tfToHost'[i].id = tfJob.id
  <2>1. CASE over
    <3>1. /\ tfJob' = WriteConfirm(tfJob, n, FALSE, 0)
          /\ tfToHost' = Append(tfToHost, [k |-> "confirm", id |-> tfJob.id, num |-> n,
                                           skip |-> FALSE, off |-> 0])
          /\ tfSkipped' \in {tfSkipped, tfSkipped \ {n}} /\ FALSE \in BOOLEAN
      BY <1>2, <1>6, <1>8, <2>1
    <3>2. tfJob' = tfJob /\ Reached(n, 0)'
      BY <1>2, <1>6, <3>1, ConfirmOver
    <3>3. /\ tfToHost' \in Seq(HostMsg) /\ Talking'
          /\ \A i \in 1 .. Len(tfToHost') : tfToHost'[i].id = tfJob.id
      BY <1>2, <1>6, <1>9, <1>10, <3>1, <3>2, AnswerGiven
    <3> QED
      BY <1>1, <1>3, <3>2, <3>3
  <2>2. CASE ~over
    <3>1. /\ tfJob' = WriteConfirm(tfJob, n, TRUE, 0)
          /\ tfToHost' = Append(tfToHost, [k |-> "confirm", id |-> tfJob.id, num |-> n,
                                           skip |-> TRUE, off |-> 0])
          /\ tfSkipped' = tfSkipped \cup {n} /\ TRUE \in BOOLEAN
      BY <1>2, <1>6, <1>8, <2>2
    <3>2. /\ tfJob' \in WriteJob /\ tfJob'.st = tfJob.st /\ tfJob'.id = tfJob.id
          /\ n + 1 \in 0 .. TfFiles /\ Reached(n + 1, -1)'
      BY <1>2, <1>6, <3>1, ConfirmSkip
    <3>3. PICK a \in 0 .. TfFiles : a = n + 1
      BY <3>2
    <3>4. Reached(a, -1)'
      BY <3>2, <3>3
    <3>5. /\ tfToHost' \in Seq(HostMsg) /\ Talking'
          /\ \A i \in 1 .. Len(tfToHost') : tfToHost'[i].id = tfJob.id
      BY <1>2, <1>6, <1>9, <1>10, <3>1, <3>2, <3>3, <3>4, AnswerGiven
    <3> QED
      BY <1>3, <3>2, <3>5
  <2> QED
    BY <2>1, <2>2
<1>12. TfTypeOK'
  <2>1. tfSkipped' \subseteq File
    BY <1>1, <1>2, <1>6
  <2> QED
    BY <1>2, <1>11, <2>1 DEF TfInv, TfSafe, TfTypeOK
<1>13. PartsSound' /\ NamesWhole' /\ DoneDelivers' /\ ReadSound'
  BY <1>2, <1>11 DEF TfInv, TfSafe, PartsSound, NamesWhole, DoneDelivers, ReadSound
<1>14. IdsKnown'
  <2>1. \A i \in 1 .. Len(tfToHost') : tfToHost'[i].id <= tfStarted'
    BY <1>1, <1>2, <1>11 DEF TfInv, IdsKnown
  <2> QED
    BY <1>1, <1>2, <1>3, <1>11, <2>1 DEF TfInv, IdsKnown
<1> QED
  BY <1>11, <1>12, <1>13, <1>14 DEF TfInv, TfSafe, Conversation

(* The user starts a job.                                                  *)
LEMMA StartStep == ASSUME TfInv, TfStart PROVE TfInv'
<1> USE TfBounds
<1> DEFINE m == [k |-> "send", id |-> tfStarted + 1, num |-> 0]
<1>1. /\ tfToHost \in Seq(HostMsg) /\ tfToClient \in Seq(ClientMsg) /\ tfJob \in WriteJob
      /\ tfRead \in ReadJob /\ tfStarted \in 0 .. TfMaxJobs
  BY DEF TfInv, TfSafe, TfTypeOK
<1>2. /\ tfJob.st # "run" /\ tfStarted' = tfStarted + 1 /\ tfStarted' \in 0 .. TfMaxJobs
      /\ tfJob' = [st |-> "run", id |-> tfStarted + 1, num |-> 0, open |-> FALSE,
                   resume |-> FALSE]
      /\ tfToHost' = Append(tfToHost, m) /\ tfSkipped' = {}
      /\ UNCHANGED <<tfName, tfPart, tfDigest, tfRead, tfToClient, tfAsked, tfBad, tfBreaks,
                     tfOdd>>
  BY <1>1 DEF TfStart, tfDisk
<1>3. tfAsked = Nobody
  BY <1>1, <1>2 DEF TfInv, Conversation, NothingUnderWay, WriteJob
<1>4. m \in HostMsg /\ m.id = tfStarted + 1 /\ m.k = "send" /\ m.num = 0
  BY <1>1 DEF HostMsg
<1>5. /\ tfJob' \in WriteJob /\ tfJob'.st = "run" /\ tfJob'.id = tfStarted + 1 /\ tfJob'.num = 0
      /\ ~tfJob'.open
  BY <1>1, <1>2 DEF WriteJob
<1>6. m = [k |-> "send", id |-> tfJob'.id, num |-> tfJob'.num]
  BY <1>5
<1> HIDE DEF m
<1>7. /\ tfToHost' \in Seq(HostMsg) /\ Len(tfToHost) \in Nat
      /\ Len(tfToHost') = Len(tfToHost) + 1
      /\ \A i \in 1 .. Len(tfToHost) : tfToHost'[i] = tfToHost[i]
      /\ tfToHost'[Len(tfToHost')] = m
  BY <1>1, <1>2, <1>4, PutLast
<1>8. TfTypeOK'
  BY <1>2, <1>5, <1>7 DEF TfInv, TfSafe, TfTypeOK
<1>9. PartsSound' /\ NamesWhole' /\ DoneDelivers' /\ ReadSound'
  BY <1>2, <1>5 DEF TfInv, TfSafe, PartsSound, NamesWhole, DoneDelivers, ReadSound
<1>10. /\ tfRead.id <= tfStarted /\ tfRead.id \in Nat
       /\ \A i \in 1 .. Len(tfToHost) : tfToHost[i].id <= tfStarted /\ tfToHost[i].id \in Nat
       /\ \A i \in 1 .. Len(tfToClient) :
             tfToClient[i].id <= tfStarted /\ tfToClient[i].id \in Nat
  <2>1. \A i \in 1 .. Len(tfToHost) : tfToHost[i] \in HostMsg
    BY <1>1
  <2>2. \A i \in 1 .. Len(tfToClient) : tfToClient[i] \in ClientMsg
    BY <1>1
  <2>3. tfRead.id \in Nat
    BY <1>1 DEF ReadJob
  <2> QED
    BY <2>1, <2>2, <2>3, HostMsgFields, ClientMsgFields DEF TfInv, IdsKnown
<1>11. IdsKnown'
  <2>1. \A i \in 1 .. Len(tfToHost') : tfToHost'[i].id <= tfStarted + 1
    BY <1>1, <1>4, <1>7, <1>10
  <2>2. \A i \in 1 .. Len(tfToClient) : tfToClient[i].id <= tfStarted + 1
    BY <1>1, <1>10
  <2> QED
    BY <1>1, <1>2, <1>5, <1>10, <2>1, <2>2 DEF IdsKnown
<1>12. Requested'
  <2>1. Reached(0, -1)'
    BY <1>2, <1>5 DEF Reached, Ready, File
  <2>2. Reached(tfJob.num, -1)'
    BY <1>5, <2>1
  <2>3. \A i \in 1 .. Len(tfToHost') - 1 : tfToHost'[i].id # tfJob'.id
    BY <1>1, <1>5, <1>7, <1>10
  <2>4. \A i \in 1 .. Len(tfToClient') : ~OfJob(tfToClient[i])'
    BY <1>1, <1>2, <1>5, <1>10 DEF OfJob
  <2>5. tfRead'.id # tfJob'.id
    BY <1>1, <1>2, <1>5, <1>10
  <2>6. NothingUnderWay(Len(tfToHost) - 1)'
    BY <1>2, <1>3, <1>5, <2>2, <2>3, <2>4, <2>5 DEF NothingUnderWay
  <2> QED
    BY <1>6, <1>7, <2>6 DEF Requested
<1> QED
  BY <1>5, <1>8, <1>9, <1>11, <1>12 DEF TfInv, TfSafe, Conversation

(* The user resumes the job of a connection that broke.                    *)
LEMMA ResumeStep == ASSUME TfInv, TfResume PROVE TfInv'
<1> USE TfBounds
<1> DEFINE m == [k |-> "send", id |-> tfJob.id, num |-> tfJob.num]
<1>1. /\ tfToHost \in Seq(HostMsg) /\ tfToClient \in Seq(ClientMsg) /\ tfJob \in WriteJob
      /\ tfRead \in ReadJob /\ tfStarted \in Nat
  BY DEF TfInv, TfSafe, TfTypeOK
<1>2. /\ tfJob.st = "last" /\ tfJob' = [tfJob EXCEPT !.st = "run", !.resume = TRUE]
      /\ tfToHost' = Append(tfToHost, m)
      /\ UNCHANGED <<tfName, tfPart, tfDigest, tfRead, tfToClient, tfAsked, tfBad, tfStarted,
                     tfBreaks, tfSkipped, tfOdd>>
  BY DEF TfResume, tfDisk, tfHist
<1>3. NothingUnderWay(Len(tfToHost)) /\ tfStarted >= 1 /\ tfJob.id = tfStarted
  BY <1>2 DEF TfInv, Conversation, IdsKnown
<1>4. m \in HostMsg /\ m.id = tfJob.id /\ m.k = "send" /\ m.num = tfJob.num
  BY <1>1 DEF HostMsg, WriteJob
<1>5. /\ tfJob' \in WriteJob /\ tfJob'.st = "run" /\ tfJob'.id = tfJob.id
      /\ tfJob'.num = tfJob.num /\ tfJob'.open = tfJob.open
  BY <1>1, <1>2 DEF WriteJob
<1>6. m = [k |-> "send", id |-> tfJob'.id, num |-> tfJob'.num]
  BY <1>5
<1> HIDE DEF m
<1>7. /\ tfToHost' \in Seq(HostMsg) /\ Len(tfToHost) \in Nat
      /\ Len(tfToHost') = Len(tfToHost) + 1
      /\ \A i \in 1 .. Len(tfToHost) : tfToHost'[i] = tfToHost[i]
      /\ tfToHost'[Len(tfToHost')] = m
  BY <1>1, <1>2, <1>4, PutLast
<1>8. TfTypeOK'
  BY <1>2, <1>5, <1>7 DEF TfInv, TfSafe, TfTypeOK
<1>9. PartsSound' /\ NamesWhole' /\ DoneDelivers' /\ ReadSound'
  BY <1>2, <1>5 DEF TfInv, TfSafe, PartsSound, NamesWhole, DoneDelivers, ReadSound
<1>10. IdsKnown'
  <2>1. \A i \in 1 .. Len(tfToHost') : tfToHost'[i].id <= tfStarted
    BY <1>1, <1>3, <1>4, <1>7 DEF TfInv, IdsKnown
  <2> QED
    BY <1>2, <1>3, <1>5, <2>1 DEF TfInv, IdsKnown
<1>11. Requested'
  <2>1. PICK j : j = tfJob.num
    OBVIOUS
  <2>2. Reached(j, -1)
    BY <1>3, <2>1 DEF NothingUnderWay
  <2>3. Reached(j, -1)'
    <3>1. ASSUME NEW f \in File, f < j PROVE Settled(f)'
      BY <1>2, <1>5, <2>2, <3>1 DEF Reached, Settled
    <3>2. Ready(j)
      BY <2>2 DEF Reached
    <3>3. Ready(j)'
      BY <1>2, <1>5, <3>2 DEF Ready, Behind
    <3>4. \A f \in File : f < j => Settled(f)'
      BY <3>1
    <3>5. \A f \in tfSkipped' : f < j /\ f # tfJob'.num
      BY <1>2, <1>5, <2>2 DEF Reached
    <3> QED
      BY ONLY <3>3, <3>4, <3>5 DEF Reached
  <2>4. Reached(tfJob.num, -1)'
    BY <1>5, <2>1, <2>3
  <2>5. \A i \in 1 .. Len(tfToHost') - 1 : tfToHost'[i].id # tfJob'.id
    BY <1>3, <1>5, <1>7 DEF NothingUnderWay
  <2>6. NothingUnderWay(Len(tfToHost) - 1)'
    BY <1>2, <1>3, <1>5, <2>4, <2>5 DEF NothingUnderWay, OfJob
  <2> QED
    BY <1>6, <1>7, <2>6 DEF Requested
<1> QED
  BY <1>5, <1>8, <1>9, <1>10, <1>11 DEF TfInv, TfSafe, Conversation

(* The user cancels the job.                                               *)
LEMMA CancelStep == ASSUME TfInv, TfCancel PROVE TfInv'
<1> USE TfBounds
<1> DEFINE m == [k |-> "cancel", id |-> tfJob.id, num |-> 0]
<1>1. /\ tfToHost \in Seq(HostMsg) /\ tfJob \in WriteJob /\ tfStarted \in Nat /\ TfTypeOK
      /\ tfDigest \subseteq File
  BY DEF TfInv, TfSafe, TfTypeOK
<1>2. PICK j \in 0 .. TfFiles : j = tfJob.num
  BY <1>1 DEF WriteJob
<1>3. /\ tfJob' = [tfJob EXCEPT !.st = "idle"] /\ tfToHost' = Append(tfToHost, m)
      /\ tfPart' = Unparted(j) /\ tfDigest' = tfDigest \ {j} /\ tfAsked' = Nobody
      /\ UNCHANGED <<tfName, tfRead, tfToClient, tfBad, tfStarted, tfBreaks, tfSkipped, tfOdd>>
  BY <1>2 DEF TfCancel, tfHist
<1>4. m \in HostMsg /\ m.id = tfJob.id
  BY <1>1 DEF HostMsg, WriteJob
<1> HIDE DEF m
<1>5. /\ tfToHost' \in Seq(HostMsg) /\ Len(tfToHost) \in Nat
      /\ Len(tfToHost') = Len(tfToHost) + 1
      /\ \A i \in 1 .. Len(tfToHost) : tfToHost'[i] = tfToHost[i]
      /\ tfToHost'[Len(tfToHost) + 1] = m
  BY <1>1, <1>3, <1>4, PutLast
<1>6. tfJob' \in WriteJob /\ tfJob'.st = "idle" /\ tfJob'.id = tfJob.id
  BY <1>1, <1>3 DEF WriteJob
<1>7. /\ Unparted(j) \in [File -> {NoFile} \cup Content]
      /\ \A f \in File : f # j => Unparted(j)[f] = tfPart[f]
      /\ j \in File => Unparted(j)[j] = NoFile
  BY <1>1, NamingFacts
<1>8. TfTypeOK'
  BY <1>1, <1>3, <1>5, <1>6, <1>7 DEF TfTypeOK
<1>9. PartsSound'
  <2>1. ASSUME NEW f \in File
        PROVE  /\ tfPart'[f] # NoFile <=> f \in tfDigest'
               /\ tfPart'[f] # NoFile => Len(tfPart'[f]) <= TfBlocks
               /\ f \notin tfOdd' => \/ tfPart'[f] = NoFile
                                     \/ \E k \in 1 .. TfBlocks : tfPart'[f] = Front(k)
    <3>1. CASE f = j
      BY <1>3, <1>7, <3>1
    <3>2. CASE f # j
      BY <1>3, <1>7, <3>2 DEF TfInv, PartsSound
    <3> QED
      BY <3>1, <3>2
  <2> QED
    BY <2>1 DEF PartsSound
<1>10. NamesWhole' /\ DoneDelivers' /\ ReadSound'
  BY <1>3, <1>6 DEF TfInv, TfSafe, NamesWhole, DoneDelivers, ReadSound
<1>11. IdsKnown'
  <2>1. \A i \in 1 .. Len(tfToHost') : tfToHost'[i].id <= tfStarted
    BY <1>1, <1>4, <1>5 DEF TfInv, IdsKnown
  <2> QED
    BY <1>3, <1>6, <2>1 DEF TfInv, IdsKnown
<1>12. Conversation'
  BY <1>3, <1>6 DEF Conversation
<1> QED
  BY <1>8, <1>9, <1>10, <1>11, <1>12 DEF TfInv, TfSafe

(* The connection breaks: of a job that ran, the file it stands at is what *)
(* it will be resumed with.                                                *)
LEMMA BreakStep == ASSUME TfInv, TfBreak PROVE TfInv'
<1> USE TfBounds
<1>1. /\ tfJob \in WriteJob /\ tfStarted \in Nat /\ tfBreaks \in 0 .. TfMaxBreaks
  BY DEF TfInv, TfSafe, TfTypeOK
<1>2. PICK st \in {"last", "idle"} :
        tfJob' = IF tfJob.st = "run" THEN [tfJob EXCEPT !.st = st, !.open = FALSE] ELSE tfJob
  BY DEF TfBreak
<1>3. /\ tfRead' = NoReadJob /\ tfToClient' = <<>> /\ tfToHost' = <<>> /\ tfAsked' = Nobody
      /\ tfBreaks' \in 0 .. TfMaxBreaks
      /\ UNCHANGED <<tfName, tfPart, tfDigest, tfBad, tfStarted, tfOdd>>
     
     
     
      /\ tfSkipped' = (IF tfJob.st = "run" THEN {f \in tfSkipped : f < tfJob.num} ELSE tfSkipped)
      /\ tfSkipped' \subseteq tfSkipped
  BY <1>1 DEF TfBreak, tfDisk
<1>4. /\ tfJob' \in WriteJob /\ tfJob'.id = tfJob.id /\ tfJob'.num = tfJob.num
      /\ tfJob'.st = "done" => tfJob.st = "done"
      /\ tfJob'.st \in {"run", "last"} => tfJob.st \in {"run", "last"}
      /\ tfJob'.st # "run"
      /\ tfJob'.open => tfJob.open /\ tfJob.st # "run"
      /\ tfJob'.st = "done" => tfSkipped' = tfSkipped
  <2>1. CASE tfJob.st = "run"
    <3>1. tfJob' = [tfJob EXCEPT !.st = st, !.open = FALSE]
      BY <1>2, <2>1
    <3> QED
      BY <1>1, <2>1, <3>1 DEF WriteJob
  <2>2. CASE tfJob.st # "run"
    BY <1>1, <1>2, <1>3, <2>2
  <2> QED
    BY <2>1, <2>2
<1>5. /\ tfRead' \in ReadJob /\ ~tfRead'.waiting /\ ~tfRead'.open /\ tfRead'.id = 0
      /\ tfToClient' \in Seq(ClientMsg) /\ tfToHost' \in Seq(HostMsg)
      /\ Len(tfToClient') = 0 /\ Len(tfToHost') = 0
  BY <1>3 DEF NoReadJob, ReadJob
<1>6. TfTypeOK'
  BY <1>3, <1>4, <1>5 DEF TfInv, TfSafe, TfTypeOK
<1>7. PartsSound' /\ NamesWhole' /\ DoneDelivers' /\ ReadSound'
  BY <1>3, <1>4, <1>5 DEF TfInv, TfSafe, PartsSound, NamesWhole, DoneDelivers, ReadSound
<1>8. IdsKnown'
  <2>1. /\ \A i \in 1 .. Len(tfToHost') : tfToHost'[i].id <= tfStarted'
        /\ \A i \in 1 .. Len(tfToClient') : tfToClient'[i].id <= tfStarted'
    BY ONLY <1>5
  <2> QED
    BY <1>1, <1>3, <1>4, <1>5, <2>1 DEF TfInv, IdsKnown
<1>9. ASSUME tfJob'.st = "last" PROVE NothingUnderWay(Len(tfToHost))'
  <2>1. tfStarted >= 1 /\ tfJob.id = tfStarted /\ tfJob.st \in {"run", "last"}
    BY <1>4, <1>9 DEF TfInv, IdsKnown
  <2>2. PICK j \in 0 .. TfFiles : j = tfJob.num
    BY <1>1 DEF WriteJob
  <2>3. ASSUME NEW f \in File, f < j PROVE Settled(f)
    <3>1. ASSUME Reached(tfJob.num, -1) PROVE Settled(f)
      BY <2>2, <2>3, <3>1 DEF Reached
    <3>2. ASSUME NEW n \in 0 .. TfFiles, NEW b \in -1 .. TfBlocks, Reached(n, b)
          PROVE  Settled(f)
      <4>1. j <= n
        BY <2>2, <3>2 DEF Reached, Ready, Behind
      <4>2. f < n
        BY <2>3, <4>1 DEF File
      <4> QED
        BY <3>2, <4>2 DEF Reached
    <3>3. \/ Reached(tfJob.num, -1)
          \/ \E n \in 0 .. TfFiles, b \in -1 .. TfBlocks : Reached(n, b)
      BY <2>1 DEF TfInv, Conversation, Requested, NothingUnderWay, Talking
    <3> QED
      BY <3>1, <3>2, <3>3
  <2>4. ~tfJob'.open
    BY <1>4, <1>9, <2>1 DEF TfInv, Conversation, NothingUnderWay
  <2>5. \A f \in File : f < j => Settled(f)'
    <3>1. ASSUME NEW f \in File, f < j PROVE Settled(f)'
      <4>1. Settled(f) /\ f # j
        BY <2>2, <2>3, <3>1 DEF File
      <4>2. f \in tfSkipped => f \in tfSkipped'
        BY <1>3, <2>2, <3>1
      <4> QED
        BY <1>3, <2>2, <4>1, <4>2 DEF Settled
    <3> QED
      BY <3>1
  <2>6. tfJob'.num = j
    BY <1>4, <2>2
  <2>11. \A f \in tfSkipped' : f < j /\ f # tfJob'.num
    <3>1. CASE tfJob.st = "run"
      <4>1. \A f \in File : f \in Nat
        BY DEF File
      <4>2. \A f \in tfSkipped' : f \in File /\ f < j
        BY <1>3, <2>2, <3>1 DEF TfInv, TfSafe, TfTypeOK
      <4> QED
        BY <2>2, <2>6, <4>1, <4>2
    <3>2. CASE tfJob.st = "last"
      <4>1. Reached(tfJob.num, -1)
        BY <3>2 DEF TfInv, Conversation, NothingUnderWay
      <4>2. \A f \in tfSkipped : f < tfJob.num /\ f # tfJob.num
        BY <4>1 DEF Reached
      <4> QED
        BY <1>3, <2>2, <2>6, <4>2
    <3> QED
      BY <2>1, <3>1, <3>2
  <2>7. Reached(j, -1)'
    BY ONLY <2>4, <2>5, <2>6, <2>11 DEF Reached, Ready
  <2>8. Reached(tfJob.num, -1)'
    BY <2>6, <2>7
  <2>9. tfRead'.id # tfJob'.id
    BY <1>4, <1>5, <2>1
  <2>10. /\ \A i \in 1 .. Len(tfToHost') : tfToHost'[i].id # tfJob'.id
         /\ \A i \in 1 .. Len(tfToClient') : ~OfJob(tfToClient[i])'
    BY ONLY <1>5
  <2> QED
    BY <1>3, <2>4, <2>8, <2>9, <2>10 DEF NothingUnderWay
<1>10. Conversation'
  BY <1>3, <1>4, <1>9 DEF Conversation
<1> QED
  BY <1>6, <1>7, <1>8, <1>10 DEF TfInv, TfSafe

(* Every step of the host, the client, the user and the connection keeps   *)
(* the invariant.                                                          *)
LEMMA TfStep == ASSUME TfInv, [TfNext]_tfVars PROVE TfInv'
<1>1. CASE UNCHANGED tfVars
  <2>1. TfSafe' /\ PartsSound' /\ IdsKnown' /\ ReadSound'
    BY <1>1 DEF tfVars, TfInv, TfSafe, TfTypeOK, NamesWhole, DoneDelivers, PartsSound,
       IdsKnown, ReadSound
  <2>2. Conversation'
    <3>1. \A x : Settled(x) <=> Settled(x)'
      BY <1>1 DEF tfVars, Settled
    <3>2. \A x : Ready(x) <=> Ready(x)'
      BY <1>1 DEF tfVars, Ready, Behind
    <3>3. \A x : Behind(x) <=> Behind(x)'
      BY <1>1 DEF tfVars, Behind
    <3>4. \A x, y : Reached(x, y) => Reached(x, y)'
      BY <1>1, <3>1, <3>2, <3>3 DEF tfVars, Reached
    <3>5. NothingUnderWay(Len(tfToHost)) => NothingUnderWay(Len(tfToHost))'
      BY <1>1, <3>4 DEF tfVars, NothingUnderWay, OfJob
    <3>6. Requested => Requested'
      BY <1>1, <3>4 DEF tfVars, Requested, NothingUnderWay, OfJob
    <3>7. \A x, y : Chained(tfToClient, x, y) => Chained(tfToClient, x, y)'
      BY <1>1 DEF tfVars, Chained, OfJob, Comes, NumAfter, BlockAfter
    <3>8. ASSUME NEW x, NEW y, HostEnd(x, y) PROVE HostEnd(x, y)'
      <4>1. /\ Pending' <=> Pending
            /\ LastMsg' = LastMsg /\ HostBlock' = HostBlock
            /\ HostWaits' <=> HostWaits
            /\ Serves(FALSE, FALSE)' <=> Serves(FALSE, FALSE)
            /\ Serves(TRUE, TRUE)' <=> Serves(TRUE, TRUE)
            /\ Resumable(x)' <=> Resumable(x)
        BY <1>1 DEF tfVars, Pending, LastMsg, OfJob, HostBlock, HostWaits, Serves,
           Resumable, HasPart
      <4>2. HostOver => HostOver'
        BY <1>1, <4>1 DEF tfVars, HostOver
      <4>3. HostSends(x, y) => HostSends(x, y)'
        BY <1>1, <4>1 DEF tfVars, HostSends, NumAfter, BlockAfter
      <4>4. HostAsks => HostAsks'
        BY <1>1, <4>1 DEF tfVars, HostAsks
      <4>5. UserAsked(x, y) => UserAsked(x, y)'
        BY <1>1, <4>1 DEF tfVars, UserAsked
      <4>6. HostAnswered(x, y) => HostAnswered(x, y)'
        BY <1>1, <4>1 DEF tfVars, HostAnswered
      <4> QED
        BY <3>8, <4>2, <4>3, <4>4, <4>5, <4>6 DEF HostEnd
    <3>9. Talking => Talking'
      BY <3>4, <3>7, <3>8 DEF Talking
    <3> QED
      BY <1>1, <3>5, <3>6, <3>9 DEF tfVars, TfInv, Conversation
  <2> QED
    BY <2>1, <2>2 DEF TfInv
<1>2. CASE TfNext
  BY <1>2, HostRecvStep, HostTickStep, ClientRecvStep, StartStep, ResumeStep, CancelStep,
     BreakStep, AnswerStep DEF TfNext
<1> QED
  BY <1>1, <1>2

(* A name never shows a part of a file, and a job that is reported done    *)
(* has delivered every file that was not skipped (fs.rs, io_loop.rs,       *)
(* connection.rs): for every number of files, blocks, jobs and broken      *)
(* connections, but for the files that LeftoverMoved and ResumedLater put  *)
(* in tfOdd.                                                               *)
THEOREM TransferSafe == TfSpec => []TfSafe
<1>1. TfInit => TfInv
  BY TfInitInv
<1>2. TfInv /\ [TfNext]_tfVars => TfInv'
  BY TfStep
<1>3. TfInv => TfSafe
  BY DEF TfInv
<1> QED
  BY <1>1, <1>2, <1>3, PTL DEF TfSpec

(* A file that the user skipped keeps what it has under its name for the   *)
(* rest of the job (SetConfirmOverrideFile in io_loop.rs, confirm in       *)
(* fs.rs): a file gets its name only as the current one of the job, and    *)
(* the job is past every file that was skipped.                            *)
THEOREM SkippedStays == TfSpec => SkippedKept
<1> DEFINE Kept == \A f \in tfSkipped : tfJob'.id = tfJob.id => tfName'[f] = tfName[f]
<1>1. TfInit => TfInv
  BY TfInitInv
<1>2. TfInv /\ [TfNext]_tfVars => TfInv'
  BY TfStep
<1>3. ASSUME TfInv, [TfNext]_tfVars PROVE Kept
  <2>1. TfTypeOK /\ tfSkipped \subseteq File /\ tfJob \in WriteJob
    BY <1>3 DEF TfInv, TfSafe, TfTypeOK
  <2>2. ASSUME TfClientRecv, Mine(tfToClient[1]), tfName' = NamedFile(tfJob.num) PROVE Kept
    <3>1. tfToClient # <<>>
      BY <2>2 DEF TfClientRecv
    <3>2. PICK n \in 0 .. TfFiles, b \in -1 .. TfBlocks : Reached(n, b)
      BY <1>3, <2>2, <3>1, MineFacts
    <3>3. \A f \in tfSkipped : f # tfJob.num
      BY <3>2 DEF Reached
    <3>4. PICK j \in 0 .. TfFiles : j = tfJob.num
      BY <2>1 DEF WriteJob
    <3>5. \A f \in File : f # j => NamedFile(j)[f] = tfName[f]
      BY <2>1, NamingFacts
    <3> QED
      BY <2>1, <2>2, <3>3, <3>4, <3>5
  <2>3. CASE TfClientRecv
    <3>1. Head(tfToClient) = tfToClient[1]
      BY <1>3, <2>3 DEF TfClientRecv, TfInv, TfSafe, TfTypeOK
    <3>2. tfName' = tfName \/ (Mine(tfToClient[1]) /\ tfName' = NamedFile(tfJob.num))
      BY <2>3, <3>1 DEF TfClientRecv, TfDigest, TfBlock, TfDone, TfError, tfDisk
    <3> QED
      BY <2>2, <2>3, <3>2
  <2>4. CASE ~TfClientRecv
    <3>1. tfName' = tfName
      BY <1>3, <2>4 DEF TfNext, TfHostRecv, TfHostTick, TfStart, TfResume, TfCancel,
         TfBreak, TfAnswer, tfDisk, tfVars
    <3> QED
      BY <3>1
  <2> QED
    BY <2>3, <2>4
<1> QED
  BY <1>1, <1>2, <1>3, PTL DEF TfSpec, SkippedKept

-----------------------------------------------------------------------------
(* RdTerminal: terminals.                                                  *)


(* A set of naturals that is not empty has a least member.                 *)
LEMMA MinIn ==
    ASSUME NEW S, S \subseteq Nat, S # {}
    PROVE  Min(S) \in S
<1> DEFINE R == OpToRel(<, Nat)
<1>1. R = {ss \in Nat \X Nat : ss[1] < ss[2]}
  BY DEF OpToRel
<1>2. \E x \in S : \A y \in S : ~ (<<y, x>> \in R)
  BY NatLessThanWellFounded, WFMin
<1>3. PICK x \in S : \A y \in S : ~ (<<y, x>> \in R)
  BY <1>2
<1>4. ASSUME NEW y \in S PROVE x <= y
  <2>1. x \in Nat /\ y \in Nat /\ <<y, x>> \in Nat \X Nat
    OBVIOUS
  <2>2. ~(y < x)
    BY <1>1, <1>3, <2>1
  <2> QED
    BY <2>1, <2>2
<1> QED
  BY <1>4 DEF Min

(* Chunks in the order the shell wrote them, none twice, up to number top. *)
Ordered(q, top) ==
    /\ q \in Seq(Nat)
    /\ \A n \in 1..Len(q) : n <= q[n] /\ q[n] <= top
    /\ \A m, n \in 1..Len(q) : m < n => q[m] < q[n]

(* All the shell wrote.                                                    *)
AllWritten(top) == [n \in 1..top |-> n]

(* Chunks in order, none newer than the bound on events, are few.          *)
LEMMA OrderedChunks ==
    ASSUME NEW q, NEW top \in 0..TmMaxEvents, Ordered(q, top)
    PROVE  q \in Chunks /\ Len(q) <= top
<1>1. q \in Seq(Nat) /\ Len(q) \in Nat /\ q \in [1..Len(q) -> Nat]
  BY DEF Ordered
<1>2. Len(q) <= top
  <2>1. CASE Len(q) = 0
    BY <2>1
  <2>2. CASE Len(q) > 0
    BY <1>1, <2>2 DEF Ordered
  <2> QED
    BY <1>1, <2>1, <2>2
<1>3. \A n \in 1..Len(q) : q[n] \in 1..TmMaxEvents
  BY <1>1, <1>2, TmAssumption DEF Ordered
<1>4. Len(q) \in 0..TmMaxEvents /\ q \in [1..Len(q) -> 1..TmMaxEvents]
  BY <1>1, <1>2, <1>3, TmAssumption
<1> QED
  BY <1>2, <1>4 DEF Chunks

LEMMA ChunksSeq ==
    ASSUME NEW q \in Chunks
    PROVE  q \in Seq(Nat) /\ Len(q) \in Nat /\ DOMAIN q = 1..Len(q)
<1>1. PICK n \in 0..TmMaxEvents : q \in [1..n -> 1..TmMaxEvents]
  BY DEF Chunks
<1>2. n \in Nat /\ \A k \in 1..n : q[k] \in Nat
  BY <1>1, TmAssumption
<1>3. q \in Seq(Nat)
  BY <1>1, <1>2, IsASeq
<1> QED
  BY <1>3, LenProperties

(* What is in order stays so when the shell has written more.              *)
LEMMA OrderedLater ==
    ASSUME NEW q, NEW top \in Nat, NEW later \in Nat, top <= later, Ordered(q, top)
    PROVE  Ordered(q, later)
BY DEF Ordered

(* The chunk after the newest one keeps the order.                         *)
LEMMA OrderedAppend ==
    ASSUME NEW q, NEW top \in Nat, Ordered(q, top)
    PROVE  Ordered(Append(q, top + 1), top + 1)
<1> DEFINE a == Append(q, top + 1)
<1>1. q \in Seq(Nat) /\ Len(q) \in Nat
  BY DEF Ordered
<1>2. Len(q) <= top
  BY <1>1 DEF Ordered
<1>3. a \in Seq(Nat) /\ Len(a) = Len(q) + 1 /\ a[Len(q) + 1] = top + 1
      /\ \A n \in 1..Len(q) : a[n] = q[n]
  BY <1>1, AppendProperties
<1> HIDE DEF a
<1>4. \A n \in 1..Len(q) : q[n] \in Nat /\ q[n] <= top /\ n <= q[n]
  BY <1>1 DEF Ordered
<1>5. \A n \in 1..Len(a) : n <= a[n] /\ a[n] <= top + 1
  BY <1>1, <1>2, <1>3, <1>4
<1>6. ASSUME NEW m \in 1..Len(a), NEW n \in 1..Len(a), m < n PROVE a[m] < a[n]
  <2>1. m \in 1..Len(q)
    BY <1>1, <1>3, <1>6
  <2>2. CASE n = Len(q) + 1
    BY <1>3, <1>4, <2>1, <2>2
  <2>3. CASE n \in 1..Len(q)
    BY <1>3, <1>6, <2>1, <2>3 DEF Ordered
  <2> QED
    BY <1>1, <1>3, <2>2, <2>3
<1> QED
  BY <1>3, <1>5, <1>6 DEF Ordered, a

(* A part of what is in order is in order.                                 *)
LEMMA OrderedPrefix ==
    ASSUME NEW p \in Seq(Nat), NEW q \in Seq(Nat), NEW top, Ordered(p \o q, top)
    PROVE  Ordered(p, top)
<1>1. Len(p) \in Nat /\ Len(q) \in Nat /\ Len(p \o q) = Len(p) + Len(q)
      /\ \A n \in 1..Len(p) : (p \o q)[n] = p[n]
  BY ConcatProperties, LenProperties
<1>2. \A n \in 1..Len(p) : n \in 1..Len(p \o q)
  BY <1>1
<1> QED
  BY <1>1, <1>2 DEF Ordered

LEMMA AllWrittenAppend ==
    ASSUME NEW top \in Nat
    PROVE  Append(AllWritten(top), top + 1) = AllWritten(top + 1)
BY DEF AllWritten

(* Appending to the last of two sequences.                                 *)
LEMMA AppendConcat ==
    ASSUME NEW p \in Seq(Nat), NEW q \in Seq(Nat), NEW x \in Nat
    PROVE  p \o Append(q, x) = Append(p \o q, x)
<1>1. <<x>> \in Seq(Nat) /\ p \o q \in Seq(Nat)
  OBVIOUS
<1>2. Append(q, x) = q \o <<x>> /\ Append(p \o q, x) = (p \o q) \o <<x>>
  BY <1>1, AppendIsConcat
<1> QED
  BY <1>1, <1>2, ConcatAssociative

LEMMA OrderedSuffix ==
    ASSUME NEW p \in Seq(Nat), NEW q \in Seq(Nat), NEW top, Ordered(p \o q, top)
    PROVE  Ordered(q, top)
<1>1. Len(p) \in Nat /\ Len(q) \in Nat /\ Len(p \o q) = Len(p) + Len(q)
      /\ \A n \in 1..Len(q) : (p \o q)[Len(p) + n] = q[n] /\ Len(p) + n \in 1..Len(p \o q)
  BY ConcatProperties, LenProperties
<1>2. \A n \in 1..Len(q) : q[n] \in Nat
  OBVIOUS
<1>3. \A n \in 1..Len(q) : n <= q[n] /\ q[n] <= top
  <2> SUFFICES ASSUME NEW n \in 1..Len(q) PROVE n <= q[n] /\ q[n] <= top
    OBVIOUS
  <2>1. Len(p) + n <= q[n] /\ q[n] <= top
    BY <1>1 DEF Ordered
  <2> QED
    BY <1>1, <1>2, <2>1
<1>4. ASSUME NEW m \in 1..Len(q), NEW n \in 1..Len(q), m < n PROVE q[m] < q[n]
  <2>1. Len(p) + m < Len(p) + n
    BY <1>1, <1>4
  <2> QED
    BY <1>1, <1>4, <2>1 DEF Ordered
<1> QED
  BY <1>3, <1>4 DEF Ordered

LEMMA OrderedEmpty ==
    ASSUME NEW top
    PROVE  Ordered(<<>>, top)
BY DEF Ordered

(* A session, without the bounds that follow from what it holds.           *)
TmRec ==
    [there : BOOLEAN, active : BOOLEAN, pending : Seq(Nat), phase : {"idle", "temp", "restore"},
     left : 0..TmAttempts, chan : Seq(Nat), hist : Seq(Nat), made : Nat, lost : BOOLEAN,
     runs : BOOLEAN, told : BOOLEAN, size : {0, 1, 2}, pty : {0, 1, 2}, missed : BOOLEAN]

(* What the history and the channel hold is what the shell wrote, in order *)
(* and whole unless a chunk was dropped; what waits is older.              *)
Output(s) ==
    /\ Ordered(s.hist \o s.chan, s.made)
    /\ ~s.lost => s.hist \o s.chan = AllWritten(s.made)
    /\ Ordered(s.pending, s.made)
    /\ Len(s.chan) <= TmChannel

(* A phase that is not over has the attempts that did not fail.            *)
Redraw(s, fails) ==
    /\ s.phase # "idle" => s.left + fails >= TmAttempts
    /\ s.active /\ s.phase = "idle" /\ ~s.missed /\ fails < TmAttempts => s.pty = s.size

SessionOK(s, events, fails) ==
    /\ s \in TmRec /\ s.made <= events
    /\ IF s.there THEN s.size \in {1, 2} ELSE s = NoTerminal
    /\ s.active => s.there
    /\ Output(s) /\ Redraw(s, fails)

(* What arrived, what waits and what is in the channel.                    *)
StreamOK(got, s, up, two) ==
    up /\ s.active =>
        /\ Ordered(got \o s.pending \o s.chan, s.made)
        /\ ~s.lost /\ ~two => got \o s.pending \o s.chan = AllWritten(s.made)

TmTyped ==
    /\ tmService \in [there : BOOLEAN, persistent : BOOLEAN, sync : BOOLEAN]
    /\ tmSession \in [TmId -> TmRec]
    /\ tmLoop \subseteq TmConn
    /\ tmCur \in 0..TmMaxConn /\ tmUp \in BOOLEAN
    /\ tmGot \in [TmId -> Chunks]
    /\ tmKnown \subseteq TmId
    /\ tmTwo \in BOOLEAN /\ tmEvents \in 0..TmMaxEvents /\ tmFails \in 0..TmMaxFails

(* The inductive invariant: each session's history and channel are what its*)
(* shell wrote, what the client has or will get continues it, and only the *)
(* latest connection's run loop reads until two have been there at once.   *)
TmInv ==
    /\ TmTyped /\ SurvivorsKnown
    /\ ~tmTwo /\ tmUp => tmLoop \subseteq {tmCur}
    /\ \A i \in TmId : /\ SessionOK(tmSession[i], tmEvents, tmFails)
                       /\ StreamOK(tmGot[i], tmSession[i], tmUp, tmTwo)

(* No terminal, and a terminal just opened.                                *)
LEMMA FreshOK ==
    ASSUME NEW events \in Nat, NEW fails \in Nat
    PROVE  SessionOK(NoTerminal, events, fails) /\ SessionOK(NewSession, events, fails)
<1>1. <<>> \o <<>> = <<>> /\ AllWritten(0) = <<>> /\ Len(<<>>) = 0 /\ <<>> \in Seq(Nat)
  BY DEF AllWritten
<1>2. Ordered(<<>>, 0)
  BY OrderedEmpty
<1>3. NoTerminal \in TmRec /\ NewSession \in TmRec
  <2>1. 0 \in 0..TmAttempts
    BY TmAssumption
  <2>2. NoTerminal \in TmRec
    BY <1>1, <2>1 DEF NoTerminal, TmRec
  <2>3. NewSession \in TmRec
    BY <2>2 DEF NewSession, TmRec
  <2> QED
    BY <2>2, <2>3
<1>4. Output(NoTerminal) /\ Output(NewSession)
  BY <1>1, <1>2, TmAssumption DEF Output, NoTerminal, NewSession
<1>5. Redraw(NoTerminal, fails) /\ Redraw(NewSession, fails)
  BY DEF Redraw, NoTerminal, NewSession
<1> QED
  BY <1>3, <1>4, <1>5 DEF SessionOK, NoTerminal, NewSession

(* A session is right still when more events and failures have been.       *)
LEMMA LaterOK ==
    ASSUME NEW events \in Nat, NEW fails \in Nat, NEW e \in Nat, NEW f \in Nat,
           events <= e, fails <= f, NEW s, SessionOK(s, events, fails)
    PROVE  SessionOK(s, e, f)
<1>1. s.made \in Nat /\ s.left \in Nat /\ TmAttempts \in Nat
  BY TmAssumption DEF SessionOK, TmRec
<1> QED
  BY <1>1 DEF SessionOK, Redraw

(* reset_status: the client is gone, the terminal stays.                   *)
LEMMA ClosedOK ==
    ASSUME NEW events \in Nat, NEW fails \in Nat, NEW s, SessionOK(s, events, fails)
    PROVE  /\ SessionOK([s EXCEPT !.active = FALSE], events, fails)
           /\ [s EXCEPT !.active = FALSE].there = s.there
           /\ ~[s EXCEPT !.active = FALSE].active
<1> DEFINE t == [s EXCEPT !.active = FALSE]
<1>0. s \in TmRec
  BY DEF SessionOK
<1>1. /\ t \in TmRec /\ ~t.active /\ t.there = s.there /\ t.hist = s.hist /\ t.chan = s.chan
      /\ t.made = s.made /\ t.lost = s.lost /\ t.pending = s.pending /\ t.size = s.size
      /\ t.phase = s.phase /\ t.left = s.left
  BY <1>0 DEF TmRec
<1>2. s = NoTerminal => t = NoTerminal
  <2> SUFFICES ASSUME s = NoTerminal PROVE t = s
    OBVIOUS
  <2>1. s.active = FALSE
    BY DEF NoTerminal
  <2> QED
    BY <1>0, <2>1 DEF TmRec
<1> HIDE DEF t
<1> QED
  BY <1>1, <1>2 DEF SessionOK, Output, Redraw, t

(* A terminal opened again: what waits is the history, nothing else.       *)
LEMMA ReopenedOK ==
    ASSUME NEW events \in Nat, NEW fails \in Nat, NEW s, SessionOK(s, events, fails), s.there
    PROVE  /\ SessionOK(Reopened(s), events, fails)
           /\ Reopened(s).there /\ Reopened(s).made = s.made /\ Reopened(s).lost = s.lost
           /\ Reopened(s).pending = s.hist /\ Reopened(s).chan = s.chan
<1> DEFINE t == Reopened(s)
<1>0. s \in TmRec /\ TmAttempts \in Nat
  BY TmAssumption DEF SessionOK
<1>1. /\ t \in TmRec /\ t.there = s.there /\ t.hist = s.hist /\ t.chan = s.chan
      /\ t.made = s.made /\ t.lost = s.lost /\ t.pending = s.hist /\ t.size = s.size
      /\ t.phase = "temp" /\ t.left = TmAttempts
  <2>1. TmAttempts \in 0..TmAttempts
    BY <1>0
  <2>2. t = [s EXCEPT !.active = TRUE, !.pending = s.hist, !.phase = "temp", !.left = TmAttempts]
    BY DEF Reopened
  <2> HIDE DEF t
  <2>3. t \in TmRec
    BY <1>0, <2>1, <2>2 DEF TmRec
  <2> QED
    BY <1>0, <2>2, <2>3 DEF TmRec
<1> HIDE DEF t
<1>2. t.size \in {1, 2}
  BY <1>1 DEF SessionOK, NoTerminal
<1>3. Ordered(s.hist, s.made)
  BY <1>0, OrderedPrefix DEF SessionOK, Output, TmRec
<1>4. Output(t)
  BY <1>1, <1>3 DEF SessionOK, Output
<1>5. Redraw(t, fails)
  BY <1>0, <1>1 DEF Redraw
<1>6. SessionOK(t, events, fails)
  BY <1>1, <1>2, <1>4, <1>5 DEF SessionOK
<1> QED
  BY <1>1, <1>6 DEF t

(* try_send_output, with room in the channel and without.                  *)
LEMMA SentOK ==
    ASSUME NEW events \in Nat, NEW fails \in Nat, NEW s, SessionOK(s, events, fails), s.there
    PROVE  LET t == TrySend(s) IN
           /\ SessionOK(t, events + 1, fails)
           /\ t.there = s.there /\ t.active = s.active /\ t.made = s.made + 1
           /\ t.pending = s.pending
           /\ \/ t.chan = Append(s.chan, s.made + 1) /\ t.lost = s.lost
              \/ t.chan = s.chan /\ t.lost
<1> DEFINE t == TrySend(s)
<1>0. s \in TmRec /\ s.made \in Nat /\ s.made <= events /\ s.size \in {1, 2}
  BY DEF SessionOK, TmRec, NoTerminal
<1>1. /\ s.hist \in Seq(Nat) /\ s.chan \in Seq(Nat) /\ s.pending \in Seq(Nat)
      /\ s.hist \o s.chan \in Seq(Nat)
  BY <1>0 DEF TmRec
<1>2. Append(s.chan, s.made + 1) \in Seq(Nat) /\ Len(Append(s.chan, s.made + 1)) = Len(s.chan) + 1
  BY <1>0, <1>1, AppendProperties
<1>3. /\ t \in TmRec /\ t.there = s.there /\ t.active = s.active /\ t.made = s.made + 1
      /\ t.pending = s.pending /\ t.hist = s.hist /\ t.size = s.size /\ t.phase = s.phase
      /\ t.left = s.left /\ t.pty = s.pty /\ t.missed = s.missed
  <2>1. CASE Len(s.chan) < TmChannel
    <3>1. t = [s EXCEPT !.made = @ + 1, !.chan = Append(@, s.made + 1)]
      BY <2>1 DEF TrySend
    <3> HIDE DEF t
    <3>2. s.made + 1 \in Nat
      BY <1>0
    <3>3. t \in TmRec
      BY <1>0, <1>2, <3>1, <3>2 DEF TmRec
    <3> QED
      BY <1>0, <3>1, <3>3 DEF TmRec
  <2>2. CASE ~(Len(s.chan) < TmChannel)
    <3>1. t = [s EXCEPT !.made = @ + 1, !.lost = TRUE]
      BY <2>2 DEF TrySend
    <3> HIDE DEF t
    <3>2. s.made + 1 \in Nat
      BY <1>0
    <3>3. t \in TmRec
      BY <1>0, <1>2, <3>1, <3>2 DEF TmRec
    <3> QED
      BY <1>0, <3>1, <3>3 DEF TmRec
  <2> QED
    BY <2>1, <2>2
<1>4. /\ Len(s.chan) < TmChannel => t.chan = Append(s.chan, s.made + 1) /\ t.lost = s.lost
      /\ ~(Len(s.chan) < TmChannel) => t.chan = s.chan /\ t.lost
  BY <1>0, <1>2 DEF TmRec, TrySend
<1>5. s.hist \o Append(s.chan, s.made + 1) = Append(s.hist \o s.chan, s.made + 1)
  <2>1. s.made + 1 \in Nat
    BY <1>0
  <2> QED
    BY <1>1, <2>1, AppendConcat
<1> HIDE DEF t
<1>6. Ordered(s.pending, s.made + 1) /\ Ordered(s.hist \o s.chan, s.made + 1)
  BY <1>0, OrderedLater DEF SessionOK, Output
<1>7. Ordered(Append(s.hist \o s.chan, s.made + 1), s.made + 1)
  BY <1>0, OrderedAppend DEF SessionOK, Output
<1>8. Output(t)
  <2>1. CASE Len(s.chan) < TmChannel
    <3>1. t.hist \o t.chan = Append(s.hist \o s.chan, s.made + 1) /\ t.lost = s.lost
      BY <1>3, <1>4, <1>5, <2>1
    <3>2. ~t.lost => t.hist \o t.chan = AllWritten(s.made + 1)
      BY <1>0, <3>1, AllWrittenAppend DEF SessionOK, Output
    <3>3. Len(t.chan) <= TmChannel
      BY <1>1, <1>2, <1>4, <2>1, TmAssumption
    <3> QED
      BY <1>3, <1>6, <1>7, <3>1, <3>2, <3>3 DEF Output
  <2>2. CASE ~(Len(s.chan) < TmChannel)
    BY <1>3, <1>4, <1>6, <2>2 DEF Output, SessionOK
  <2> QED
    BY <2>1, <2>2
<1> QED
  BY <1>0, <1>3, <1>4, <1>8 DEF SessionOK, Redraw, t

(* A resize of the client, and the end of the shell.                       *)
LEMMA ResizedOK ==
    ASSUME NEW events \in Nat, NEW fails \in Nat, NEW s, SessionOK(s, events, fails), s.there
    PROVE  /\ SessionOK([s EXCEPT !.size = 2, !.pty = 2, !.missed = FALSE], events, fails)
           /\ SessionOK([s EXCEPT !.size = 2, !.missed = TRUE], events, fails + 1)
           /\ SessionOK([s EXCEPT !.runs = FALSE], events, fails)
<1>0. s \in TmRec /\ s.size \in {1, 2} /\ s.left \in Nat /\ TmAttempts \in Nat
  BY TmAssumption DEF SessionOK, TmRec, NoTerminal
<1>1. SessionOK([s EXCEPT !.size = 2, !.pty = 2, !.missed = FALSE], events, fails)
  <2> DEFINE t == [s EXCEPT !.size = 2, !.pty = 2, !.missed = FALSE]
  <2>1. /\ t \in TmRec /\ t.there = s.there /\ t.active = s.active /\ t.hist = s.hist
        /\ t.chan = s.chan /\ t.made = s.made /\ t.lost = s.lost /\ t.pending = s.pending
        /\ t.phase = s.phase /\ t.left = s.left /\ t.size = 2 /\ t.pty = 2
    BY <1>0 DEF TmRec
  <2> HIDE DEF t
  <2>2. Redraw(t, fails)
    BY <1>0, <2>1 DEF SessionOK, Redraw
  <2>3. Output(t)
    BY <2>1 DEF SessionOK, Output
  <2>4. SessionOK(t, events, fails)
    BY <1>0, <2>1, <2>2, <2>3 DEF SessionOK
  <2> QED
    BY <2>4 DEF t
<1>2. SessionOK([s EXCEPT !.size = 2, !.missed = TRUE], events, fails + 1)
  <2> DEFINE t == [s EXCEPT !.size = 2, !.missed = TRUE]
  <2>1. /\ t \in TmRec /\ t.there = s.there /\ t.active = s.active /\ t.hist = s.hist
        /\ t.chan = s.chan /\ t.made = s.made /\ t.lost = s.lost /\ t.pending = s.pending
        /\ t.phase = s.phase /\ t.left = s.left /\ t.size = 2 /\ t.missed
    BY <1>0 DEF TmRec
  <2> HIDE DEF t
  <2>2. Redraw(t, fails + 1)
    BY <1>0, <2>1 DEF SessionOK, Redraw
  <2>3. Output(t)
    BY <2>1 DEF SessionOK, Output
  <2>4. SessionOK(t, events, fails + 1)
    BY <1>0, <2>1, <2>2, <2>3 DEF SessionOK
  <2> QED
    BY <2>4 DEF t
<1>3. SessionOK([s EXCEPT !.runs = FALSE], events, fails)
  <2> DEFINE t == [s EXCEPT !.runs = FALSE]
  <2>1. /\ t \in TmRec /\ t.there = s.there /\ t.active = s.active /\ t.hist = s.hist
        /\ t.chan = s.chan /\ t.made = s.made /\ t.lost = s.lost /\ t.pending = s.pending
        /\ t.phase = s.phase /\ t.left = s.left /\ t.size = s.size /\ t.pty = s.pty
        /\ t.missed = s.missed
    BY <1>0 DEF TmRec
  <2> HIDE DEF t
  <2>2. Redraw(t, fails)
    BY <1>0, <2>1 DEF SessionOK, Redraw
  <2>3. Output(t)
    BY <2>1 DEF SessionOK, Output
  <2>4. SessionOK(t, events, fails)
    BY <1>0, <2>1, <2>2, <2>3 DEF SessionOK
  <2> QED
    BY <2>4 DEF t
<1> QED
  BY <1>1, <1>2, <1>3

(* One poll of the redraw.                                                 *)
LEMMA PhaseOK ==
    ASSUME NEW fails \in Nat, NEW f \in Nat, fails <= f, NEW ok \in BOOLEAN,
           NEW s \in TmRec, Redraw(s, fails),
           ok \/ s.phase = "idle" \/ ~(s.left > 0) \/ fails < f,
           NEW t, t = Phase(s, ok)
    PROVE  /\ t \in TmRec /\ Redraw(t, f)
           /\ t.there = s.there /\ t.active = s.active /\ t.hist = s.hist /\ t.chan = s.chan
           /\ t.made = s.made /\ t.lost = s.lost /\ t.pending = s.pending /\ t.size = s.size
<1> DEFINE Same(r) == /\ r.there = s.there /\ r.active = s.active /\ r.hist = s.hist
                      /\ r.chan = s.chan /\ r.made = s.made /\ r.lost = s.lost
                      /\ r.pending = s.pending /\ r.size = s.size
<1>0. /\ s.left \in 0..TmAttempts /\ s.left \in Nat /\ TmAttempts \in Nat \ {0}
      /\ s.phase \in {"idle", "temp", "restore"} /\ (s.left = 0 \/ s.left > 0)
  BY TmAssumption DEF TmRec
<1>1. CASE s.phase = "idle"
  <2>1. t = s
    BY <1>1 DEF Phase
  <2>2. Redraw(t, f)
    BY <1>0, <1>1, <2>1 DEF Redraw
  <2> QED
    BY <2>1, <2>2
<1>2. CASE s.phase # "idle" /\ s.left = 0
  <2>1. t = [s EXCEPT !.phase = "idle"]
    BY <1>2 DEF Phase
  <2>2. t \in TmRec /\ t.phase = "idle" /\ Same(t)
    BY <2>1 DEF TmRec
  <2>3. ~(f < TmAttempts)
    BY <1>0, <1>2 DEF Redraw
  <2> QED
    BY <2>2, <2>3 DEF Redraw
<1>3. CASE s.phase = "temp" /\ s.left > 0 /\ ok
  <2>1. t = [s EXCEPT !.phase = "restore", !.left = TmAttempts, !.pty = 0]
    BY <1>0, <1>3 DEF Phase
  <2>2. TmAttempts \in 0..TmAttempts
    BY <1>0
  <2>3. t \in TmRec /\ t.phase = "restore" /\ t.left = TmAttempts /\ Same(t)
    BY <2>1, <2>2 DEF TmRec
  <2>4. Redraw(t, f)
    BY <1>0, <2>3 DEF Redraw
  <2> QED
    BY <2>3, <2>4
<1>4. CASE s.phase # "idle" /\ s.left > 0 /\ ~ok
  <2>1. t = [s EXCEPT !.left = @ - 1]
    BY <1>0, <1>4 DEF Phase
  <2>2. s.left - 1 \in 0..TmAttempts
    BY <1>0, <1>4
  <2>3. t \in TmRec /\ t.phase = s.phase /\ t.left = s.left - 1 /\ Same(t)
    BY <2>1, <2>2 DEF TmRec
  <2>4. Redraw(t, f)
    BY <1>0, <1>4, <2>3 DEF Redraw
  <2> QED
    BY <2>3, <2>4
<1>5. CASE s.phase = "restore" /\ s.left > 0 /\ ok
  <2>1. t = [s EXCEPT !.phase = "idle", !.left = @ - 1, !.pty = s.size, !.missed = FALSE]
    BY <1>0, <1>5 DEF Phase
  <2>2. s.left - 1 \in 0..TmAttempts
    BY <1>0, <1>5
  <2>3. t \in TmRec /\ t.phase = "idle" /\ t.pty = s.size /\ Same(t)
    BY <2>1, <2>2 DEF TmRec
  <2>4. Redraw(t, f)
    BY <2>3 DEF Redraw
  <2> QED
    BY <2>3, <2>4
<1> QED
  BY <1>0, <1>1, <1>2, <1>3, <1>4, <1>5

(* A session with an empty channel that is otherwise the one it was.       *)
DrainedFrom(t, s, events, fails) ==
    /\ SessionOK(t, events, fails) /\ t.there /\ t.active = s.active /\ t.size \in {1, 2}
    /\ t.made = s.made /\ t.lost = s.lost /\ t.chan = <<>> /\ (s.active => t.pending = <<>>)

(* read_outputs on one session.                                            *)
LEMMA DrainedOK ==
    ASSUME NEW events \in Nat, NEW fails \in Nat, NEW f \in Nat, fails <= f, NEW ok \in BOOLEAN,
           NEW s, SessionOK(s, events, fails), s.there, ~ok /\ Resizes(s) => fails < f
    PROVE  DrainedFrom(Drained(s, ok), s, events, f)
<1> DEFINE d == [s EXCEPT !.chan = <<>>, !.hist = @ \o s.chan]
           p == [d EXCEPT !.pending = <<>>]
<1>0. /\ s \in TmRec /\ s.size \in {1, 2} /\ s.hist \in Seq(Nat) /\ s.chan \in Seq(Nat)
      /\ s.active \in BOOLEAN /\ s.pending \in Seq(Nat) /\ s.made \in Nat /\ s.made <= events
  BY DEF SessionOK, TmRec, NoTerminal
<1>1. s.hist \o s.chan \in Seq(Nat) /\ <<>> \in Seq(Nat) /\ (s.hist \o s.chan) \o <<>> = s.hist \o s.chan
  BY <1>0, ConcatProperties, ConcatEmptySeq
<1>2. /\ d \in TmRec /\ d.there = s.there /\ d.active = s.active /\ d.hist = s.hist \o s.chan
      /\ d.chan = <<>> /\ d.made = s.made /\ d.lost = s.lost /\ d.pending = s.pending
      /\ d.size = s.size /\ d.phase = s.phase /\ d.left = s.left /\ d.pty = s.pty
      /\ d.missed = s.missed
  BY <1>0, <1>1 DEF TmRec
<1> HIDE DEF d
<1>3. /\ p \in TmRec /\ p.there = s.there /\ p.active = s.active /\ p.hist = s.hist \o s.chan
      /\ p.chan = <<>> /\ p.made = s.made /\ p.lost = s.lost /\ p.pending = <<>>
      /\ p.size = s.size /\ p.phase = s.phase /\ p.left = s.left /\ p.pty = s.pty
      /\ p.missed = s.missed
  BY <1>1, <1>2 DEF TmRec
<1>4. Drained(s, ok) = IF s.active THEN Phase(p, ok) ELSE d
  BY DEF Drained, d
<1> HIDE DEF p
<1>5. Ordered(<<>>, s.made) /\ Len(<<>>) <= TmChannel
  BY OrderedEmpty, TmAssumption
<1>6. ASSUME NEW t, t.hist = s.hist \o s.chan, t.chan = <<>>, t.made = s.made, t.lost = s.lost,
             t.pending \in {s.pending, <<>>}
      PROVE  Output(t)
  BY <1>1, <1>5, <1>6 DEF SessionOK, Output
<1>7. CASE s.active
  <2> DEFINE t == Phase(p, ok)
  <2>1. Redraw(p, fails) /\ p.active /\ p.size \in {1, 2}
    BY <1>0, <1>3, <1>7 DEF SessionOK, Redraw
  <2>2. ok \/ p.phase = "idle" \/ ~(p.left > 0) \/ fails < f
    BY <1>3, <1>7 DEF Resizes
  <2>3. /\ t \in TmRec /\ Redraw(t, f)
        /\ t.there = p.there /\ t.active = p.active /\ t.hist = p.hist /\ t.chan = p.chan
        /\ t.made = p.made /\ t.lost = p.lost /\ t.pending = p.pending /\ t.size = p.size
    <3>1. p \in TmRec /\ t = Phase(p, ok)
      BY <1>3
    <3> HIDE DEF t
    <3>2. PICK q \in TmRec : q = p
      BY <3>1
    <3>3. t = Phase(q, ok) /\ Redraw(q, fails) /\ (ok \/ q.phase = "idle" \/ ~(q.left > 0) \/ fails < f)
      BY <2>1, <2>2, <3>1, <3>2
    <3>4. t \in TmRec /\ Redraw(t, f)
      BY <3>3, PhaseOK
    <3>5. t.there = q.there /\ t.active = q.active /\ t.hist = q.hist /\ t.chan = q.chan
      BY <3>3, PhaseOK
    <3>6. t.made = q.made /\ t.lost = q.lost /\ t.pending = q.pending /\ t.size = q.size
      BY <3>3, PhaseOK
    <3> QED
      BY <3>2, <3>4, <3>5, <3>6
  <2> HIDE DEF t
  <2>4. Output(t)
    BY <1>3, <1>6, <2>3
  <2>5. SessionOK(t, events, f)
    BY <1>0, <1>3, <2>3, <2>4 DEF SessionOK
  <2>6. t = Drained(s, ok)
    BY <1>4, <1>7 DEF t
  <2> QED
    BY <1>0, <1>3, <2>3, <2>5, <2>6 DEF DrainedFrom
<1>8. CASE ~s.active
  <2>1. Output(d)
    BY <1>2, <1>6
  <2>2. Redraw(d, f)
    <3>1. s.left \in Nat /\ TmAttempts \in Nat
      BY <1>0, TmAssumption DEF TmRec
    <3> QED
      BY <1>2, <1>8, <3>1 DEF SessionOK, Redraw
  <2>3. SessionOK(d, events, f)
    BY <1>0, <1>2, <1>8, <2>1, <2>2 DEF SessionOK
  <2>4. d = Drained(s, ok)
    BY <1>4, <1>8
  <2> QED
    BY <1>0, <1>2, <1>8, <2>3, <2>4 DEF DrainedFrom
<1> QED
  BY <1>7, <1>8

(* What read_outputs leaves of a session; a failing attempt is a failure.  *)
LEMMA AfterReadOK ==
    ASSUME NEW events \in Nat, NEW fails \in Nat, NEW f \in Nat, fails <= f, NEW ok \in BOOLEAN,
           NEW s, SessionOK(s, events, fails), ~ok /\ Resizes(s) => fails < f
    PROVE  LET t == AfterRead(s, ok) IN
           /\ SessionOK(t, events, f) /\ (t.there => s.there)
           /\ tmService.persistent => t.there = s.there
           /\ t.active => /\ s.active /\ t.chan = <<>> /\ t.pending = <<>>
                          /\ t.made = s.made /\ t.lost = s.lost
<1> DEFINE d == Drained(s, ok)
<1>0. s \in TmRec /\ s.there \in BOOLEAN
  BY DEF SessionOK, TmRec
<1>1. SessionOK(NoTerminal, events, f) /\ ~NoTerminal.active /\ ~NoTerminal.there
  BY FreshOK DEF NoTerminal
<1>2. CASE s.there
  <2>1. /\ SessionOK(d, events, f) /\ d.there /\ d.active = s.active /\ d.size \in {1, 2}
        /\ d.made = s.made /\ d.lost = s.lost /\ d.chan = <<>> /\ (s.active => d.pending = <<>>)
    <3>1. DrainedFrom(d, s, events, f)
      BY <1>2, DrainedOK
    <3> HIDE DEF d
    <3> QED
      BY <3>1 DEF DrainedFrom
  <2> HIDE DEF d
  <2> DEFINE t == [d EXCEPT !.told = TRUE]
  <2>2. /\ t \in TmRec /\ t.there = d.there /\ t.active = d.active /\ t.hist = d.hist
        /\ t.chan = d.chan /\ t.made = d.made /\ t.lost = d.lost /\ t.pending = d.pending
        /\ t.size = d.size /\ t.phase = d.phase /\ t.left = d.left /\ t.pty = d.pty
        /\ t.missed = d.missed
    BY <2>1 DEF SessionOK, TmRec
  <2> HIDE DEF t
  <2>3. SessionOK(t, events, f)
    BY <2>1, <2>2 DEF SessionOK, Output, Redraw
  <2>4. CASE Ended(s) /\ tmService.persistent
    <3>1. AfterRead(s, ok) = t
      BY <2>4 DEF AfterRead, t, d
    <3> QED
      BY <1>2, <2>1, <2>2, <2>3, <3>1
  <2>5. CASE Ended(s) /\ ~tmService.persistent
    <3>1. AfterRead(s, ok) = NoTerminal
      BY <2>5 DEF AfterRead
    <3> QED
      BY <1>1, <2>5, <3>1
  <2>6. CASE ~Ended(s)
    <3>1. AfterRead(s, ok) = d
      BY <2>6 DEF AfterRead, d
    <3> QED
      BY <1>2, <2>1, <3>1
  <2> QED
    BY <2>4, <2>5, <2>6
<1>3. CASE ~s.there
  <2>1. s = NoTerminal
    BY <1>3 DEF SessionOK
  <2>2. ~s.active /\ s.chan = <<>> /\ s.hist = <<>> /\ <<>> \o <<>> = <<>>
    BY <2>1 DEF NoTerminal
  <2>3. d = [s EXCEPT !.chan = <<>>, !.hist = <<>>]
    BY <2>2 DEF Drained
  <2>4. AfterRead(s, ok) = d
    BY <1>3 DEF AfterRead, Ended
  <2> HIDE DEF d
  <2>5. d = s
    BY <1>0, <2>2, <2>3 DEF TmRec
  <2> QED
    BY <1>1, <2>1, <2>4, <2>5
<1> QED
  BY <1>0, <1>2, <1>3

LEMMA EmptyChunks == <<>> \in Chunks
<1>1. 0 \in 0..TmMaxEvents
  BY TmAssumption
<1> QED
  BY <1>1, OrderedEmpty, OrderedChunks

LEMMA CountersNat ==
    ASSUME TmTyped
    PROVE  tmEvents \in Nat /\ tmFails \in Nat
BY TmAssumption DEF TmTyped

(* One session becomes t; the client and the loops stay.                   *)
OnlySession(id, t) ==
    /\ tmSession' = [tmSession EXCEPT ![id] = t]
    /\ t.there => tmSession[id].there
    /\ StreamOK(tmGot[id], t, tmUp, tmTwo)
    /\ SessionOK(t, tmEvents', tmFails')

(* A step that changes one session only and leaves it right.               *)
LEMMA OneSession ==
    ASSUME TmInv, NEW id \in TmId, NEW t, OnlySession(id, t),
           UNCHANGED <<tmService, tmLoop, tmCur, tmUp, tmGot, tmTwo>>,
           tmEvents' \in 0..TmMaxEvents, tmEvents <= tmEvents',
           tmFails' \in 0..TmMaxFails, tmFails <= tmFails',
           tmKnown' = tmKnown \/ (tmKnown' = tmKnown \ {id} /\ ~t.there)
    PROVE  TmInv'
<1>0. TmTyped /\ t \in TmRec /\ tmEvents \in Nat /\ tmFails \in Nat /\ tmEvents' \in Nat /\ tmFails' \in Nat
  BY CountersNat, TmAssumption DEF TmInv, SessionOK, OnlySession
<1>1. tmSession'[id] = t /\ \A i \in TmId \ {id} : tmSession'[i] = tmSession[i]
  BY <1>0 DEF TmTyped, OnlySession
<1>2. TmTyped'
  BY <1>0 DEF TmTyped, OnlySession
<1>3. ASSUME NEW i \in TmId
      PROVE  /\ SessionOK(tmSession'[i], tmEvents', tmFails')
             /\ StreamOK(tmGot'[i], tmSession'[i], tmUp', tmTwo')
  <2>1. CASE i = id
    BY <1>1, <2>1 DEF OnlySession
  <2>2. CASE i # id
    <3>1. /\ SessionOK(tmSession[i], tmEvents, tmFails) /\ tmSession'[i] = tmSession[i]
          /\ StreamOK(tmGot[i], tmSession[i], tmUp, tmTwo)
      BY <1>1, <2>2 DEF TmInv
    <3>2. SessionOK(tmSession[i], tmEvents', tmFails')
      BY <1>0, <3>1, LaterOK
    <3> QED
      BY <3>1, <3>2
  <2> QED
    BY <2>1, <2>2
<1>4. SurvivorsKnown'
  <2> SUFFICES ASSUME tmUp, tmService.there, ~tmService.sync, NEW i \in TmId, tmSession'[i].there
               PROVE  i \in tmKnown'
    BY DEF SurvivorsKnown, Sessions
  <2>1. tmSession[i].there
    BY <1>1 DEF OnlySession
  <2>2. i \in tmKnown
    BY <2>1 DEF TmInv, SurvivorsKnown, Sessions
  <2> QED
    BY <1>1, <2>2
<1>5. (~tmTwo /\ tmUp => tmLoop \subseteq {tmCur})'
  BY DEF TmInv
<1> QED
  BY <1>2, <1>3, <1>4, <1>5 DEF TmInv

(* A new connection, and the end of the service.                           *)
LEMMA ConnectKeeps ==
    ASSUME TmInv, NEW b \in BOOLEAN, TmConnect(b)
    PROVE  TmInv'
<1>0. TmTyped /\ tmEvents \in Nat /\ tmFails \in Nat /\ UNCHANGED <<tmEvents, tmFails>>
  BY CountersNat DEF TmInv, TmConnect
<1>1. ASSUME NEW i \in TmId
      PROVE  /\ SessionOK(tmSession'[i], tmEvents', tmFails') /\ ~tmSession'[i].active
             /\ tmSession'[i] \in TmRec
  <2>1. tmSession'[i] = [tmSession[i] EXCEPT !.active = FALSE]
    BY DEF TmConnect
  <2>2. SessionOK(tmSession[i], tmEvents, tmFails)
    BY DEF TmInv
  <2>3. SessionOK(tmSession'[i], tmEvents, tmFails) /\ ~tmSession'[i].active
    BY <1>0, <2>1, <2>2, ClosedOK
  <2> QED
    BY <1>0, <2>3 DEF SessionOK
<1>2. TmTyped'
  <2>1. tmCur + 1 \in TmConn /\ tmCur' = tmCur + 1 /\ tmCur' \in 0..TmMaxConn
    BY <1>0, TmAssumption DEF TmConnect, TmTyped, TmConn
  <2>2. tmLoop' \subseteq TmConn
    BY <1>0, <2>1 DEF TmConnect, TmTyped
  <2>3. tmGot' \in [TmId -> Chunks]
    BY EmptyChunks DEF TmConnect
  <2>4. tmSession' \in [TmId -> TmRec]
    BY <1>1 DEF TmConnect
  <2>5. tmService' \in [there : BOOLEAN, persistent : BOOLEAN, sync : BOOLEAN]
    BY DEF TmConnect
  <2>6. tmUp' \in BOOLEAN /\ tmKnown' \subseteq TmId
    BY DEF TmConnect
  <2>7. tmTwo' \in BOOLEAN
    BY <1>0 DEF TmConnect, TmTyped
  <2> QED
    BY <1>0, <2>1, <2>2, <2>3, <2>4, <2>5, <2>6, <2>7 DEF TmTyped
<1>3. SurvivorsKnown'
  BY DEF TmConnect, SurvivorsKnown
<1>4. (~tmTwo /\ tmUp => tmLoop \subseteq {tmCur})'
  BY DEF TmConnect
<1>5. \A i \in TmId : StreamOK(tmGot'[i], tmSession'[i], tmUp', tmTwo')
  BY <1>1 DEF StreamOK
<1> QED
  BY <1>1, <1>2, <1>3, <1>4, <1>5 DEF TmInv

(* remove_service keeps the invariant.                                     *)
LEMMA RemovedKeeps ==
    ASSUME TmInv, RemoveService, tmLoop' \subseteq tmLoop,
           UNCHANGED <<tmCur, tmUp, tmGot, tmKnown, tmTwo, tmEvents, tmFails>>
    PROVE  TmInv'
<1>0. TmTyped /\ tmEvents \in Nat /\ tmFails \in Nat
  BY CountersNat DEF TmInv
<1>1. tmSession' = [i \in TmId |-> NoTerminal] /\ tmService' = NoService
  BY DEF RemoveService
<1>2. SessionOK(NoTerminal, tmEvents, tmFails) /\ NoTerminal \in TmRec /\ ~NoTerminal.active
  BY <1>0, FreshOK DEF SessionOK, NoTerminal
<1>3. TmTyped'
  BY <1>0, <1>1, <1>2 DEF TmTyped, NoService
<1>4. SurvivorsKnown'
  BY <1>1 DEF SurvivorsKnown, NoService
<1>5. (~tmTwo /\ tmUp => tmLoop \subseteq {tmCur})'
  BY DEF TmInv
<1>6. \A i \in TmId : /\ SessionOK(tmSession'[i], tmEvents', tmFails')
                      /\ StreamOK(tmGot'[i], tmSession'[i], tmUp', tmTwo')
  BY <1>1, <1>2 DEF StreamOK
<1> QED
  BY <1>3, <1>4, <1>5, <1>6 DEF TmInv

(* The sessions stay: a break, an option, a connection that goes.          *)
LEMMA RestKeeps ==
    ASSUME TmInv, UNCHANGED <<tmSession, tmGot, tmKnown, tmCur, tmTwo, tmEvents, tmFails>>,
           tmLoop' \subseteq tmLoop, tmUp' = tmUp \/ tmUp' = FALSE,
           tmService' \in [there : BOOLEAN, persistent : BOOLEAN, sync : BOOLEAN],
           tmService'.there => tmService.there, tmService'.sync = tmService.sync
    PROVE  TmInv'
<1>0. TmTyped
  BY DEF TmInv
<1>1. TmTyped'
  BY <1>0 DEF TmTyped
<1>2. SurvivorsKnown' /\ (~tmTwo /\ tmUp => tmLoop \subseteq {tmCur})'
  BY DEF TmInv, SurvivorsKnown, Sessions
<1>3. \A i \in TmId : /\ SessionOK(tmSession'[i], tmEvents', tmFails')
                      /\ StreamOK(tmGot'[i], tmSession'[i], tmUp', tmTwo')
  BY DEF TmInv, StreamOK
<1> QED
  BY <1>1, <1>2, <1>3 DEF TmInv

(* What happens to one session.                                            *)
LEMMA OneKeeps ==
    ASSUME TmInv, NEW id \in TmId, TmResize(id) \/ TmClose(id) \/ TmOutput(id) \/ TmShellEnds(id)
    PROVE  TmInv'
<1> DEFINE s == tmSession[id]
<1>0. /\ TmTyped /\ tmEvents \in Nat /\ tmFails \in Nat /\ SessionOK(s, tmEvents, tmFails)
      /\ tmEvents \in 0..TmMaxEvents /\ tmFails \in 0..TmMaxFails
      /\ StreamOK(tmGot[id], s, tmUp, tmTwo) /\ tmSession \in [TmId -> TmRec] /\ s \in TmRec
  BY CountersNat DEF TmInv, TmTyped
<1>1. CASE TmClose(id)
  <2>1. /\ tmSession' = [tmSession EXCEPT ![id] = NoTerminal] /\ tmKnown' = tmKnown \ {id}
        /\ UNCHANGED <<tmService, tmLoop, tmCur, tmUp, tmGot, tmTwo, tmEvents, tmFails>>
    BY <1>1 DEF TmClose
  <2>2. SessionOK(NoTerminal, tmEvents, tmFails) /\ ~NoTerminal.there
        /\ StreamOK(tmGot[id], NoTerminal, tmUp, tmTwo)
    BY <1>0, FreshOK DEF NoTerminal, StreamOK
  <2>3. OnlySession(id, NoTerminal)
    BY <2>1, <2>2 DEF OnlySession
  <2>4. tmEvents <= tmEvents' /\ tmFails <= tmFails'
    BY <1>0, <2>1
  <2> QED
    BY <1>0, <2>1, <2>2, <2>3, <2>4, OneSession
<1>2. CASE TmShellEnds(id)
  <2> DEFINE t == [s EXCEPT !.runs = FALSE]
  <2>1. /\ tmSession' = [tmSession EXCEPT ![id] = t] /\ s.there
        /\ tmEvents' = tmEvents + 1 /\ tmEvents < TmMaxEvents
        /\ UNCHANGED <<tmService, tmLoop, tmCur, tmUp, tmGot, tmKnown, tmTwo, tmFails>>
    BY <1>0, <1>2 DEF TmShellEnds, TmEvent
  <2>2. SessionOK(t, tmEvents, tmFails)
    BY <1>0, <2>1, ResizedOK
  <2>3. /\ t.there = s.there /\ t.active = s.active /\ t.pending = s.pending /\ t.chan = s.chan
        /\ t.made = s.made /\ t.lost = s.lost
    BY <1>0 DEF TmRec
  <2> HIDE DEF t, s
  <2>4. StreamOK(tmGot[id], t, tmUp, tmTwo)
    BY <1>0, <2>3 DEF StreamOK
  <2>5. tmEvents' \in 0..TmMaxEvents /\ tmEvents <= tmEvents'
    BY <1>0, <2>1, TmAssumption
  <2>6. SessionOK(t, tmEvents', tmFails')
    BY <1>0, <2>1, <2>2, <2>5, LaterOK
  <2>7. OnlySession(id, t) /\ tmFails <= tmFails'
    BY <1>0, <2>1, <2>3, <2>4, <2>6 DEF OnlySession, s
  <2> QED
    BY <1>0, <2>1, <2>5, <2>7, OneSession
<1>3. CASE TmResize(id)
  <2>1. /\ s.there /\ tmEvents' = tmEvents + 1 /\ tmEvents < TmMaxEvents
        /\ UNCHANGED <<tmService, tmLoop, tmCur, tmUp, tmGot, tmKnown, tmTwo>>
    BY <1>3 DEF TmResize, TmEvent, Sessions
  <2>2. tmEvents' \in 0..TmMaxEvents /\ tmEvents <= tmEvents' /\ tmEvents' \in Nat
    BY <1>0, <2>1, TmAssumption
  <2>3. CASE /\ tmSession' = [tmSession EXCEPT ![id].size = 2, ![id].pty = 2, ![id].missed = FALSE]
             /\ UNCHANGED tmFails
    <3> DEFINE t == [s EXCEPT !.size = 2, !.pty = 2, !.missed = FALSE]
    <3>1. tmSession' = [tmSession EXCEPT ![id] = t] /\ tmFails' = tmFails
      BY <1>0, <2>3
    <3>2. SessionOK(t, tmEvents, tmFails)
      BY <1>0, <2>1, ResizedOK
    <3>3. /\ t.there = s.there /\ t.active = s.active /\ t.pending = s.pending /\ t.chan = s.chan
          /\ t.made = s.made /\ t.lost = s.lost
      BY <1>0 DEF TmRec
    <3>4. tmFails' \in 0..TmMaxFails /\ tmFails <= tmFails' /\ tmFails' \in Nat
      BY <1>0, <2>3, TmAssumption
    <3> HIDE DEF t, s
    <3>5. SessionOK(t, tmEvents', tmFails')
      BY <1>0, <2>2, <3>1, <3>2, <3>4, LaterOK
    <3>6. StreamOK(tmGot[id], t, tmUp, tmTwo)
      BY <1>0, <3>3 DEF StreamOK
    <3>7. OnlySession(id, t)
      BY <3>1, <3>3, <3>5, <3>6 DEF OnlySession, s
    <3> QED
      BY <2>1, <2>2, <3>4, <3>7, OneSession
  <2>4. CASE /\ tmFails < TmMaxFails /\ tmFails' = tmFails + 1
             /\ tmSession' = [tmSession EXCEPT ![id].size = 2, ![id].missed = TRUE]
    <3> DEFINE t == [s EXCEPT !.size = 2, !.missed = TRUE]
    <3>1. tmSession' = [tmSession EXCEPT ![id] = t] /\ tmFails' = tmFails + 1
      BY <1>0, <2>4
    <3>2. SessionOK(t, tmEvents, tmFails + 1)
      BY <1>0, <2>1, ResizedOK
    <3>3. /\ t.there = s.there /\ t.active = s.active /\ t.pending = s.pending /\ t.chan = s.chan
          /\ t.made = s.made /\ t.lost = s.lost
      BY <1>0 DEF TmRec
    <3>4. tmFails' \in 0..TmMaxFails /\ tmFails <= tmFails' /\ tmFails' \in Nat
      BY <1>0, <2>4, TmAssumption
    <3> HIDE DEF t, s
    <3>5. SessionOK(t, tmEvents', tmFails')
      BY <1>0, <2>2, <3>1, <3>2, <3>4, LaterOK
    <3>6. StreamOK(tmGot[id], t, tmUp, tmTwo)
      BY <1>0, <3>3 DEF StreamOK
    <3>7. OnlySession(id, t)
      BY <3>1, <3>3, <3>5, <3>6 DEF OnlySession, s
    <3> QED
      BY <2>1, <2>2, <3>4, <3>7, OneSession
  <2> QED
    BY <1>3, <2>3, <2>4 DEF TmResize
<1>4. CASE TmOutput(id)
  <2> DEFINE t == TrySend(s)
             q == tmGot[id] \o s.pending
  <2>1. /\ tmSession' = [tmSession EXCEPT ![id] = t] /\ s.there
        /\ tmEvents' = tmEvents + 1 /\ tmEvents < TmMaxEvents
        /\ UNCHANGED <<tmService, tmLoop, tmCur, tmUp, tmGot, tmKnown, tmTwo, tmFails>>
    BY <1>0, <1>4 DEF TmOutput, TmEvent
  <2>2. /\ SessionOK(t, tmEvents + 1, tmFails)
        /\ t.there = s.there /\ t.active = s.active /\ t.made = s.made + 1
        /\ t.pending = s.pending
        /\ \/ t.chan = Append(s.chan, s.made + 1) /\ t.lost = s.lost
           \/ t.chan = s.chan /\ t.lost
    BY <1>0, <2>1, SentOK
  <2>3. /\ tmGot[id] \in Seq(Nat) /\ s.pending \in Seq(Nat) /\ s.chan \in Seq(Nat)
        /\ s.made \in Nat /\ s.made + 1 \in Nat
    BY <1>0, ChunksSeq DEF TmTyped, TmRec
  <2>4. q \in Seq(Nat)
    BY <2>3
  <2> HIDE DEF t
  <2>5. StreamOK(tmGot[id], t, tmUp, tmTwo)
    <3> SUFFICES ASSUME tmUp, t.active
                 PROVE  /\ Ordered(q \o t.chan, s.made + 1)
                        /\ ~t.lost /\ ~tmTwo => q \o t.chan = AllWritten(s.made + 1)
      BY <2>2 DEF StreamOK
    <3>1. /\ Ordered(q \o s.chan, s.made)
          /\ ~s.lost /\ ~tmTwo => q \o s.chan = AllWritten(s.made)
      BY <1>0, <2>2 DEF StreamOK
    <3> HIDE DEF q, s
    <3>2. q \o Append(s.chan, s.made + 1) = Append(q \o s.chan, s.made + 1)
      BY <2>3, <2>4, AppendConcat
    <3>3. /\ Ordered(Append(q \o s.chan, s.made + 1), s.made + 1)
          /\ Ordered(q \o s.chan, s.made + 1)
      BY <2>3, <3>1, OrderedAppend, OrderedLater
    <3> QED
      BY <2>2, <2>3, <3>1, <3>2, <3>3, AllWrittenAppend
  <2>6. tmEvents' \in 0..TmMaxEvents /\ tmEvents <= tmEvents'
    BY <1>0, <2>1, TmAssumption
  <2>7. OnlySession(id, t) /\ tmFails <= tmFails'
    BY <1>0, <2>1, <2>2, <2>5 DEF OnlySession
  <2> QED
    BY <1>0, <2>1, <2>6, <2>7, OneSession
<1> QED
  BY <1>1, <1>2, <1>3, <1>4

(* The session that an open finds: one that was there, or none; the others *)
(* stay where they are, but for the one that moved.                        *)
LEMMA RemappedOK ==
    ASSUME TmInv, NEW id \in TmId
    PROVE  LET m == Min(Sessions) IN
           /\ DOMAIN Remapped(id) = TmId
           /\ \E k \in TmId : Remapped(id)[id] = tmSession[k]
           /\ \/ Remapped(id) = tmSession
              \/ /\ tmService.sync /\ m \in Sessions /\ m # id /\ id \notin Sessions
                 /\ Remapped(id)[id] = tmSession[m] /\ Remapped(id)[m] = NoTerminal
                 /\ \A j \in TmId \ {id, m} : Remapped(id)[j] = tmSession[j]
<1> DEFINE m == Min(Sessions)
<1>0. tmSession \in [TmId -> TmRec]
  BY DEF TmInv, TmTyped
<1>1. CASE tmSession[id].there \/ ~tmService.sync \/ Sessions = {}
  <2>1. Remapped(id) = tmSession
    BY <1>1 DEF Remapped
  <2> QED
    BY <1>0, <2>1
<1>2. CASE ~(tmSession[id].there \/ ~tmService.sync \/ Sessions = {})
  <2>1. Sessions \subseteq Nat /\ Sessions # {} /\ Sessions \subseteq TmId
    BY <1>2 DEF Sessions, TmId
  <2>2. m \in Sessions
    BY <2>1, MinIn
  <2>3. Remapped(id) = [tmSession EXCEPT ![id] = tmSession[m], ![m] = NoTerminal]
    BY <1>2 DEF Remapped
  <2>4. id \notin Sessions /\ m # id /\ tmService.sync /\ m \in TmId
    BY <1>2, <2>1, <2>2 DEF Sessions
  <2> HIDE DEF m
  <2>5. /\ Remapped(id)[id] = tmSession[m] /\ Remapped(id)[m] = NoTerminal
        /\ \A j \in TmId \ {id, m} : Remapped(id)[j] = tmSession[j]
        /\ DOMAIN Remapped(id) = TmId
    BY <1>0, <2>3, <2>4
  <2> QED
    BY <2>2, <2>4, <2>5 DEF m
<1> QED
  BY <1>1, <1>2

(* An open, with the lowest session remapped or not.                       *)
LEMMA OpenKeeps ==
    ASSUME TmInv, NEW id \in TmId, TmOpen(id)
    PROVE  TmInv'
<1> DEFINE sessions == Remapped(id)
           s == sessions[id]
           t == IF s.there THEN Reopened(s) ELSE NewSession
<1>0. /\ TmTyped /\ tmEvents \in Nat /\ tmFails \in Nat
      /\ \A i \in TmId : SessionOK(tmSession[i], tmEvents, tmFails)
  BY CountersNat DEF TmInv
<1>1. /\ tmUp /\ tmService.there /\ ~s.active
      /\ tmSession' = [sessions EXCEPT ![id] = t]
      /\ tmKnown' = tmKnown \cup {id} \cup Listed(id, sessions)
      /\ tmService' = [tmService EXCEPT !.sync = FALSE]
      /\ tmGot' = [tmGot EXCEPT ![id] = <<>>]
      /\ UNCHANGED <<tmLoop, tmCur, tmUp, tmTwo, tmEvents, tmFails>>
  BY DEF TmOpen
<1>2. DOMAIN sessions = TmId /\ SessionOK(s, tmEvents, tmFails)
  BY <1>0, RemappedOK
<1>3. \A j \in TmId \ {id} : sessions[j] = tmSession[j] \/ sessions[j] = NoTerminal
  BY RemappedOK
<1>4. tmService.sync \/ sessions = tmSession
  BY RemappedOK
<1>5. /\ SessionOK(t, tmEvents, tmFails) /\ t \in TmRec
      /\ StreamOK(<<>>, t, tmUp, tmTwo)
  <2> HIDE DEF s
  <2>1. CASE s.there
    <3>1. /\ SessionOK(t, tmEvents, tmFails) /\ t.made = s.made /\ t.lost = s.lost
          /\ t.pending = s.hist /\ t.chan = s.chan
      BY <1>0, <1>2, <2>1, ReopenedOK
    <3> HIDE DEF t
    <3>2. s.hist \in Seq(Nat) /\ <<>> \o s.hist = s.hist
      BY <1>2, ConcatEmptySeq DEF SessionOK, TmRec
    <3>3. StreamOK(<<>>, t, tmUp, tmTwo)
      BY <1>2, <3>1, <3>2 DEF StreamOK, SessionOK, Output
    <3> QED
      BY <3>1, <3>3 DEF SessionOK
  <2>2. CASE ~s.there
    <3>1. t = NewSession /\ SessionOK(t, tmEvents, tmFails)
      BY <1>0, <2>2, FreshOK
    <3>2. /\ t.pending = <<>> /\ t.chan = <<>> /\ t.made = 0
      BY <3>1 DEF NewSession, NoTerminal
    <3> HIDE DEF t
    <3>3. (<<>> \o <<>>) \o <<>> = <<>> /\ AllWritten(0) = <<>>
      BY DEF AllWritten
    <3>4. StreamOK(<<>>, t, tmUp, tmTwo)
      BY <3>2, <3>3, OrderedEmpty DEF StreamOK
    <3> QED
      BY <3>1, <3>4 DEF SessionOK
  <2> QED
    BY <2>1, <2>2
<1> HIDE DEF t, s
<1>6. /\ tmSession'[id] = t /\ tmGot'[id] = <<>> /\ DOMAIN tmSession' = TmId
      /\ \A j \in TmId \ {id} : tmSession'[j] = sessions[j] /\ tmGot'[j] = tmGot[j]
  BY <1>0, <1>1, <1>2 DEF TmTyped
<1>7. SessionOK(NoTerminal, tmEvents, tmFails) /\ ~NoTerminal.active /\ NoTerminal \in TmRec
  BY <1>0, FreshOK DEF NoTerminal, SessionOK
<1> HIDE DEF sessions
<1>8. ASSUME NEW j \in TmId
      PROVE  /\ SessionOK(tmSession'[j], tmEvents', tmFails') /\ tmSession'[j] \in TmRec
             /\ StreamOK(tmGot'[j], tmSession'[j], tmUp', tmTwo')
  <2>1. CASE j = id
    BY <1>1, <1>5, <1>6, <2>1
  <2>2. CASE j # id /\ sessions[j] = tmSession[j]
    <3>1. /\ SessionOK(tmSession[j], tmEvents, tmFails)
          /\ StreamOK(tmGot[j], tmSession[j], tmUp, tmTwo)
      BY DEF TmInv
    <3> QED
      BY <1>1, <1>6, <2>2, <3>1 DEF SessionOK
  <2>3. CASE j # id /\ sessions[j] = NoTerminal
    BY <1>1, <1>6, <1>7, <2>3 DEF StreamOK
  <2> QED
    BY <1>3, <2>1, <2>2, <2>3
<1>9. TmTyped'
  <2>1. tmSession' \in [TmId -> TmRec]
    <3>1. tmSession' = [j \in TmId |-> tmSession'[j]]
      BY <1>1, <1>2
    <3> QED
      BY <1>8, <3>1
  <2>2. tmGot' \in [TmId -> Chunks]
    BY <1>0, <1>1, EmptyChunks DEF TmTyped
  <2>3. tmKnown' \subseteq TmId
    BY <1>0, <1>1 DEF TmTyped, Listed
  <2>4. tmService' \in [there : BOOLEAN, persistent : BOOLEAN, sync : BOOLEAN]
    BY <1>0, <1>1 DEF TmTyped
  <2> QED
    BY <1>0, <1>1, <2>1, <2>2, <2>3, <2>4 DEF TmTyped
<1>10. SurvivorsKnown'
  <2> SUFFICES ASSUME NEW j \in TmId, tmSession'[j].there, j # id PROVE j \in tmKnown'
    BY <1>1 DEF SurvivorsKnown, Sessions
  <2>1. CASE tmService.sync
    BY <1>1, <1>6, <2>1 DEF Listed
  <2>2. CASE ~tmService.sync
    <3>1. tmSession[j].there
      BY <1>4, <1>6, <2>2
    <3> QED
      BY <1>1, <2>2, <3>1 DEF TmInv, SurvivorsKnown, Sessions
  <2> QED
    BY <2>1, <2>2
<1>11. (~tmTwo /\ tmUp => tmLoop \subseteq {tmCur})'
  BY <1>1 DEF TmInv
<1> QED
  BY <1>8, <1>9, <1>10, <1>11 DEF TmInv

(* A poll of the terminals by the run loop of c.                           *)
LEMMA ReadKeeps ==
    ASSUME TmInv, NEW c \in TmConn, TmRead(c)
    PROVE  TmInv'
<1>0. /\ TmTyped /\ tmEvents \in Nat /\ tmFails \in Nat /\ c \in tmLoop
      /\ UNCHANGED <<tmService, tmLoop, tmCur, tmUp, tmKnown, tmTwo, tmEvents>>
  BY CountersNat DEF TmInv, TmRead
<1>1. PICK failing \in SUBSET {i \in TmId : Resizes(tmSession[i])} :
          /\ tmFails + Cardinality(failing) <= TmMaxFails
          /\ tmFails' = tmFails + Cardinality(failing)
          /\ tmSession' = [i \in TmId |-> AfterRead(tmSession[i], i \notin failing)]
  BY DEF TmRead
<1>2. IsFiniteSet(failing) /\ Cardinality(failing) \in Nat
  <2>1. IsFiniteSet(TmId) /\ failing \subseteq TmId
    BY FS_Interval, TmAssumption DEF TmId
  <2> QED
    BY <2>1, FS_Subset, FS_CardinalityType
<1>3. tmFails' \in Nat /\ tmFails <= tmFails' /\ tmFails' \in 0..TmMaxFails
  BY <1>0, <1>1, <1>2, TmAssumption
<1>4. \A i \in failing : tmFails < tmFails'
  <2> SUFFICES ASSUME failing # {} PROVE tmFails < tmFails'
    OBVIOUS
  <2>1. Cardinality(failing) # 0
    BY <1>2, FS_EmptySet
  <2> QED
    BY <1>0, <1>1, <1>2, <2>1
<1>5. ASSUME NEW i \in TmId
      PROVE  LET s == tmSession[i]
                 t == tmSession'[i] IN
             /\ SessionOK(t, tmEvents, tmFails') /\ (t.there => s.there)
             /\ t.active => /\ s.active /\ t.chan = <<>> /\ t.pending = <<>>
                            /\ t.made = s.made /\ t.lost = s.lost
  <2>1. PICK ok \in BOOLEAN : ok = (i \notin failing)
    OBVIOUS
  <2>2. SessionOK(tmSession[i], tmEvents, tmFails)
    BY DEF TmInv
  <2>3. ~ok /\ Resizes(tmSession[i]) => tmFails < tmFails'
    BY <1>4, <2>1
  <2>4. tmSession'[i] = AfterRead(tmSession[i], ok)
    BY <1>1, <2>1
  <2>5. PICK s, t, f : s = tmSession[i] /\ t = tmSession'[i] /\ f = tmFails'
    OBVIOUS
  <2>6. t = AfterRead(s, ok) /\ SessionOK(s, tmEvents, tmFails) /\ f \in Nat /\ tmFails <= f
    BY <1>3, <2>2, <2>4, <2>5
  <2>7. ~ok /\ Resizes(s) => tmFails < f
    BY <2>3, <2>5
  <2>8. /\ SessionOK(t, tmEvents, f) /\ (t.there => s.there)
        /\ t.active => /\ s.active /\ t.chan = <<>> /\ t.pending = <<>>
                       /\ t.made = s.made /\ t.lost = s.lost
    BY ONLY <1>0, <2>6, <2>7, AfterReadOK, tmEvents \in Nat, tmFails \in Nat, ok \in BOOLEAN
  <2> QED
    BY <2>5, <2>8
<1>6. \A i \in TmId : tmGot'[i] = IF tmUp /\ c = tmCur /\ tmSession[i].active
                                   THEN tmGot[i] \o tmSession[i].pending \o tmSession[i].chan
                                   ELSE tmGot[i]
  BY DEF TmRead
<1>7. ASSUME NEW i \in TmId
      PROVE  /\ tmGot'[i] \in Chunks
             /\ StreamOK(tmGot'[i], tmSession'[i], tmUp', tmTwo')
  <2> DEFINE s == tmSession[i]
             t == tmSession'[i]
             g == tmGot[i]
             q == g \o s.pending \o s.chan
  <2>0. StreamOK(g, s, tmUp, tmTwo) /\ SessionOK(s, tmEvents, tmFails) /\ g \in Chunks
    BY <1>0 DEF TmInv, TmTyped
  <2>1. /\ g \in Seq(Nat) /\ s.pending \in Seq(Nat) /\ s.chan \in Seq(Nat)
        /\ s.made \in 0..TmMaxEvents /\ s.made \in Nat
    BY <1>0, <2>0, ChunksSeq, TmAssumption DEF SessionOK, TmRec, TmTyped
  <2>2. g \o s.pending \in Seq(Nat) /\ q \in Seq(Nat)
    BY <2>1
  <2>3. t.active => s.active /\ t.chan = <<>> /\ t.pending = <<>> /\ t.made = s.made /\ t.lost = s.lost
    BY <1>5
  <2>4. CASE tmUp /\ c = tmCur /\ s.active
    <3>1. tmGot'[i] = q
      BY <1>6, <2>4
    <3>2. Ordered(q, s.made) /\ (~s.lost /\ ~tmTwo => q = AllWritten(s.made))
      BY <2>0, <2>4 DEF StreamOK
    <3>3. (q \o <<>>) \o <<>> = q
      BY <2>2, ConcatEmptySeq
    <3> HIDE DEF q, s, t
    <3>4. q \in Chunks
      BY <2>1, <3>2, OrderedChunks
    <3>5. StreamOK(q, t, tmUp, tmTwo)
      BY <2>3, <3>2, <3>3 DEF StreamOK
    <3> QED
      BY <1>0, <3>1, <3>4, <3>5 DEF t
  <2>5. CASE ~(tmUp /\ c = tmCur /\ s.active)
    <3>1. tmGot'[i] = g
      BY <1>6, <2>5
    <3>2. (g \o <<>>) \o <<>> = g
      BY <2>1, ConcatEmptySeq
    <3>3. tmUp /\ c # tmCur => tmTwo
      BY <1>0 DEF TmInv
    <3>4. tmUp /\ s.active => Ordered(g, s.made)
      <4>1. tmUp /\ s.active => Ordered((g \o s.pending) \o s.chan, s.made)
        BY <2>0 DEF StreamOK
      <4> QED
        BY <2>1, <2>2, <4>1, OrderedPrefix
    <3> HIDE DEF g, q, s, t
    <3>5. StreamOK(g, t, tmUp, tmTwo)
      BY <2>3, <2>5, <3>2, <3>3, <3>4 DEF StreamOK
    <3> QED
      BY <1>0, <2>0, <3>1, <3>5 DEF t
  <2> QED
    BY <2>4, <2>5
<1>8. TmTyped'
  <2>1. tmSession' \in [TmId -> TmRec]
    <3>1. \A i \in TmId : tmSession'[i] \in TmRec
      BY <1>5 DEF SessionOK
    <3> QED
      BY <1>1, <3>1
  <2>2. tmGot' \in [TmId -> Chunks]
    BY <1>7 DEF TmRead
  <2> QED
    BY <1>0, <1>3, <2>1, <2>2 DEF TmTyped
<1>9. SurvivorsKnown'
  BY <1>0, <1>5 DEF TmInv, SurvivorsKnown, Sessions
<1>10. (~tmTwo /\ tmUp => tmLoop \subseteq {tmCur})'
  BY <1>0 DEF TmInv
<1> QED
  BY <1>0, <1>5, <1>7, <1>8, <1>9, <1>10 DEF TmInv

LEMMA TmInvInit == TmInit => TmInv
<1> SUFFICES ASSUME TmInit PROVE TmInv
  OBVIOUS
<1>1. SessionOK(NoTerminal, 0, 0) /\ NoTerminal \in TmRec /\ ~NoTerminal.active
  BY FreshOK DEF SessionOK, NoTerminal
<1>2. 0 \in 0..TmMaxConn /\ 0 \in 0..TmMaxEvents /\ 0 \in 0..TmMaxFails
  BY TmAssumption
<1>3. TmTyped
  BY <1>1, <1>2, EmptyChunks DEF TmInit, TmTyped, NoService
<1>4. SurvivorsKnown /\ (~tmTwo /\ tmUp => tmLoop \subseteq {tmCur})
  BY DEF TmInit, SurvivorsKnown
<1>5. \A i \in TmId : /\ SessionOK(tmSession[i], tmEvents, tmFails)
                      /\ StreamOK(tmGot[i], tmSession[i], tmUp, tmTwo)
  BY <1>1 DEF TmInit, StreamOK
<1> QED
  BY <1>3, <1>4, <1>5 DEF TmInv

(* Every step keeps the invariant.                                         *)
LEMMA TmInvNext ==
    ASSUME TmInv, [TmNext]_tmVars
    PROVE  TmInv'
<1>0. tmService \in [there : BOOLEAN, persistent : BOOLEAN, sync : BOOLEAN]
  BY DEF TmInv, TmTyped
<1>1. CASE UNCHANGED tmVars
  BY <1>0, <1>1, RestKeeps DEF tmVars
<1>2. CASE TmBreak
  BY <1>0, <1>2, RestKeeps DEF TmBreak
<1>3. ASSUME NEW b \in BOOLEAN, TmPersist(b) PROVE TmInv'
  <2>1. /\ tmService' \in [there : BOOLEAN, persistent : BOOLEAN, sync : BOOLEAN]
        /\ tmService'.there = tmService.there /\ tmService'.sync = tmService.sync
    BY <1>0, <1>3 DEF TmPersist
  <2> QED
    BY <1>3, <2>1, RestKeeps DEF TmPersist
<1>4. CASE TmIdle
  BY <1>4, RemovedKeeps DEF TmIdle
<1>5. ASSUME NEW c \in TmConn, TmDrop(c) PROVE TmInv'
  <2>1. CASE tmService.there /\ ~tmService.persistent
    BY <1>5, <2>1, RemovedKeeps DEF TmDrop, LoopEnds
  <2>2. CASE ~(tmService.there /\ ~tmService.persistent)
    BY <1>0, <1>5, <2>2, RestKeeps DEF TmDrop, LoopEnds
  <2> QED
    BY <2>1, <2>2
<1> QED
  BY <1>1, <1>2, <1>3, <1>4, <1>5, ConnectKeeps, OneKeeps, OpenKeeps, ReadKeeps DEF TmNext

(* The invariant gives what the run checks.                                *)
LEMMA TmInvSafe == TmInv => TmSafe
<1> SUFFICES ASSUME TmInv PROVE TmSafe
  OBVIOUS
<1>1. ASSUME NEW i \in TmId
      PROVE  LET s == tmSession[i] IN
             /\ s.there \in BOOLEAN /\ s.active \in BOOLEAN
             /\ s.pending \in Chunks /\ s.hist \in Chunks
             /\ s.chan \in Chunks /\ Len(s.chan) <= TmChannel
             /\ s.phase \in {"idle", "temp", "restore"} /\ s.left \in 0..TmAttempts
             /\ s.made \in 0..TmMaxEvents
             /\ s.lost \in BOOLEAN /\ s.runs \in BOOLEAN /\ s.told \in BOOLEAN
             /\ s.missed \in BOOLEAN
             /\ s.size \in {1, 2} \/ s = NoTerminal
             /\ s.pty \in {0, 1, 2}
             /\ s.active => s.there
  <2> DEFINE s == tmSession[i]
  <2>1. SessionOK(s, tmEvents, tmFails) /\ s \in TmRec
    BY DEF TmInv, SessionOK
  <2> HIDE DEF s
  <2>2. /\ s.hist \in Seq(Nat) /\ s.chan \in Seq(Nat) /\ s.pending \in Seq(Nat) /\ s.made \in Nat
        /\ s.there \in BOOLEAN /\ s.active \in BOOLEAN /\ s.lost \in BOOLEAN /\ s.runs \in BOOLEAN
        /\ s.told \in BOOLEAN /\ s.missed \in BOOLEAN /\ s.pty \in {0, 1, 2}
        /\ s.phase \in {"idle", "temp", "restore"} /\ s.left \in 0..TmAttempts
    BY <2>1 DEF TmRec
  <2>3. s.made \in 0..TmMaxEvents
    BY <2>1, <2>2, TmAssumption DEF SessionOK, TmInv, TmTyped
  <2>4. s.hist \in Chunks /\ s.chan \in Chunks
    BY <2>1, <2>2, <2>3, OrderedPrefix, OrderedSuffix, OrderedChunks DEF SessionOK, Output
  <2>5. s.pending \in Chunks /\ Len(s.chan) <= TmChannel
    BY <2>1, <2>2, <2>3, OrderedPrefix, OrderedSuffix, OrderedChunks, EmptyChunks DEF SessionOK, Output
  <2>6. (s.size \in {1, 2} \/ s = NoTerminal) /\ (s.active => s.there)
    BY <2>1 DEF SessionOK
  <2> QED
    BY <2>2, <2>3, <2>4, <2>5, <2>6 DEF s
<1>2. TmTypeOK
  BY <1>1 DEF TmInv, TmTyped, TmTypeOK
<1>3. StreamInOrder
  <2> SUFFICES ASSUME NEW i \in TmId, tmUp, tmSession[i].active,
                      NEW m \in DOMAIN Stream(i), NEW n \in DOMAIN Stream(i), m < n
               PROVE  Stream(i)[m] < Stream(i)[n]
    BY DEF StreamInOrder
  <2>1. Ordered(Stream(i), tmSession[i].made)
    BY DEF TmInv, StreamOK, Stream
  <2>2. DOMAIN Stream(i) = 1..Len(Stream(i))
    BY <2>1, LenProperties DEF Ordered
  <2> QED
    BY <2>1, <2>2 DEF Ordered
<1>4. StreamWhole
  BY DEF TmInv, StreamOK, Stream, StreamWhole, AllWritten
<1>5. SizeRestored
  <2> SUFFICES ASSUME NEW i \in TmId, tmSession[i].active, tmSession[i].phase = "idle",
                      ~tmSession[i].missed, tmFails < TmAttempts
               PROVE  tmSession[i].pty = tmSession[i].size
    BY DEF SizeRestored
  <2> QED
    BY DEF TmInv, SessionOK, Redraw
<1> QED
  BY <1>2, <1>3, <1>4, <1>5 DEF TmSafe, TmInv

(* What the terminals keep to holds in every state, whatever the number of *)
(* terminals and connections and the sizes of the channel and the bounds.  *)
THEOREM TerminalsSafe == TmSpec => []TmSafe
<1>1. TmInv /\ [TmNext]_tmVars => TmInv'
  BY TmInvNext
<1> QED
  BY <1>1, TmInvInit, TmInvSafe, PTL DEF TmSpec

(* More sessions are not fewer. *)
LEMMA MoreSessions ==
    ASSUME NEW S, NEW T, S \subseteq T, T \subseteq TmId
    PROVE  Cardinality(T) >= Cardinality(S)
<1>1. IsFiniteSet(TmId)
  BY FS_Interval, TmAssumption DEF TmId
<1>2. IsFiniteSet(T)
  BY <1>1, FS_Subset
<1>3. IsFiniteSet(S) /\ Cardinality(S) <= Cardinality(T)
  BY <1>2, FS_Subset
<1>4. Cardinality(S) \in Nat /\ Cardinality(T) \in Nat
  BY <1>2, <1>3, FS_CardinalityType
<1> QED
  BY <1>3, <1>4

(* A session that takes another id is one session still.                   *)
LEMMA MovedSession ==
    ASSUME NEW S, S \subseteq TmId, NEW m \in S, NEW id \in TmId \ S
    PROVE  Cardinality((S \ {m}) \cup {id}) >= Cardinality(S)
<1>1. IsFiniteSet(TmId)
  BY FS_Interval, TmAssumption DEF TmId
<1>2. IsFiniteSet(S) /\ Cardinality(S) \in Nat
  BY <1>1, FS_Subset, FS_CardinalityType
<1>3. IsFiniteSet(S \ {m}) /\ Cardinality(S \ {m}) = Cardinality(S) - 1
  BY <1>2, FS_RemoveElement
<1>4. Cardinality((S \ {m}) \cup {id}) = Cardinality(S \ {m}) + 1
  BY <1>3, FS_AddElement
<1> QED
  BY <1>2, <1>3, <1>4

(* No step but a close takes a terminal from a persistent service.         *)
LEMMA TmKeepsSessions ==
    ASSUME TmInv, [TmNext]_tmVars, tmService.persistent, tmKnown' = tmKnown
    PROVE  Cardinality(Sessions') >= Cardinality(Sessions)
<1>0. /\ tmSession \in [TmId -> TmRec] /\ tmEvents \in Nat /\ tmFails \in Nat
      /\ Sessions \subseteq TmId /\ Sessions' \subseteq TmId
  BY CountersNat DEF TmInv, TmTyped, Sessions
<1>1. SUFFICES ASSUME ~(Sessions \subseteq Sessions')
               PROVE  Cardinality(Sessions') >= Cardinality(Sessions)
  BY <1>0, MoreSessions
<1>2. CASE UNCHANGED tmSession
  BY <1>1, <1>2 DEF Sessions
<1>3. ASSUME NEW b \in BOOLEAN, TmConnect(b) PROVE Sessions \subseteq Sessions'
  BY <1>0, <1>3 DEF TmConnect, Sessions, TmRec
<1>4. CASE TmIdle
  BY <1>1, <1>4 DEF TmIdle
<1>5. ASSUME NEW c \in TmConn, TmDrop(c) PROVE UNCHANGED tmSession
  BY <1>5 DEF TmDrop, LoopEnds
<1>6. ASSUME NEW c \in TmConn, TmRead(c) PROVE Sessions \subseteq Sessions'
  <2>1. PICK failing \in SUBSET {i \in TmId : Resizes(tmSession[i])} :
            tmSession' = [i \in TmId |-> AfterRead(tmSession[i], i \notin failing)]
    BY <1>6 DEF TmRead
  <2> SUFFICES ASSUME NEW i \in TmId, tmSession[i].there PROVE tmSession'[i].there
    BY DEF Sessions
  <2>2. PICK ok \in BOOLEAN : ok = (i \notin failing)
    OBVIOUS
  <2>3. tmSession'[i] = AfterRead(tmSession[i], ok)
    BY <2>1, <2>2
  <2>4. SessionOK(tmSession[i], tmEvents, tmFails) /\ tmFails <= tmFails + 1 /\ tmFails + 1 \in Nat
        /\ tmFails < tmFails + 1
    BY <1>0 DEF TmInv
  <2>5. PICK s, t : s = tmSession[i] /\ t = tmSession'[i]
    OBVIOUS
  <2>6. t = AfterRead(s, ok) /\ SessionOK(s, tmEvents, tmFails)
    BY <2>3, <2>4, <2>5
  <2>7. tmService.persistent => t.there = s.there
    BY ONLY <1>0, <2>4, <2>6, AfterReadOK, ok \in BOOLEAN
  <2> QED
    BY <2>5, <2>7
<1>7. ASSUME NEW id \in TmId, TmOpen(id)
      PROVE  Cardinality(Sessions') >= Cardinality(Sessions)
  <2> DEFINE m == Min(Sessions)
  <2>1. /\ tmSession' = [Remapped(id) EXCEPT ![id] = tmSession'[id]]
        /\ tmSession'[id].there
    <3>1. tmSession' = [Remapped(id) EXCEPT ![id] = IF Remapped(id)[id].there THEN Reopened(Remapped(id)[id])
                                                    ELSE NewSession]
      BY <1>7 DEF TmOpen
    <3>2. PICK k \in TmId : Remapped(id)[id] = tmSession[k]
      BY RemappedOK
    <3>3. Reopened(tmSession[k]).there = tmSession[k].there /\ NewSession.there
      BY <1>0 DEF Reopened, NewSession, NoTerminal, TmRec
    <3> QED
      BY <3>1, <3>2, <3>3, RemappedOK
  <2>2. CASE Remapped(id) = tmSession
    <3>1. Sessions \subseteq Sessions'
      BY <1>0, <2>1, <2>2 DEF Sessions
    <3> QED
      BY <1>1, <3>1
  <2>3. CASE ~(Remapped(id) = tmSession)
    <3>1. /\ m \in Sessions /\ m # id /\ id \notin Sessions
          /\ DOMAIN Remapped(id) = TmId /\ Remapped(id)[m] = NoTerminal
          /\ \A j \in TmId \ {id, m} : Remapped(id)[j] = tmSession[j]
      BY <2>3, RemappedOK
    <3> HIDE DEF m
    <3>2. ~NoTerminal.there /\ m \in TmId
      BY <1>0, <3>1 DEF NoTerminal
    <3>3. /\ tmSession'[m] = NoTerminal
          /\ \A j \in TmId \ {id, m} : tmSession'[j] = tmSession[j]
      BY <2>1, <3>1, <3>2
    <3>4. Sessions' = (Sessions \ {m}) \cup {id}
      BY <2>1, <3>1, <3>2, <3>3 DEF Sessions
    <3> QED
      BY <1>0, <3>1, <3>4, MovedSession
  <2> QED
    BY <2>2, <2>3
<1>8. ASSUME NEW id \in TmId, TmClose(id) PROVE FALSE
  BY <1>8 DEF TmClose
<1>9. ASSUME NEW id \in TmId, TmResize(id) PROVE Sessions \subseteq Sessions'
  <2>1. tmSession[id] \in TmRec
    BY <1>0
  <2>2. tmSession' = [tmSession EXCEPT ![id] = tmSession'[id]] /\ tmSession'[id].there = tmSession[id].there
    <3>1. CASE tmSession' = [tmSession EXCEPT ![id].size = 2, ![id].pty = 2, ![id].missed = FALSE]
      BY <1>0, <2>1, <3>1 DEF TmRec
    <3>2. CASE tmSession' = [tmSession EXCEPT ![id].size = 2, ![id].missed = TRUE]
      BY <1>0, <2>1, <3>2 DEF TmRec
    <3> QED
      BY <1>9, <3>1, <3>2 DEF TmResize
  <2> QED
    BY <1>0, <2>2 DEF Sessions
<1>10. ASSUME NEW id \in TmId, TmOutput(id) PROVE Sessions \subseteq Sessions'
  <2>1. tmSession' = [tmSession EXCEPT ![id] = TrySend(tmSession[id])]
    BY <1>0, <1>10 DEF TmOutput
  <2>2. ASSUME NEW s \in TmRec PROVE TrySend(s).there = s.there
    BY DEF TrySend, TmRec
  <2>3. TrySend(tmSession[id]).there = tmSession[id].there
    BY <1>0, <2>2
  <2> QED
    BY <1>0, <2>1, <2>3 DEF Sessions
<1>11. ASSUME NEW id \in TmId, TmShellEnds(id) PROVE Sessions \subseteq Sessions'
  BY <1>0, <1>11 DEF TmShellEnds, Sessions, TmRec
<1>12. CASE TmBreak
  BY <1>2, <1>12 DEF TmBreak
<1>13. ASSUME NEW b \in BOOLEAN, TmPersist(b) PROVE UNCHANGED tmSession
  BY <1>13 DEF TmPersist
<1>14. CASE UNCHANGED tmVars
  BY <1>2, <1>14 DEF tmVars
<1> QED
  BY <1>1, <1>2, <1>3, <1>4, <1>5, <1>6, <1>7, <1>8, <1>9, <1>10, <1>11, <1>12, <1>13, <1>14 DEF TmNext

(* A persistent service keeps its terminals until the client closes them,  *)
(* over any breaks, reconnections, polls and ends of shells.               *)
THEOREM TerminalsStay == TmSpec => PersistentKept
<1>1. TmInv /\ [TmNext]_tmVars => TmInv'
  BY TmInvNext
<1>2. TmInv /\ [TmNext]_tmVars
        => [tmService.persistent /\ tmKnown' = tmKnown
              => Cardinality(Sessions') >= Cardinality(Sessions)]_tmVars
  BY TmKeepsSessions
<1> QED
  BY <1>1, <1>2, TmInvInit, PTL DEF TmSpec, PersistentKept
=============================================================================
