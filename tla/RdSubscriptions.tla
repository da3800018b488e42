-------------------------- MODULE RdSubscriptions --------------------------
(***************************************************************************)
(* Which services of the host a connection is subscribed to               *)
(* (server/connection.rs, server.rs).  Three parties decide: the user of   *)
(* the host by the permissions in the connection manager's window, the     *)
(* peer by its options, and the login, which subscribes to everything that *)
(* is permitted at that moment.  Each handler only touches the services it *)
(* is about, so the set of subscriptions is the result of a history; the   *)
(* properties say that it is nevertheless a function of the permissions.   *)
(* One connection; what a service does with a subscriber is RdService.     *)
(***************************************************************************)
EXTENDS Naturals, FiniteSets

CONSTANTS
    Display,        \* displays of the host
    Primary,        \* PRIMARY_DISPLAY_IDX
    OneWay          \* OPTION_ONE_WAY_CLIPBOARD_REDIRECTION

ASSUME PrimaryIsDisplay == Primary \in Display /\ OneWay \in BOOLEAN

VARIABLES
    conn,           \* fields of Connection, see ConnType
    subs,           \* services that hold the connection in one of their maps
    captured        \* video services that hold it, by display

subVars == <<conn, subs, captured>>

Named == {"cursor", "pos", "focus", "clipboard", "audio"}
Fields == {"showCursor", "followWindow", "disableAudio", "disableClipboard", "disableKeyboard"}

SubInit ==
    \E kind \in {"remote", "camera"}, wait \in BOOLEAN :
        /\ conn = [kind |-> kind, authorized |-> FALSE, services |-> FALSE, waitSid |-> wait,
                   keyboard |-> TRUE, clipboard |-> TRUE, audio |-> TRUE,
                   showCursor |-> FALSE, followWindow |-> FALSE, disableAudio |-> FALSE,
                   disableClipboard |-> FALSE, disableKeyboard |-> FALSE,
                   voiceAsked |-> FALSE, voice |-> FALSE, multi |-> FALSE,
                   display |-> Primary, closed |-> FALSE]
        /\ subs = {} /\ captured = {}

PeerKeyboard(n) == n.keyboard /\ ~n.disableKeyboard
CanSubClipboard(n) == n.clipboard /\ ~n.disableClipboard /\ PeerKeyboard(n) /\ ~OneWay
AudioEnabled(n) == n.audio /\ ~n.disableAudio
AuthedCamera(n) == n.authorized /\ n.kind = "camera"

\* Server::subscribe for a service that exists from the start.
Subscribed(S, name, sub) == IF sub THEN S \cup {name} ELSE S \ {name}

\* The audio service after a change of n: a camera connection hears the host
\* only during a voice call.
AudioSubs(S, n) ==
    IF AuthedCamera(n) /\ ~n.voice /\ AudioEnabled(n) THEN S
    ELSE Subscribed(S, "audio", AudioEnabled(n))

-----------------------------------------------------------------------------
(* The host's user.                                                        *)

BugSwitchKeyboard(on) ==
    /\ ~conn.closed
    /\ conn' = [conn EXCEPT !.keyboard = on]
    /\ subs' = Subscribed(subs, "cursor", on \/ conn.showCursor)
    /\ UNCHANGED captured

\* ipc::Data::SwitchPermission "keyboard", also before the login.
SwitchKeyboard(on) ==
    /\ ~conn.closed
    /\ conn' = [conn EXCEPT !.keyboard = on]
    /\ subs' = Subscribed(Subscribed(subs, "clipboard", CanSubClipboard(conn')),
                          "cursor", on \/ conn.showCursor)
    /\ UNCHANGED captured

SwitchClipboard(on) ==
    /\ ~conn.closed
    /\ conn' = [conn EXCEPT !.clipboard = on]
    /\ subs' = Subscribed(subs, "clipboard", CanSubClipboard(conn'))
    /\ UNCHANGED captured

SwitchAudio(on) ==
    /\ ~conn.closed
    /\ conn' = [conn EXCEPT !.audio = on]
    /\ subs' = IF conn.authorized THEN AudioSubs(subs, conn') ELSE subs
    /\ UNCHANGED captured

\* handle_voice_call: the answer to a request of the peer.
VoiceCall(accepted) ==
    /\ ~conn.closed /\ conn.voiceAsked
    /\ conn' = [conn EXCEPT !.voiceAsked = FALSE, !.voice = accepted]
    /\ subs' = IF AuthedCamera(conn)
               THEN Subscribed(subs, "audio", AudioEnabled(conn) /\ accepted) ELSE subs
    /\ UNCHANGED captured

\* close_voice_call, by the peer or from the connection manager.
CloseVoiceCall ==
    /\ ~conn.closed /\ conn.authorized
    /\ conn' = [conn EXCEPT !.voice = FALSE]
    /\ subs' = IF AuthedCamera(conn) THEN subs \ {"audio"} ELSE subs
    /\ UNCHANGED captured

-----------------------------------------------------------------------------
(* The peer.                                                               *)

\* update_options: o maps the fields the message sets to their values; every
\* field that is set is followed by the subscriptions it concerns, in order.
Option(o, f, old) == IF f \in DOMAIN o THEN o[f] ELSE old

WithOptions(n, o) ==
    [n EXCEPT !.showCursor = Option(o, "showCursor", @),
              !.followWindow = Option(o, "followWindow", @),
              !.disableAudio = Option(o, "disableAudio", @),
              !.disableClipboard = Option(o, "disableClipboard", @),
              !.disableKeyboard = Option(o, "disableKeyboard", @)]

OptionSubs(S, n, o) ==
    LET m == WithOptions(n, o)
        \* the cursor as seen before disable_keyboard is taken over
        early == PeerKeyboard(n) \/ m.showCursor
        S1 == IF "showCursor" \in DOMAIN o
              THEN Subscribed(Subscribed(S, "cursor", early), "pos", m.showCursor) ELSE S
        S2 == IF "followWindow" \in DOMAIN o THEN Subscribed(S1, "focus", m.followWindow) ELSE S1
        S3 == IF "disableAudio" \in DOMAIN o THEN AudioSubs(S2, m) ELSE S2
        S4 == IF "disableClipboard" \in DOMAIN o
              THEN Subscribed(S3, "clipboard", CanSubClipboard([m EXCEPT !.disableKeyboard = n.disableKeyboard]))
              ELSE S3
    IN IF "disableKeyboard" \in DOMAIN o
       THEN Subscribed(Subscribed(S4, "clipboard", CanSubClipboard(m)),
                       "cursor", PeerKeyboard(m) \/ m.showCursor)
       ELSE S4

\* The options of one message: at most two fields, to bound the instance.
Options == UNION {[F -> BOOLEAN] : F \in {G \in SUBSET Fields : Cardinality(G) <= 2}}

UpdateOptions(o) ==
    /\ ~conn.closed /\ conn.authorized
    /\ conn' = WithOptions(conn, o)
    /\ subs' = OptionSubs(subs, conn, o)
    /\ UNCHANGED captured

VoiceCallRequest ==
    /\ ~conn.closed /\ conn.authorized /\ ~conn.voiceAsked
    /\ conn' = [conn EXCEPT !.voiceAsked = TRUE]
    /\ UNCHANGED <<subs, captured>>

\* The services a remote connection gets when it is confirmed: all but noperms.
Permitted(n) ==
    {s \in Named :
        /\ s = "cursor" => PeerKeyboard(n) \/ n.showCursor
        /\ s = "pos" => n.showCursor
        /\ s = "focus" => n.followWindow
        /\ s = "clipboard" => CanSubClipboard(n)
        /\ s = "audio" => AudioEnabled(n)}

\* try_sub_monitor_services, try_sub_camera_displays.
SubscribeAll(S, C, n) ==
    /\ subs' = IF n.kind = "remote" THEN S \cup Permitted(n) ELSE S
    /\ captured' = C \cup {Primary}

\* send_logon_response: the options of the login are taken over first, then
\* the services are subscribed, unless the peer still has to pick a session
\* of Windows.  A camera connection loses the keyboard at the end.
Login(o) ==
    LET m == WithOptions([conn EXCEPT !.authorized = TRUE], o)
        S == OptionSubs(subs, [conn EXCEPT !.authorized = TRUE], o)
    IN /\ ~conn.closed /\ ~conn.authorized
       /\ conn' = [m EXCEPT !.services = ~conn.waitSid, !.keyboard = @ /\ conn.kind = "remote"]
       /\ IF conn.waitSid THEN subs' = S /\ UNCHANGED captured
          ELSE SubscribeAll(S, captured, m)

\* SelectedSid.
SelectSession ==
    /\ ~conn.closed /\ conn.authorized /\ conn.waitSid /\ ~conn.services
    /\ conn' = [conn EXCEPT !.services = TRUE, !.waitSid = FALSE]
    /\ SubscribeAll(subs, captured, conn)

\* switch_display_to, for a peer that sends CaptureDisplays itself; it knows
\* the displays once it is served.
SwitchDisplay(d) ==
    /\ ~conn.closed /\ conn.services /\ conn.display # d
    /\ conn' = [conn EXCEPT !.display = d]
    /\ captured' = captured \cup {d} /\ UNCHANGED subs

\* capture_displays with the set of displays to show.  The focused window is
\* followed only while one display is shown.
CaptureDisplays(D) ==
    /\ ~conn.closed /\ conn.authorized
    /\ captured' = D
    /\ conn' = [conn EXCEPT !.multi = Cardinality(D) > 1]
    /\ subs' = IF conn.followWindow THEN Subscribed(subs, "focus", ~conn'.multi) ELSE subs

\* Server::remove_connection.
RemoveConnection ==
    /\ ~conn.closed
    /\ conn' = [conn EXCEPT !.closed = TRUE]
    /\ subs' = {} /\ captured' = {}

SubNext ==
    \/ \E on \in BOOLEAN : SwitchKeyboard(on)
    \/ \E on \in BOOLEAN : SwitchClipboard(on)
    \/ \E on \in BOOLEAN : SwitchAudio(on)
    \/ \E accepted \in BOOLEAN : VoiceCall(accepted)
    \/ CloseVoiceCall
    \/ \E o \in Options : UpdateOptions(o)
    \/ VoiceCallRequest
    \/ \E o \in Options : Login(o)
    \/ SelectSession
    \/ \E d \in Display : SwitchDisplay(d)
    \/ \E D \in SUBSET Display \ {{}} : CaptureDisplays(D)
    \/ RemoveConnection

SubSpec == SubInit /\ [][SubNext]_subVars

-----------------------------------------------------------------------------
ConnType ==
    [kind : {"remote", "camera"}, authorized : BOOLEAN, services : BOOLEAN, waitSid : BOOLEAN,
     keyboard : BOOLEAN, clipboard : BOOLEAN, audio : BOOLEAN, showCursor : BOOLEAN,
     followWindow : BOOLEAN, disableAudio : BOOLEAN, disableClipboard : BOOLEAN,
     disableKeyboard : BOOLEAN, voiceAsked : BOOLEAN, voice : BOOLEAN, multi : BOOLEAN,
     display : Display, closed : BOOLEAN]

\* Types, and a connection that was removed is in no service.
SubTypeOK ==
    /\ conn \in ConnType /\ subs \subseteq Named /\ captured \subseteq Display
    /\ conn.closed => subs = {} /\ captured = {}

Serving == conn.kind = "remote" /\ conn.services /\ ~conn.closed

\* After any sequence of permissions, options and logins a remote connection
\* gets clipboard, sound and pointer position exactly when permission and
\* option of this moment allow it.
SubsFollowPermissions ==
    Serving => /\ "clipboard" \in subs <=> CanSubClipboard(conn)
               /\ "audio" \in subs <=> AudioEnabled(conn)
               /\ "pos" \in subs <=> conn.showCursor

\* The pointer's image goes to a peer that may use the keyboard or wants to
\* see it, and never to one that neither has the permission nor asked.
CursorFollowsPermissions ==
    Serving => /\ PeerKeyboard(conn) \/ conn.showCursor => "cursor" \in subs
               /\ "cursor" \in subs => conn.keyboard \/ conn.showCursor

\* The focused window is followed while the peer wants it and shows one display.
FocusFollowsOption ==
    Serving => /\ "focus" \in subs => conn.followWindow
               /\ conn.followWindow /\ ~conn.multi => "focus" \in subs

\* A camera connection hears the host during an accepted voice call only, and
\* only while permission and option allow it.
CameraHearsCallOnly ==
    AuthedCamera(conn) /\ ~conn.closed
        => ("audio" \in subs <=> conn.voice /\ AudioEnabled(conn))

\* What a connection's subscriptions keep to, in every state.
SubSafe ==
    /\ SubTypeOK /\ SubsFollowPermissions /\ CursorFollowsPermissions
    /\ FocusFollowsOption /\ CameraHearsCallOnly
=============================================================================
