------------------------------ MODULE RdVideo ------------------------------
(***************************************************************************)
(* The video service of one display (server/video_service.rs): the thread  *)
(* that captures, encodes and sends frames, the switch to a new encoder,   *)
(* and the wait for the viewers to fetch a frame before the next one.  A   *)
(* viewer that joins a running stream cannot decode it without the first   *)
(* frame of an encoder; a viewer that is slow, closes or times out must    *)
(* not stop the others.  One display; the capture itself is external.      *)
(***************************************************************************)
EXTENDS Naturals, FiniteSets

CONSTANTS
    VConn,          \* connections
    VNobody,        \* no connection owns privacy mode
    VMaxUnruly      \* bound: timeouts with a slow viewer, changes of privacy
                    \* mode, switches of display, codec and user, failures

ASSUME VNobodyNoConn ==
    VNobody \notin VConn /\ IsFiniteSet(VConn) /\ VMaxUnruly \in Nat

VARIABLES
    vSubs, vNew,    \* subscribes and new_subscribes of the service
    vLoop,          \* "sleep", "start", "check", "capture", "wait"
    vFirst,         \* the encoder has not yet sent a frame
    vSend,          \* frame_controller.send_conn_ids
    vDisplayIds,    \* the display's entry in DISPLAY_CONN_IDS
    vFetched,       \* fetched_conn_ids
    vNotices,       \* FRAME_FETCHED_NOTIFIERS: the connections with a notice in the channel
    vPending,       \* frames in a connection's video queue
    vStream,        \* "none", "good" or "broken": can the viewer decode
    vComplaints,    \* refresh requests on their way from viewers
    vRefresh,       \* OPTION_REFRESH
    vPrivacy,       \* owner of privacy mode
    vCapPrivacy,    \* privacy_mode_id of the capturer
    vClosing,       \* connections whose loop has ended, before remove_connection
    vGone,          \* removed connections
    vUnruly,        \* history: how many of these there were
    vLeft           \* history: a viewer has unsubscribed

vVars == <<vSubs, vNew, vLoop, vFirst, vSend, vDisplayIds, vFetched, vNotices, vPending,
           vStream, vComplaints, vRefresh, vPrivacy, vCapPrivacy, vClosing, vGone, vUnruly, vLeft>>

vConnVars == <<vPending, vComplaints, vClosing, vGone>>
vWaitVars == <<vSend, vDisplayIds, vFetched>>

VInit ==
    /\ vSubs = {} /\ vNew = {} /\ vSend = {} /\ vDisplayIds = {} /\ vFetched = {}
    /\ vLoop = "sleep" /\ vFirst = TRUE
    /\ vNotices = {} /\ vPending = [c \in VConn |-> 0]
    /\ vStream = [c \in VConn |-> "none"]
    /\ vComplaints = {} /\ vRefresh = FALSE /\ vPrivacy = VNobody /\ vCapPrivacy = VNobody
    /\ vClosing = {} /\ vGone = {} /\ vUnruly = 0 /\ vLeft = FALSE

VOk == vSubs \cup vNew # {}

-----------------------------------------------------------------------------
(* Connections.                                                            *)

\* A disturbance that is bounded to keep the instance finite.
VDisturb == vUnruly < VMaxUnruly /\ vUnruly' = vUnruly + 1

VSubscribe(c) ==
    /\ c \notin vSubs \cup vNew \cup vClosing \cup vGone
    /\ vNew' = vNew \cup {c}
    /\ vStream' = [vStream EXCEPT ![c] = "none"]
    /\ UNCHANGED <<vSubs, vLoop, vFirst, vWaitVars, vNotices, vRefresh, vPrivacy,
                   vCapPrivacy, vLeft, vConnVars, vUnruly>>

VUnsubscribe(c) ==
    /\ c \in vSubs \cup vNew /\ c \notin vClosing
    /\ VDisturb /\ vLeft' = TRUE
    /\ vSubs' = vSubs \ {c} /\ vNew' = vNew \ {c}
    /\ vStream' = [vStream EXCEPT ![c] = "none"]
    /\ UNCHANGED <<vLoop, vFirst, vWaitVars, vNotices, vRefresh, vPrivacy, vCapPrivacy, vConnVars>>

\* A connection's loop takes a frame from its video queue; the notice goes
\* to the display's channel (notify_video_frame_fetched).  A viewer that
\* cannot decode it asks for a refresh.
VFetch(c) ==
    /\ c \notin vClosing \cup vGone /\ vPending[c] > 0
    /\ vPending' = [vPending EXCEPT ![c] = @ - 1]
    /\ vNotices' = vNotices \cup {c}
    /\ vComplaints' = IF vStream[c] = "broken" THEN vComplaints \cup {c} ELSE vComplaints
    /\ UNCHANGED <<vSubs, vNew, vLoop, vFirst, vWaitVars, vStream, vRefresh, vPrivacy,
                   vCapPrivacy, vLeft, vClosing, vGone, vUnruly>>

\* RefreshVideo: refresh_video_display sets the option of the service, for a
\* viewer with a decoder error or for a user.
VRefresh(c) ==
    /\ c \notin vClosing \cup vGone
    /\ \/ c \in vComplaints /\ UNCHANGED vUnruly
       \/ c \notin vComplaints /\ VDisturb
    /\ vComplaints' = vComplaints \ {c}
    /\ vRefresh' = TRUE
    /\ UNCHANGED <<vSubs, vNew, vLoop, vFirst, vWaitVars, vNotices, vStream, vPrivacy,
                   vCapPrivacy, vLeft, vPending, vClosing, vGone>>

\* The end of the loop in Connection::start: privacy mode is turned off if it
\* is this connection's, and notify_video_frame_fetched_by_conn_id releases
\* the wait for it.
VClose(c) ==
    /\ c \notin vClosing \cup vGone
    /\ vClosing' = vClosing \cup {c}
    /\ vPrivacy' = IF vPrivacy = c THEN VNobody ELSE vPrivacy
    /\ vNotices' = vNotices \cup ({c} \cap vDisplayIds)
    /\ UNCHANGED <<vSubs, vNew, vLoop, vFirst, vWaitVars, vStream, vRefresh, vCapPrivacy,
                   vLeft, vPending, vComplaints, vGone, vUnruly>>

\* Server::remove_connection, after the awaits at the end of the connection.
VRemove(c) ==
    /\ c \in vClosing
    /\ vClosing' = vClosing \ {c} /\ vGone' = vGone \cup {c}
    /\ vSubs' = vSubs \ {c} /\ vNew' = vNew \ {c}
    /\ vPending' = [vPending EXCEPT ![c] = 0] /\ vComplaints' = vComplaints \ {c}
    /\ vStream' = [vStream EXCEPT ![c] = "none"]
    /\ UNCHANGED <<vLoop, vFirst, vWaitVars, vNotices, vRefresh, vPrivacy, vCapPrivacy,
                   vLeft, vUnruly>>

\* Privacy mode is switched on by a connection that watches, or off (external:
\* privacy_mode.rs).
VTogglePrivacy ==
    /\ VDisturb
    /\ \/ vPrivacy = VNobody /\ \E c \in VConn \ (vClosing \cup vGone) : vPrivacy' = c
       \/ vPrivacy # VNobody /\ vPrivacy' = VNobody
    /\ UNCHANGED <<vSubs, vNew, vLoop, vFirst, vWaitVars, vNotices, vStream, vRefresh,
                   vCapPrivacy, vLeft, vConnVars>>

-----------------------------------------------------------------------------
(* The thread: ServiceTmpl::run around video_service::run.                 *)

\* run ends, in order or by an error: Drop of Raii, then the pause of the
\* service's loop.  The notices stay in their channel.
VEnd ==
    /\ vLoop' = "sleep" /\ vDisplayIds' = {} /\ vSend' = {} /\ vFetched' = {}

VEnter ==
    /\ vLoop = "sleep" /\ VOk /\ vLoop' = "start"
    /\ UNCHANGED <<vSubs, vNew, vFirst, vWaitVars, vNotices, vStream, vRefresh, vPrivacy,
                   vCapPrivacy, vLeft, vConnVars, vUnruly>>

\* Capturer and encoder are set up; a refresh that is asked for is thereby done.
VStart ==
    /\ vLoop = "start" /\ vLoop' = "check"
    /\ vCapPrivacy' = vPrivacy /\ vFirst' = TRUE /\ vRefresh' = FALSE
    /\ UNCHANGED <<vSubs, vNew, vWaitVars, vNotices, vStream, vPrivacy, vConnVars, vUnruly,
                   vLeft>>

\* get_capturer or setup_encoder fails.
VStartFails ==
    /\ vLoop = "start" /\ VEnd /\ VDisturb
    /\ UNCHANGED <<vSubs, vNew, vFirst, vNotices, vStream, vRefresh, vPrivacy, vCapPrivacy,
                   vLeft, vConnVars>>

\* The checks at the head of the loop: nobody subscribed, refresh, a changed
\* privacy mode.
VCheck ==
    /\ vLoop = "check"
    /\ \/ VOk /\ ~vRefresh /\ vCapPrivacy = vPrivacy
          /\ vLoop' = "capture" /\ vSend' = {} /\ UNCHANGED <<vDisplayIds, vFetched>>
       \/ (~VOk \/ vRefresh \/ vCapPrivacy # vPrivacy) /\ VEnd
    /\ UNCHANGED <<vSubs, vNew, vFirst, vNotices, vStream, vRefresh, vPrivacy, vCapPrivacy,
                   vLeft, vConnVars, vUnruly>>

\* A change of codec, quality, record state or desktop.
VSwitch ==
    /\ vLoop = "check" /\ VOk /\ VEnd /\ VDisturb
    /\ UNCHANGED <<vSubs, vNew, vFirst, vNotices, vStream, vRefresh, vPrivacy, vCapPrivacy,
                   vLeft, vConnVars>>

\* try_broadcast_display_changed: the message goes to old and new subscribers,
\* which the snapshot swaps, and the run ends.
VDisplayChanged ==
    /\ vLoop \in {"check", "capture"} /\ VOk
    /\ vSubs' = vSubs \cup vNew /\ vNew' = {} /\ VEnd /\ VDisturb
    /\ UNCHANGED <<vFirst, vNotices, vStream, vRefresh, vPrivacy, vCapPrivacy, vLeft,
                   vConnVars>>

\* A capture without a frame (WouldBlock): nothing to wait for.
VNoFrame ==
    /\ vLoop = "capture" /\ vLoop' = "wait" /\ vFetched' = {}
    /\ UNCHANGED <<vSubs, vNew, vFirst, vSend, vDisplayIds, vNotices, vStream, vRefresh,
                   vPrivacy, vCapPrivacy, vLeft, vConnVars, vUnruly>>

\* encode_to_message succeeds: send_video_frame to the subscribers S, set_send.
VSendFrame(S) ==
    /\ vFirst' = FALSE
    /\ vStream' = [c \in VConn |-> IF c \notin S THEN vStream[c]
                                   ELSE IF vFirst THEN "good"
                                   ELSE IF vStream[c] = "none" THEN "broken" ELSE vStream[c]]
    /\ vPending' = [c \in VConn |-> IF c \in S \ vClosing THEN vPending[c] + 1 ELSE vPending[c]]
    /\ vSend' = S
    /\ vDisplayIds' = IF S = {} THEN vDisplayIds ELSE S
    /\ vLoop' = "wait" /\ vFetched' = {}

BugFrameNoSwitch ==
    /\ vLoop = "capture"
    /\ vSubs' = vSubs \cup vNew /\ vNew' = {} /\ VSendFrame(vSubs')
    /\ UNCHANGED <<vNotices, vRefresh, vPrivacy, vCapPrivacy, vLeft, vComplaints, vClosing,
                   vGone, vUnruly>>

\* handle_one_frame: new subscribers are swapped in; when others are there
\* already, all of them go on with a new encoder.
VFrame ==
    /\ vLoop = "capture"
    /\ vSubs' = vSubs \cup vNew /\ vNew' = {}
    /\ IF vNew # {} /\ vSubs # {}
       THEN VEnd /\ UNCHANGED <<vFirst, vStream, vPending>>
       ELSE VSendFrame(vSubs')
    /\ UNCHANGED <<vNotices, vRefresh, vPrivacy, vCapPrivacy, vLeft, vComplaints, vClosing,
                   vGone, vUnruly>>

\* The capture or the encoder fails after the swap.
VFrameFails ==
    /\ vLoop = "capture" /\ VEnd /\ VDisturb
    /\ vSubs' = vSubs \cup vNew /\ vNew' = {}
    /\ UNCHANGED <<vFirst, vNotices, vStream, vRefresh, vPrivacy, vCapPrivacy, vLeft,
                   vConnVars>>

\* A single encode error: the new subscribers are in, the frame goes to nobody.
VEncodeFails ==
    /\ vLoop = "capture" /\ (vNew = {} \/ vSubs = {}) /\ VDisturb
    /\ vSubs' = vSubs \cup vNew /\ vNew' = {}
    /\ vLoop' = "wait" /\ vFetched' = {}
    /\ UNCHANGED <<vFirst, vSend, vDisplayIds, vNotices, vStream, vRefresh, vPrivacy,
                   vCapPrivacy, vLeft, vConnVars>>

VRound ==
    /\ vLoop' = "check" /\ vDisplayIds' = {} /\ vFetched' = {} /\ UNCHANGED vSend

\* try_wait_next drains the channel; the loop ends when as many connections
\* have fetched as the frame was sent to.
VWait ==
    /\ vLoop = "wait" /\ vCapPrivacy = vPrivacy
    /\ \/ vSend = {} /\ UNCHANGED vNotices /\ VRound
       \/ /\ vSend # {} /\ vNotices # {}
          /\ vNotices' = {}
          /\ IF Cardinality(vFetched \cup vNotices) >= Cardinality(vSend)
             THEN VRound
             ELSE vFetched' = vFetched \cup vNotices /\ UNCHANGED <<vLoop, vSend, vDisplayIds>>
    /\ UNCHANGED <<vSubs, vNew, vFirst, vStream, vRefresh, vPrivacy, vCapPrivacy, vLeft,
                   vConnVars, vUnruly>>

BugNoTimeout == FALSE

\* Three seconds without all of them: the next frame is sent regardless.  A
\* timeout that only a closed connection causes is not counted.
VTimeout ==
    /\ vLoop = "wait" /\ vSend # {} /\ VRound
    /\ IF vSend \subseteq vFetched \cup vClosing \cup vGone
       THEN UNCHANGED vUnruly
       ELSE VDisturb
    /\ UNCHANGED <<vSubs, vNew, vFirst, vNotices, vStream, vRefresh, vPrivacy, vCapPrivacy,
                   vLeft, vConnVars>>

\* Privacy mode changed while the thread waits: switch at once.
VWaitSwitch ==
    /\ vLoop = "wait" /\ vCapPrivacy # vPrivacy /\ VEnd
    /\ UNCHANGED <<vSubs, vNew, vFirst, vNotices, vStream, vRefresh, vPrivacy, vCapPrivacy,
                   vLeft, vConnVars, vUnruly>>

VThread ==
    \/ VEnter \/ VStart \/ VCheck \/ VNoFrame \/ VFrame \/ VWait \/ VTimeout \/ VWaitSwitch

VFaults == VSwitch \/ VStartFails \/ VDisplayChanged \/ VFrameFails \/ VEncodeFails

VNext ==
    \/ \E c \in VConn : \/ VSubscribe(c) \/ VUnsubscribe(c) \/ VFetch(c)
                        \/ VRefresh(c) \/ VClose(c) \/ VRemove(c)
    \/ VTogglePrivacy
    \/ VThread
    \/ VFaults

\* The system runs the thread and the loops of the connections; a connection
\* that has ended its loop is removed; a request for a refresh arrives; and a
\* capturer gives a frame in the end (it falls back to GDI after three empty
\* captures).
VSpec ==
    /\ VInit /\ [][VNext]_vVars
    /\ WF_vVars(VThread) /\ SF_vVars(VFrame)
    /\ \A c \in VConn : /\ WF_vVars(VFetch(c)) /\ WF_vVars(VRemove(c))
                         /\ WF_vVars(c \in vComplaints /\ VRefresh(c))

-----------------------------------------------------------------------------
\* Types, and the entry of DISPLAY_CONN_IDS never outlives the wait.
VTypeOK ==
    /\ vSubs \subseteq VConn /\ vNew \subseteq VConn /\ vNotices \subseteq VConn
    /\ vSend \subseteq VConn /\ vDisplayIds \subseteq VConn /\ vFetched \subseteq VConn
    /\ vClosing \subseteq VConn /\ vGone \subseteq VConn
    /\ vLoop \in {"sleep", "start", "check", "capture", "wait"}
    /\ vFirst \in BOOLEAN /\ vRefresh \in BOOLEAN
    /\ vPending \in [VConn -> Nat] /\ vStream \in [VConn -> {"none", "good", "broken"}]
    /\ vPrivacy \in VConn \cup {VNobody} /\ vCapPrivacy \in VConn \cup {VNobody}
    /\ vUnruly \in 0 .. VMaxUnruly /\ vLeft \in BOOLEAN
    /\ vLoop # "wait" => vDisplayIds = {}

\* "so that new sub and old sub share the same encoder after switch": no two
\* subscribers are served by one stream that only one of them can decode.
SharedEncoder ==
    \A c, d \in vSubs : ~(vStream[c] = "good" /\ vStream[d] = "broken")

\* The thread runs at most one frame ahead of a viewer, and one more for each
\* timeout, change of privacy mode and closed viewer, whose late notice is
\* counted in place of another's (two for a closed one: it may also end its
\* privacy mode).  Only a viewer that unsubscribed and goes on fetching may
\* release the thread more often (README, section 7).
FramesBehind ==
    ~vLeft => \A c \in VConn :
        vPending[c] <= 1 + vUnruly + 2 * Cardinality(vClosing \cup vGone)

\* A viewer whose stream is broken gets a decodable one, or leaves: a closed,
\* slow or silent viewer cannot prevent it.
BrokenRepaired ==
    \A c \in VConn : vStream[c] = "broken" ~> vStream[c] # "broken"

\* A new viewer gets frames or leaves, whoever else closes, stalls or switches.
ViewerServed ==
    \A c \in VConn : c \in vNew ~> (vStream[c] # "none" \/ c \notin vSubs \cup vNew)

\* What the display's service keeps to, in every state.
VSafe == VTypeOK /\ SharedEncoder /\ FramesBehind

\* What its viewers come to.
VProgress == BrokenRepaired /\ ViewerServed
=============================================================================
