----------------------------- MODULE RdService -----------------------------
(***************************************************************************)
(* A service of the remote desktop host: its two subscriber maps and the   *)
(* thread that serves them (server/service.rs), with the callback of the   *)
(* mouse cursor service (server/input_service.rs), the one service that    *)
(* both answers new subscribers with a snapshot and keeps a cache per      *)
(* subscriber.  Connections subscribe and unsubscribe at any time, also    *)
(* between the snapshot and the swap of the maps; a cursor image goes out  *)
(* in full once per subscription and as an id afterwards.                  *)
(***************************************************************************)
EXTENDS Naturals, FiniteSets

CONSTANTS
    SvcConn,        \* connections
    SvcCursor,      \* cursor images (hcursor)
    SvcNone         \* no image

ASSUME SvcNoneNoImage == SvcNone \notin SvcCursor

VARIABLES
    subscribes,     \* ServiceInner.subscribes
    newSubscribes,  \* ServiceInner.new_subscribes
    cached,         \* MouseCursorSub.cached, per connection
    svcActive,      \* ServiceInner.active
    svcLoop,        \* where the thread is: "sleep", "run", "snapshot", "swap", "exit"
    mayReset,       \* may_reset of ServiceTmpl::repeat
    svcFailed,      \* the last callback returned an error
    hcursor,        \* StateCursor.hcursor; cursor_data always goes with it
    system,         \* the cursor the system shows
    peerHas,        \* images the peer's client has received in full
    peerShows,      \* the image the peer shows
    wanted,         \* history: connections whose last call was a subscription
    late            \* history: subscribed between a snapshot and its swap

svcVars == <<subscribes, newSubscribes, cached, svcActive, svcLoop, mayReset, svcFailed,
             hcursor, system, peerHas, peerShows, wanted, late>>

SvcInit ==
    /\ subscribes = {} /\ newSubscribes = {} /\ wanted = {} /\ late = {}
    /\ cached = [c \in SvcConn |-> {}]
    /\ peerHas = [c \in SvcConn |-> {}]
    /\ peerShows = [c \in SvcConn |-> SvcNone]
    /\ svcActive = TRUE /\ svcLoop = "sleep" /\ mayReset = FALSE /\ svcFailed = FALSE
    /\ hcursor = SvcNone
    /\ system \in SvcCursor

HasSubscribes == subscribes \cup newSubscribes # {}

\* MouseCursorSub::send to every connection of S: the image in full when the
\* subscriber has not had it, otherwise its id, which the client looks up in
\* its own cache.  StateCursor's first cursor_data is an empty message.
SvcSend(S, k) ==
    IF k = SvcNone
    THEN UNCHANGED <<cached, peerHas, peerShows>>
    ELSE /\ cached' = [c \in SvcConn |-> IF c \in S THEN cached[c] \cup {k} ELSE cached[c]]
         /\ peerHas' = [c \in SvcConn |-> IF c \in S /\ k \notin cached[c]
                                          THEN peerHas[c] \cup {k} ELSE peerHas[c]]
         /\ peerShows' = [c \in SvcConn |-> IF c \in S /\ (k \notin cached[c] \/ k \in peerHas[c])
                                            THEN k ELSE peerShows[c]]

-----------------------------------------------------------------------------
(* Connections.                                                            *)

BugSubscribeBoth(c) ==
    /\ newSubscribes' = newSubscribes \cup {c}
    /\ cached' = [cached EXCEPT ![c] = {}]
    /\ wanted' = wanted \cup {c}
    /\ late' = IF svcLoop = "swap" THEN late \cup {c} ELSE late \ {c}
    /\ UNCHANGED <<subscribes, svcActive, svcLoop, mayReset, svcFailed, hcursor, system,
                   peerHas, peerShows>>

\* on_subscribe, called by Server::subscribe and Server::add_connection.  A
\* connection that waits in new_subscribes is filed again, with a new cache.
OnSubscribe(c) ==
    /\ wanted' = wanted \cup {c}
    /\ IF c \in subscribes
       THEN UNCHANGED <<newSubscribes, cached, late>>
       ELSE /\ newSubscribes' = newSubscribes \cup {c}
            /\ cached' = [cached EXCEPT ![c] = {}]
            /\ late' = IF svcLoop = "swap" THEN late \cup {c} ELSE late \ {c}
    /\ UNCHANGED <<subscribes, svcActive, svcLoop, mayReset, svcFailed, hcursor, system,
                   peerHas, peerShows>>

\* on_unsubscribe: the second map is looked at only when the first has no entry.
OnUnsubscribe(c) ==
    /\ wanted' = wanted \ {c}
    /\ IF c \in subscribes
       THEN subscribes' = subscribes \ {c} /\ UNCHANGED newSubscribes
       ELSE newSubscribes' = newSubscribes \ {c} /\ UNCHANGED subscribes
    /\ UNCHANGED <<cached, svcActive, svcLoop, mayReset, svcFailed, hcursor, system,
                   peerHas, peerShows, late>>

\* join, from the server's drop: the thread sees the flag at its next round.
SvcJoin ==
    /\ svcActive /\ svcActive' = FALSE
    /\ UNCHANGED <<subscribes, newSubscribes, cached, svcLoop, mayReset, svcFailed, hcursor,
                   system, peerHas, peerShows, wanted, late>>

\* The user moves the pointer over something else (external).
SystemCursor ==
    /\ \E k \in SvcCursor \ {system} : system' = k
    /\ UNCHANGED <<subscribes, newSubscribes, cached, svcActive, svcLoop, mayReset, svcFailed,
                   hcursor, peerHas, peerShows, wanted, late>>

-----------------------------------------------------------------------------
(* The thread of ServiceTmpl::repeat.                                      *)

SvcRoundEnds(next) ==
    /\ svcLoop' = next
    /\ UNCHANGED <<svcActive, system, wanted>>

\* One turn of the while loop up to the callback: enter it, reset the state
\* once when nobody is subscribed any more, or leave the thread.
SvcRound ==
    /\ svcLoop = "sleep"
    /\ \/ svcActive /\ HasSubscribes /\ mayReset' = TRUE /\ UNCHANGED hcursor /\ SvcRoundEnds("run")
       \/ /\ svcActive /\ ~HasSubscribes /\ mayReset
          /\ mayReset' = FALSE /\ hcursor' = SvcNone /\ SvcRoundEnds("sleep")
       \/ ~svcActive /\ UNCHANGED <<mayReset, hcursor>> /\ SvcRoundEnds("exit")
    /\ UNCHANGED <<subscribes, newSubscribes, cached, svcFailed, peerHas, peerShows, late>>

\* run_cursor up to its snapshot: a cursor other than the last one goes to all
\* subscribers; get_cursor may have none.
RunCursor ==
    /\ svcLoop = "run"
    /\ \/ system # hcursor /\ hcursor' = system /\ SvcSend(subscribes, system)
       \/ UNCHANGED <<hcursor, cached, peerHas, peerShows>>
    /\ svcFailed' = FALSE /\ SvcRoundEnds("snapshot")
    /\ UNCHANGED <<subscribes, newSubscribes, mayReset, late>>

\* get_cursor or get_cursor_data fails: the round ends before the snapshot.
RunCursorFails ==
    /\ svcLoop = "run" /\ svcFailed' = TRUE /\ SvcRoundEnds("sleep")
    /\ UNCHANGED <<subscribes, newSubscribes, cached, mayReset, hcursor, peerHas, peerShows, late>>

BugSnapshotOnlyFirst ==
    /\ svcLoop = "snapshot"
    /\ IF newSubscribes = {} \/ subscribes # {}
       THEN SvcRoundEnds("sleep") /\ UNCHANGED <<cached, peerHas, peerShows>>
       ELSE SvcRoundEnds("swap") /\ SvcSend(newSubscribes, hcursor)
    /\ UNCHANGED <<subscribes, newSubscribes, mayReset, svcFailed, hcursor, late>>

\* ServiceTmpl::snapshot: the callback sends cursor_data to the new subscribers.
Snapshot ==
    /\ svcLoop = "snapshot"
    /\ IF newSubscribes = {}
       THEN SvcRoundEnds("sleep") /\ UNCHANGED <<cached, peerHas, peerShows>>
       ELSE SvcRoundEnds("swap") /\ SvcSend(newSubscribes, hcursor)
    /\ UNCHANGED <<subscribes, newSubscribes, mayReset, svcFailed, hcursor, late>>

\* Drop of ServiceSwap: swap_new_subscribes.
SvcSwap ==
    /\ svcLoop = "swap"
    /\ subscribes' = subscribes \cup newSubscribes /\ newSubscribes' = {}
    /\ SvcRoundEnds("sleep")
    /\ UNCHANGED <<cached, mayReset, svcFailed, hcursor, peerHas, peerShows, late>>

SvcThread == SvcRound \/ RunCursor \/ RunCursorFails \/ Snapshot \/ SvcSwap

SvcNext ==
    \/ \E c \in SvcConn : OnSubscribe(c)
    \/ \E c \in SvcConn : OnUnsubscribe(c)
    \/ SvcJoin
    \/ SystemCursor
    \/ SvcThread

\* The operating system runs the thread.
SvcSpec == SvcInit /\ [][SvcNext]_svcVars /\ WF_svcVars(SvcThread)

-----------------------------------------------------------------------------
\* Types, and the cursor state is empty when the thread has reset it.
SvcTypeOK ==
    /\ subscribes \subseteq SvcConn /\ newSubscribes \subseteq SvcConn
    /\ wanted \subseteq SvcConn /\ late \subseteq SvcConn
    /\ cached \in [SvcConn -> SUBSET SvcCursor]
    /\ peerHas \in [SvcConn -> SUBSET SvcCursor]
    /\ peerShows \in [SvcConn -> SvcCursor \cup {SvcNone}]
    /\ svcLoop \in {"sleep", "run", "snapshot", "swap", "exit"}
    /\ svcActive \in BOOLEAN /\ mayReset \in BOOLEAN /\ svcFailed \in BOOLEAN
    /\ hcursor \in SvcCursor \cup {SvcNone} /\ system \in SvcCursor
    /\ ~mayReset => hcursor = SvcNone

\* on_unsubscribe looks into one map only: a connection is never in both, and
\* the two maps together hold exactly the connections that want the service,
\* wherever the thread is between snapshot and swap.
SubscribersWhole ==
    /\ subscribes \cap newSubscribes = {}
    /\ subscribes \cup newSubscribes = wanted

\* MouseCursorSub sends a bare id only for an image the peer's client has.
CursorIdKnown == \A c \in wanted : cached[c] \subseteq peerHas[c]

\* When the thread sleeps, every subscriber that was given a snapshot shows
\* the cursor of the last round, however often it changed or the connection
\* left and came back.  The exception is one that subscribed in the gap
\* between snapshot and swap: it waits for the next change.
CursorShown ==
    svcLoop = "sleep" /\ hcursor # SvcNone
        => \A c \in subscribes \ late : peerShows[c] = hcursor

\* A connection in new_subscribes is served, unless it leaves, the callback
\* fails or the service is joined.
NewSubscriberServed ==
    \A c \in SvcConn : c \in newSubscribes ~> (c \notin newSubscribes \/ svcFailed \/ ~svcActive)

\* When the last subscriber has gone the thread drops what it holds (for the
\* cursor: its images and the keys held down), unless another one comes.
IdleStateReset == (mayReset /\ ~HasSubscribes) ~> (~mayReset \/ HasSubscribes \/ ~svcActive)

\* join ends: the thread leaves whatever it was doing.
JoinEnds == ~svcActive ~> svcLoop = "exit"

\* What the service keeps to, in every state.
SvcSafe == SvcTypeOK /\ SubscribersWhole /\ CursorIdKnown /\ CursorShown

\* What its thread comes to, whatever the connections do meanwhile.
SvcProgress == NewSubscriberServed /\ IdleStateReset /\ JoinEnds
=============================================================================
