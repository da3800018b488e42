------------------------------ MODULE RdLogin ------------------------------
(***************************************************************************)
(* How a connection of the host gets authorized and ends                   *)
(* (server/connection.rs, ui_cm_interface.rs).  Every connection is a task *)
(* of its own; the tasks share LOGIN_FAILURES, SESSIONS (what lets a peer  *)
(* reconnect without a new password), AUTHED_CONNS and the one-time        *)
(* password, which changes whenever an authorized connection ends.  The    *)
(* connection manager (CM) is another process: it is told of logins, asks  *)
(* the host's user, and may go away.  The connections here belong to one   *)
(* session key and one address, where they do share that state.            *)
(***************************************************************************)
EXTENDS Naturals, Sequences, FiniteSets

CONSTANTS
    LgConn,         \* connections, in the order the host accepts them
    LgMaxTries,     \* bound: login requests of a behaviour
    LgFailLimit,    \* the limit of 30 failures, scaled
    LgMinuteLimit   \* the limit of 6 within a minute, scaled

ASSUME LgBounds == LgMaxTries \in Nat /\ LgFailLimit \in Nat /\ LgMinuteLimit \in Nat

VARIABLES
    lgPhase,        \* where each connection's task stands
    lgKind,         \* AuthConnType: "remote" or "file"
    lgTfa,          \* require_2fa is Some
    lgRead,         \* what check_failure read, and the password to validate
    lgHold,         \* session_last_recv_time refers to the entry of SESSIONS
    lgAuthed,       \* AUTHED_CONNS
    lgPw,           \* the one-time password: numbers from FirstPw
    lgSess,         \* the entry of SESSIONS for the key
    lgFail,         \* LOGIN_FAILURES: 0 for passwords, 1 for codes
    lgToCm, lgToConn, lgIpc, \* the two directions of the pipe to the CM, and its state
    lgCm,           \* the CM's CLIENTS entry
    lgTries,        \* counts messages against LgMaxTries
    lgCode          \* history: a right code was given for the session's password

lgVars == <<lgPhase, lgKind, lgTfa, lgRead, lgHold, lgAuthed, lgPw, lgSess, lgFail,
            lgToCm, lgToConn, lgIpc, lgCm, lgTries, lgCode>>
lgPipe == <<lgToCm, lgToConn, lgIpc, lgCm>>

Wrong == 0                      \* a password that is none of the others
Permanent == 1
FirstPw == 2
NoRead == [fail |-> 0, pw |-> Wrong]
NoSession == [on |-> FALSE, pw |-> Wrong, tfa |-> FALSE]
Alive(c) == lgPhase[c] \in {"open", "check", "code", "check2", "authed"}
Listening(c) == lgPhase[c] \in {"open", "code", "authed"}   \* in the select of the loop

LgInit ==
    /\ lgPhase = [c \in LgConn |-> "off"]
    /\ lgKind \in [LgConn -> {"remote", "file"}]
    /\ \E two \in BOOLEAN : lgTfa = [c \in LgConn |-> two]
    /\ lgRead = [c \in LgConn |-> NoRead]
    /\ lgHold = [c \in LgConn |-> FALSE]
    /\ lgAuthed = {} /\ lgPw = FirstPw /\ lgSess = NoSession
    /\ lgFail = [i \in {0, 1} |-> 0]
    /\ lgToCm = [c \in LgConn |-> <<>>] /\ lgToConn = [c \in LgConn |-> <<>>]
    /\ lgIpc = [c \in LgConn |-> "none"] /\ lgCm = [c \in LgConn |-> "none"]
    /\ lgTries = 0 /\ lgCode = FALSE

-----------------------------------------------------------------------------
(* Pieces of the handlers.                                                 *)

\* tx_to_cm: messages wait for the pipe until it is up and are lost once it is
\* down.
Tell(c, msg) == IF lgIpc[c] = "down" THEN lgToCm ELSE [lgToCm EXCEPT ![c] = Append(@, msg)]

Passes(sess, tfa) == ~tfa \/ (sess.on /\ sess.tfa)

Authorized(c, sess) ==
    /\ lgPhase' = [lgPhase EXCEPT ![c] = "authed"]
    /\ lgAuthed' = lgAuthed \cup {c}
    /\ lgHold' = [lgHold EXCEPT ![c] = sess.on]

\* send_logon_response_and_keep_alive and then try_start_cm(.., authorized).
\* In the phase "code" the connection is open and its peer was asked for the code.
Logon(c, sess, tfa) ==
    \/ Passes(sess, tfa) /\ Authorized(c, sess) /\ lgToCm' = Tell(c, "Authed")
    \/ /\ ~Passes(sess, tfa)
       /\ lgPhase' = [lgPhase EXCEPT ![c] = "code"] /\ lgToCm' = Tell(c, "Waiting")
       /\ UNCHANGED <<lgAuthed, lgHold>>

BugSessionAfter(c) == NoSession

\* check_remove_session: a connection that is closed for good takes the session
\* along, unless it is an accessory of another authorized remote connection.
SessionAfter(c) ==
    IF \/ c \in lgAuthed /\ lgKind[c] = "remote"
       \/ ~\E d \in lgAuthed \ {c} : lgKind[d] = "remote"
    THEN NoSession ELSE lgSess

DropSession(sess) ==
    /\ lgSess' = sess
    /\ lgHold' = IF sess.on THEN lgHold ELSE [c \in LgConn |-> FALSE]
    /\ lgCode' = (lgCode /\ sess.on)

\* The CM keeps the entry of a connection that transferred files.
Farewell(c) == IF lgKind[c] = "file" THEN {"Close", "Disconnected"} ELSE {"Close"}

\* on_close and the break out of the loop.
Leaves(c, msg) ==
    /\ lgPhase' = [lgPhase EXCEPT ![c] = "closing"]
    /\ lgToCm' = Tell(c, msg)

-----------------------------------------------------------------------------
(* The peer.                                                               *)

LgConnect(c) ==
    /\ lgPhase[c] = "off"
    /\ lgPhase' = [lgPhase EXCEPT ![c] = "open"]
    /\ UNCHANGED <<lgKind, lgTfa, lgRead, lgHold, lgAuthed, lgPw, lgSess, lgFail, lgPipe,
                   lgTries, lgCode>>

\* What a peer sends: a password of its user, or the one it remembers from the
\* session.
Passwords == {Wrong, lgPw, Permanent} \cup (IF lgSess.on THEN {lgSess.pw} ELSE {})

IsRecentSession(pw) == lgSess.on /\ pw = lgSess.pw /\ pw # Wrong

BugCheckFailure(c, i, pw, next) ==
    \/ /\ i = 0 \/ lgFail[i] <= LgFailLimit
       /\ lgRead' = [lgRead EXCEPT ![c] = [fail |-> lgFail[i], pw |-> pw]]
       /\ lgPhase' = [lgPhase EXCEPT ![c] = next]
    \/ /\ lgFail[i] > LgMinuteLimit
       /\ UNCHANGED <<lgRead, lgPhase>>

\* check_failure(i): refuses past the limits (whether the minute of the last
\* failures is over is left open), and else keeps what it read for update_failure.
CheckFailure(c, i, pw, next) ==
    \/ /\ lgFail[i] <= LgFailLimit
       /\ lgRead' = [lgRead EXCEPT ![c] = [fail |-> lgFail[i], pw |-> pw]]
       /\ lgPhase' = [lgPhase EXCEPT ![c] = next]
    \/ /\ lgFail[i] > LgMinuteLimit
       /\ UNCHANGED <<lgRead, lgPhase>>

\* LoginRequest up to check_failure(0).  The first request opens the pipe.
LgRequest(c, pw) ==
    /\ lgPhase[c] = "open" /\ lgTries < LgMaxTries
    /\ lgIpc' = [lgIpc EXCEPT ![c] = IF @ = "none" THEN "up" ELSE @]
    /\ lgTries' = lgTries + 1
    /\ \/ IsRecentSession(pw) /\ Logon(c, lgSess, lgTfa[c]) /\ UNCHANGED lgRead
       \/ /\ ~IsRecentSession(pw) /\ CheckFailure(c, 0, pw, "check")
          /\ UNCHANGED <<lgToCm, lgAuthed, lgHold>>
    /\ UNCHANGED <<lgKind, lgTfa, lgPw, lgSess, lgFail, lgToConn, lgCm, lgCode>>

\* A request without a password, or to a host that only asks its user.
LgAskUser(c) ==
    /\ lgPhase[c] = "open" /\ lgTries < LgMaxTries
    /\ lgIpc' = [lgIpc EXCEPT ![c] = IF @ = "none" THEN "up" ELSE @]
    /\ lgTries' = lgTries + 1
    /\ lgToCm' = Tell(c, "Waiting")
    /\ UNCHANGED <<lgPhase, lgKind, lgTfa, lgRead, lgHold, lgAuthed, lgPw, lgSess, lgFail,
                   lgToConn, lgCm, lgCode>>

\* update_failure(failure, remove, i).
UpdateFailure(c, i, remove) ==
    lgFail' = [lgFail EXCEPT ![i] =
                 IF ~remove THEN lgRead[c].fail + 1 ELSE IF lgRead[c].fail # 0 THEN 0 ELSE @]

\* update_or_insert_session(key, Some(password), Some(false)), for the one-time
\* password only.
SessionWith(pw) == IF pw = lgPw THEN [on |-> TRUE, pw |-> pw, tfa |-> FALSE] ELSE lgSess

\* validate_password and what follows it.
LgValidate(c) ==
    /\ lgPhase[c] = "check"
    /\ \/ /\ lgRead[c].pw \in {lgPw, Permanent}
          /\ UpdateFailure(c, 0, TRUE)
          /\ lgSess' = SessionWith(lgRead[c].pw)
          /\ lgCode' = (lgCode /\ lgRead[c].pw # lgPw)
          /\ Logon(c, SessionWith(lgRead[c].pw), lgTfa[c])
       \/ /\ lgRead[c].pw \notin {lgPw, Permanent}
          /\ UpdateFailure(c, 0, FALSE)
          /\ lgPhase' = [lgPhase EXCEPT ![c] = "open"] /\ lgToCm' = Tell(c, "Waiting")
          /\ UNCHANGED <<lgSess, lgCode, lgAuthed, lgHold>>
    /\ lgRead' = [lgRead EXCEPT ![c] = NoRead]
    /\ UNCHANGED <<lgKind, lgTfa, lgPw, lgToConn, lgIpc, lgCm, lgTries>>

\* Auth2fa up to check_failure(1).
LgCode2fa(c) ==
    /\ lgPhase[c] = "code"
    /\ CheckFailure(c, 1, Wrong, "check2")
    /\ UNCHANGED <<lgKind, lgTfa, lgHold, lgAuthed, lgPw, lgSess, lgFail, lgPipe, lgTries, lgCode>>

\* The rest of Auth2fa; set_session_2fa makes a session if there is none.
LgAuth2fa(c) ==
    /\ lgPhase[c] = "check2"
    /\ \/ /\ UpdateFailure(c, 1, TRUE)
          /\ lgTfa' = [lgTfa EXCEPT ![c] = FALSE]
          /\ lgSess' = [lgSess EXCEPT !.on = TRUE, !.tfa = TRUE] /\ lgCode' = TRUE
          /\ Logon(c, lgSess', FALSE)
       \/ /\ UpdateFailure(c, 1, FALSE)
          /\ lgPhase' = [lgPhase EXCEPT ![c] = "code"]
          /\ UNCHANGED <<lgTfa, lgSess, lgCode, lgToCm, lgAuthed, lgHold>>
    /\ lgRead' = [lgRead EXCEPT ![c] = NoRead]
    /\ UNCHANGED <<lgKind, lgPw, lgToConn, lgIpc, lgCm, lgTries>>

\* Misc::CloseReason: the peer closes for good.
LgPeerClose(c) ==
    /\ Listening(c)
    /\ \E msg \in Farewell(c) : Leaves(c, msg)
    /\ DropSession(SessionAfter(c))
    /\ UNCHANGED <<lgKind, lgTfa, lgRead, lgAuthed, lgPw, lgFail, lgToConn, lgIpc, lgCm, lgTries>>

\* Reset by the peer, an error of the stream, or 30 s of silence.
LgLost(c) ==
    /\ Listening(c)
    /\ \E msg \in Farewell(c) : Leaves(c, msg)
    /\ UNCHANGED <<lgKind, lgTfa, lgRead, lgHold, lgAuthed, lgPw, lgSess, lgFail, lgToConn,
                   lgIpc, lgCm, lgTries, lgCode>>

-----------------------------------------------------------------------------
(* The end of a connection.                                                *)

\* After the loop: update_temporary_password if the connection was authorized,
\* and the drop of the Connection with its AuthedConnID.
LgEnd(c) ==
    /\ lgPhase[c] = "closing"
    /\ lgPhase' = [lgPhase EXCEPT ![c] = "gone"]
    /\ lgPw' = IF c \in lgAuthed THEN lgPw + 1 ELSE lgPw
    /\ lgAuthed' = lgAuthed \ {c}
    /\ lgHold' = [lgHold EXCEPT ![c] = FALSE]
    /\ lgTfa' = [lgTfa EXCEPT ![c] = FALSE]
    /\ lgToConn' = [lgToConn EXCEPT ![c] = <<>>]
    /\ UNCHANGED <<lgKind, lgRead, lgSess, lgFail, lgToCm, lgIpc, lgCm, lgTries, lgCode>>

\* SESSION_TIMEOUT: no connection has refreshed last_recv_time.
LgExpire ==
    /\ lgSess.on /\ \A c \in LgConn : lgHold[c] => lgPhase[c] # "authed"
    /\ DropSession(NoSession)
    /\ UNCHANGED <<lgPhase, lgKind, lgTfa, lgRead, lgAuthed, lgPw, lgFail, lgPipe, lgTries>>

-----------------------------------------------------------------------------
(* The connection manager.                                                 *)

\* add_connection, which forgets the entries that only stand for chats and
\* transfers of earlier connections, and remove_connection.
LgCmRecv(c) ==
    /\ lgIpc[c] = "up" /\ lgToCm[c] # <<>>
    /\ lgToCm' = [lgToCm EXCEPT ![c] = Tail(@)]
    /\ LET msg == Head(lgToCm[c])
           kept == [d \in LgConn |-> IF lgCm[d] = "left" THEN "none" ELSE lgCm[d]]
       IN  \/ msg = "Authed" /\ lgCm' = [kept EXCEPT ![c] = "authed"] /\ UNCHANGED lgIpc
           \/ msg = "Waiting" /\ lgCm' = [kept EXCEPT ![c] = "waiting"] /\ UNCHANGED lgIpc
           \/ /\ msg = "Close" /\ lgCm' = [lgCm EXCEPT ![c] = "none"]
              /\ lgIpc' = [lgIpc EXCEPT ![c] = "down"]
           \/ /\ msg = "Disconnected"
              /\ lgCm' = [lgCm EXCEPT ![c] = IF @ = "none" THEN @ ELSE "left"]
              /\ lgIpc' = [lgIpc EXCEPT ![c] = "down"]
    /\ UNCHANGED <<lgPhase, lgKind, lgTfa, lgRead, lgHold, lgAuthed, lgPw, lgSess, lgFail,
                   lgToConn, lgTries, lgCode>>

\* authorize(id) and close(id), buttons of an entry of the window.
LgCmClick(c, msg) ==
    /\ lgIpc[c] = "up" /\ lgToConn[c] = <<>>
    /\ \/ msg = "Authorize" /\ lgCm[c] = "waiting" /\ lgCm' = [lgCm EXCEPT ![c] = "authed"]
       \/ msg = "Close" /\ lgCm[c] \in {"waiting", "authed"} /\ UNCHANGED lgCm
    /\ lgToConn' = [lgToConn EXCEPT ![c] = Append(@, msg)]
    /\ UNCHANGED <<lgPhase, lgKind, lgTfa, lgRead, lgHold, lgAuthed, lgPw, lgSess, lgFail,
                   lgToCm, lgIpc, lgTries, lgCode>>

\* The window's process ends: the pipes break and each connection gets CmErr.
LgCmDies ==
    /\ \E c \in LgConn : lgIpc[c] = "up"
    /\ lgIpc' = [c \in LgConn |-> IF lgIpc[c] = "up" THEN "down" ELSE lgIpc[c]]
    /\ lgToCm' = [c \in LgConn |-> IF lgIpc[c] = "up" THEN <<>> ELSE lgToCm[c]]
    /\ lgToConn' = [c \in LgConn |-> IF lgIpc[c] = "up" THEN Append(lgToConn[c], "CmErr")
                                     ELSE lgToConn[c]]
    /\ lgCm' = [c \in LgConn |-> "none"]
    /\ UNCHANGED <<lgPhase, lgKind, lgTfa, lgRead, lgHold, lgAuthed, lgPw, lgSess, lgFail,
                   lgTries, lgCode>>

\* Data::Authorize, Data::Close and Data::CmErr in the loop of the connection.
LgConnRecv(c) ==
    /\ Listening(c) /\ lgToConn[c] # <<>>
    /\ lgToConn' = [lgToConn EXCEPT ![c] = Tail(@)]
    /\ LET msg == Head(lgToConn[c]) IN
       \/ /\ msg = "Authorize"
          /\ IF lgPhase[c] = "authed" THEN UNCHANGED <<lgPhase, lgAuthed, lgHold>>
             ELSE Authorized(c, lgSess)
          /\ lgTfa' = [lgTfa EXCEPT ![c] = FALSE]
          /\ UNCHANGED <<lgToCm, lgSess, lgCode>>
       \/ /\ msg = "Close"
          /\ Leaves(c, "Close") /\ DropSession(SessionAfter(c)) /\ UNCHANGED <<lgTfa, lgAuthed>>
       \/ /\ msg = "CmErr"
          /\ Leaves(c, "Close") /\ UNCHANGED <<lgTfa, lgSess, lgHold, lgCode, lgAuthed>>
    /\ UNCHANGED <<lgKind, lgRead, lgPw, lgFail, lgIpc, lgCm, lgTries>>

-----------------------------------------------------------------------------
LgNext ==
    \/ \E c \in LgConn :
          \/ LgConnect(c) \/ LgAskUser(c) \/ LgValidate(c) \/ LgCode2fa(c) \/ LgAuth2fa(c)
          \/ LgPeerClose(c) \/ LgLost(c) \/ LgEnd(c) \/ LgCmRecv(c) \/ LgConnRecv(c)
          \/ \E pw \in Passwords : LgRequest(c, pw)
          \/ \E msg \in {"Authorize", "Close"} : LgCmClick(c, msg)
    \/ LgExpire \/ LgCmDies

LgSpec == LgInit /\ [][LgNext]_lgVars

-----------------------------------------------------------------------------
(* Properties.                                                             *)

LgPhases == {"off", "open", "check", "code", "check2", "authed", "closing", "gone"}
CmMsg == {"Authed", "Waiting", "Close", "Disconnected"}
ConnMsg == {"Authorize", "Close", "CmErr"}

\* The shape of the state.
LgTypeOK ==
    /\ lgPhase \in [LgConn -> LgPhases]
    /\ lgKind \in [LgConn -> {"remote", "file"}] /\ lgTfa \in [LgConn -> BOOLEAN]
    /\ lgRead \in [LgConn -> [fail : Nat, pw : Nat]]
    /\ lgHold \in [LgConn -> BOOLEAN] /\ lgAuthed \subseteq LgConn
    /\ lgPw \in Nat /\ lgPw >= FirstPw /\ lgSess \in [on : BOOLEAN, pw : Nat, tfa : BOOLEAN]
    /\ lgFail \in [{0, 1} -> Nat] /\ lgTries \in 0 .. LgMaxTries /\ lgCode \in BOOLEAN
    /\ lgToCm \in [LgConn -> Seq(CmMsg)]
    /\ lgToConn \in [LgConn -> Seq(ConnMsg)]
    /\ lgIpc \in [LgConn -> {"none", "up", "down"}]
    /\ lgCm \in [LgConn -> {"none", "waiting", "authed", "left"}]

\* One of the messages M is under way in q.
UnderWay(q, M) == \E i \in 1 .. Len(q) : q[i] \in M

\* The window of the CM never shows a connection as accepted that is not:
\* an entry is "authed" only if its connection is authorized, is about to read
\* the user's answer, or has ended.
CmHonest ==
    \A c \in LgConn :
        lgCm[c] = "authed" /\ Alive(c) =>
            lgPhase[c] = "authed" \/ UnderWay(lgToConn[c], {"Authorize", "Close"})

\* A session lets its peer in without a code only if a right code was given
\* since the session got its password (update_or_insert_session resets tfa).
SessionCodeGiven == lgSess.on /\ lgSess.tfa => lgCode

\* The session that an authorized remote connection refreshes, and needs to
\* reconnect after a network failure, is removed only by a remote connection
\* that closes for good: neither by the timeout nor by a file transfer of the
\* same peer (the comment in check_remove_session).
SessionKept ==
    [][\A c \in LgConn :
          lgPhase[c] = "authed" /\ lgKind[c] = "remote" /\ lgHold[c] /\ ~lgSess'.on =>
             \E d \in lgAuthed : lgKind[d] = "remote" /\ lgPhase[d] # "closing"
                                                       /\ lgPhase'[d] = "closing"]_lgVars

\* However the tasks of several connections interleave between check_failure
\* and update_failure, an address gets at most one failure past the limit on
\* record, and what is under way never writes more.
FailuresBounded ==
    /\ \A i \in {0, 1} : lgFail[i] <= LgFailLimit + 1
    /\ \A c \in LgConn : lgRead[c].fail <= LgFailLimit

\* The two processes lose track of each other only while a message is under
\* way: an entry of the window whose connection is gone, and a connection whose
\* window is gone, are about to be told.
CmFollows ==
    \A c \in LgConn :
        /\ lgPhase[c] = "gone" /\ lgToCm[c] = <<>> => lgCm[c] \in {"none", "left"}
        /\ lgIpc[c] = "down" /\ Alive(c) => UnderWay(lgToConn[c], {"CmErr", "Close"})

\* What logins, the session and the window keep to, in every state.
LgSafe == LgTypeOK /\ CmHonest /\ SessionCodeGiven /\ FailuresBounded /\ CmFollows
====
