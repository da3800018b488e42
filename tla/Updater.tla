------------------------------- MODULE Updater -------------------------------
(***************************************************************************)
(* The Windows updater (lib/update/update_service.dart, update_dialog.dart,*)
(* app_updater_page.dart).  A dialog downloads the installer, always to    *)
(* the same path, launches an updater process and lets the application     *)
(* exit; the updater waits for that exit, runs the installer and starts    *)
(* the new version.                                                        *)
(*                                                                         *)
(* The dialog has no buttons while it downloads, but a tap beside it still *)
(* dismisses it: its download goes on, and the next dialog may begin one   *)
(* of its own.  What the installer file holds is all that is kept of it.   *)
(***************************************************************************)
EXTENDS Naturals, FiniteSets

CONSTANTS
    Dialog,      \* the dialogs the user may open, one at a time
    NoDialog,
    UpMaxFails   \* bound on failing downloads

ASSUME UpAssumption ==
    /\ NoDialog \notin Dialog
    /\ UpMaxFails \in Nat

VARIABLES
    dialog,      \* where _downloadAndOpen of each dialog is
    shown,       \* the dialog on the screen (mounted), or NoDialog
    proxied,     \* the dialogs whose download goes through a proxy first
    file,        \* the installer's path: [there, by, mixed, whole]
    handles,     \* the dialogs whose download has the file open
    app,         \* the old process: "runs", "exiting" (exit is scheduled), "gone"
    session,     \* where the updater process of each dialog is
    ran,         \* what the installer of each session was when it was run
    dismissed,   \* a dialog was dismissed while it was downloading
    upFails

upVars == <<dialog, shown, proxied, file, handles, app, session, ran, dismissed, upFails>>

NoFile == [there |-> FALSE, by |-> NoDialog, mixed |-> FALSE, whole |-> FALSE]

UpTypeOK ==
    /\ dialog \in [Dialog -> {"closed", "asked", "prepare", "proxy", "download",
                              "launch", "failed", "done"}]
    /\ shown \in Dialog \cup {NoDialog}
    /\ proxied \subseteq Dialog
    /\ file \in [there : BOOLEAN, by : Dialog \cup {NoDialog}, mixed : BOOLEAN, whole : BOOLEAN]
    /\ handles \subseteq Dialog
    /\ \A d \in handles : dialog[d] = "download"
    /\ app \in {"runs", "exiting", "gone"}
    /\ session \in [Dialog -> {"none", "begin", "wait", "install", "start", "done", "error"}]
    /\ ran \in [Dialog -> {"no", "whole", "broken"}]
    /\ dismissed \in BOOLEAN
    /\ upFails \in 0..UpMaxFails

UpInit ==
    /\ dialog = [d \in Dialog |-> "closed"]
    /\ shown = NoDialog
    /\ proxied = {}
    /\ file = NoFile
    /\ handles = {}
    /\ app = "runs"
    /\ session = [d \in Dialog |-> "none"]
    /\ ran = [d \in Dialog |-> "no"]
    /\ dismissed = FALSE
    /\ upFails = 0

AppAlive == app # "gone"
Busy(d) == dialog[d] \in {"prepare", "proxy", "download", "launch"}

(* showUpdateCheckDialog found a newer version.  In the half second of a   *)
(* scheduled exit nobody gets through a check and its dialog.              *)
UpShow(d) ==
    /\ app = "runs" /\ shown = NoDialog /\ dialog[d] = "closed"
    /\ shown' = d
    /\ dialog' = [dialog EXCEPT ![d] = "asked"]
    /\ UNCHANGED <<proxied, file, handles, app, session, ran, dismissed, upFails>>

(* A tap beside the dialog, or its button while it does nothing. *)
UpDismiss(d) ==
    /\ AppAlive /\ shown = d
    /\ shown' = NoDialog
    /\ dismissed' = (dismissed \/ Busy(d))
    /\ UNCHANGED <<dialog, proxied, file, handles, app, session, ran, upFails>>

(* The button: offered while the dialog is not downloading. *)
UpPress(d) ==
    /\ AppAlive /\ shown = d
    /\ dialog[d] \in {"asked", "failed"}
    /\ dialog' = [dialog EXCEPT ![d] = "prepare"]
    /\ UNCHANGED <<shown, proxied, file, handles, app, session, ran, dismissed, upFails>>

(* downloadUpdate, up to the proxy resolver.  Windows does not delete a    *)
(* file that is open: the exception ends the attempt.                      *)
UpDelete(d) ==
    /\ AppAlive /\ dialog[d] = "prepare"
    /\ IF file.there /\ handles # {}
         THEN /\ dialog' = [dialog EXCEPT ![d] = "failed"]
              /\ UNCHANGED file
         ELSE /\ dialog' = [dialog EXCEPT ![d] = "proxy"]
              /\ file' = NoFile
    /\ UNCHANGED <<shown, proxied, handles, app, session, ran, dismissed, upFails>>

(* _downloadFileOnce opens the file for writing, which cuts it to nothing; *)
(* the proxy resolver has found one or not.                                *)
UpOpen(d) ==
    /\ AppAlive /\ dialog[d] = "proxy"
    /\ dialog' = [dialog EXCEPT ![d] = "download"]
    /\ \E p \in BOOLEAN : proxied' = IF p THEN proxied \cup {d} ELSE proxied \ {d}
    /\ file' = [there |-> TRUE, by |-> d, mixed |-> handles # {}, whole |-> FALSE]
    /\ handles' = handles \cup {d}
    /\ UNCHANGED <<shown, app, session, ran, dismissed, upFails>>

(* The last chunk is written and the sink closed. *)
UpReceived(d) ==
    /\ AppAlive /\ dialog[d] = "download"
    /\ handles' = handles \ {d}
    /\ file' = [file EXCEPT !.whole = file.by = d /\ ~file.mixed]
    /\ dialog' = [dialog EXCEPT ![d] = "launch"]
    /\ UNCHANGED <<shown, proxied, app, session, ran, dismissed, upFails>>

(* The download breaks off.  One through a proxy is repeated without it,   *)
(* after deleting the file; any other ends with what has arrived in place. *)
BugBreaksOff(d) ==
    IF d \in proxied /\ handles = {d}
      THEN /\ proxied' = proxied \ {d}
           /\ file' = [there |-> TRUE, by |-> d, mixed |-> FALSE, whole |-> FALSE]
           /\ UNCHANGED <<dialog, handles>>
      ELSE /\ dialog' = [dialog EXCEPT ![d] = "launch"]
           /\ handles' = handles \ {d}
           /\ UNCHANGED <<proxied, file>>

BreaksOff(d) ==
    IF d \in proxied /\ handles = {d}
      THEN /\ proxied' = proxied \ {d}
           /\ file' = [there |-> TRUE, by |-> d, mixed |-> FALSE, whole |-> FALSE]
           /\ UNCHANGED <<dialog, handles>>
      ELSE /\ dialog' = [dialog EXCEPT ![d] = "failed"]
           /\ handles' = handles \ {d}
           /\ UNCHANGED <<proxied, file>>

UpBreaks(d) ==
    /\ AppAlive /\ dialog[d] = "download"
    /\ upFails < UpMaxFails
    /\ upFails' = upFails + 1
    /\ BreaksOff(d)
    /\ UNCHANGED <<shown, app, session, ran, dismissed>>

(* openDownloadedInstaller launches the updater.  A dialog still on the    *)
(* screen closes and has the application exit half a second later; a       *)
(* dismissed one returns before that.                                      *)
Launch(d) ==
    /\ session' = [session EXCEPT ![d] = "begin"]
    /\ dialog' = [dialog EXCEPT ![d] = "done"]
    /\ shown' = IF shown = d THEN NoDialog ELSE shown
    /\ app' = IF shown = d THEN "exiting" ELSE app

UpLaunch(d) ==
    /\ AppAlive /\ dialog[d] = "launch" /\ file.there
    /\ Launch(d)
    /\ UNCHANGED <<proxied, file, handles, ran, dismissed, upFails>>

(* Staging the updater's files or starting it fails, or the installer is   *)
(* no longer there.                                                        *)
UpLaunchFails(d) ==
    /\ AppAlive /\ dialog[d] = "launch"
    /\ upFails < UpMaxFails \/ ~file.there
    /\ upFails' = IF file.there THEN upFails + 1 ELSE upFails
    /\ dialog' = [dialog EXCEPT ![d] = "failed"]
    /\ UNCHANGED <<shown, proxied, file, handles, app, session, ran, dismissed>>

(* The old process ends: as scheduled, or because its user closes it. *)
UpExit ==
    /\ AppAlive
    /\ app' = "gone"
    /\ handles' = {}
    /\ dialog' = [d \in Dialog |-> IF Busy(d) THEN "failed" ELSE dialog[d]]
    /\ UNCHANGED <<shown, proxied, file, session, ran, dismissed, upFails>>

(* runUpdaterSession begins: a later dialog may have deleted the installer. *)
UpBegin(d) ==
    /\ session[d] = "begin"
    /\ session' = [session EXCEPT ![d] = IF file.there THEN "wait" ELSE "error"]
    /\ UNCHANGED <<dialog, shown, proxied, file, handles, app, ran, dismissed, upFails>>

(* _waitForProcessExit: the process is gone, or 120 seconds are over,      *)
(* which half a second of a scheduled exit never lasts.                    *)
Waited(d) == app # "exiting"

UpWaited(d) ==
    /\ session[d] = "wait"
    /\ Waited(d)
    /\ session' = [session EXCEPT ![d] = "install"]
    /\ UNCHANGED <<dialog, shown, proxied, file, handles, app, ran, dismissed, upFails>>

(* The silent installer, which closes the application by force. *)
UpInstall(d) ==
    /\ session[d] = "install"
    /\ ran' = [ran EXCEPT ![d] = IF file.whole THEN "whole" ELSE "broken"]
    /\ \/ session' = [session EXCEPT ![d] = "error"] /\ UNCHANGED <<app, handles, dialog>>
       \/ /\ file.whole
          /\ session' = [session EXCEPT ![d] = "start"]
          /\ app' = "gone"
          /\ handles' = {}
          /\ dialog' = [e \in Dialog |-> IF Busy(e) THEN "failed" ELSE dialog[e]]
    /\ UNCHANGED <<shown, proxied, file, dismissed, upFails>>

UpStarted(d) ==
    /\ session[d] = "start"
    /\ session' = [session EXCEPT ![d] = "done"]
    /\ UNCHANGED <<dialog, shown, proxied, file, handles, app, ran, dismissed, upFails>>

UpNext ==
    \/ \E d \in Dialog :
          \/ UpShow(d) \/ UpDismiss(d) \/ UpPress(d)
          \/ UpDelete(d) \/ UpOpen(d) \/ UpReceived(d) \/ UpBreaks(d)
          \/ UpLaunch(d) \/ UpLaunchFails(d)
          \/ UpBegin(d) \/ UpWaited(d) \/ UpInstall(d) \/ UpStarted(d)
    \/ UpExit

UpSpec == UpInit /\ [][UpNext]_upVars

-----------------------------------------------------------------------------
(* An installer is run only when its download came to its end undisturbed, *)
(* though breaks, retries and further attempts write the same path; the    *)
(* one exception is a dialog dismissed while it was downloading (README,   *)
(* section 7).                                                             *)
InstallsWhole == \A d \in Dialog : ran[d] = "broken" => dismissed

(* The installer starts after the old process has gone, unless a dismissed *)
(* dialog left it running for the updater's whole 120 seconds.             *)
OldProcessGone ==
    \A d \in Dialog : session[d] = "install" => app = "gone" \/ dismissed

(* What installers are run on, in every state.                             *)
UpSafe == UpTypeOK /\ InstallsWhole /\ OldProcessGone
=============================================================================
