-------------------------------- MODULE MCApp --------------------------------
(* The app's own services around the chat and the connections: the chat's life *)
(* cycle, remote assistance, the updater, the stored configuration and the     *)
(* bridge to the engine; and, of the remote desktop host, the keys it holds.   *)
(* The parts share no variable and no step, so a behaviour is chosen to be of  *)
(* one of them: their product would add states and no case.                    *)
EXTENDS ChatLifecycle, RemoteAssist, Updater, ConfigStore, VntApi, RdInput

Servers == UNION {[1..n -> VaScheme] : n \in 0..2}  \* no, one or two addresses

VARIABLE part  \* which of them this behaviour is about

(* Of the builds, one in which the key is clicked and one in which it is held   *)
(* and known to be a modifier; the other parts do not look at it.               *)
Init ==
    /\ part \in {"life", "assist", "update", "config", "bridge", "keys"}
    /\ LcInit /\ RaInit /\ UpInit /\ CfInit /\ VaInit /\ InInit
    /\ linux <=> (modifier = {})
    /\ part # "keys" => linux
    /\ part # "bridge" => vaServers = <<>> /\ vaMask = 0 /\ vaDevice = "none"

Next ==
    /\ UNCHANGED part
    /\ \/ part = "life" /\ LcNext /\ UNCHANGED <<raVars, upVars, cfVars, vaVars, inVars>>
       \/ part = "assist" /\ RaNext /\ UNCHANGED <<lcVars, upVars, cfVars, vaVars, inVars>>
       \/ part = "update" /\ UpNext /\ UNCHANGED <<lcVars, raVars, cfVars, vaVars, inVars>>
       \/ part = "config" /\ CfNext /\ UNCHANGED <<lcVars, raVars, upVars, vaVars, inVars>>
       \/ part = "bridge" /\ VaNext /\ UNCHANGED <<lcVars, raVars, upVars, cfVars, inVars>>
       \/ part = "keys" /\ InNext /\ UNCHANGED <<lcVars, raVars, upVars, cfVars, vaVars>>

(* LcFair and InFair, each where its part is the one chosen. *)
Life(A) == part = "life" /\ A
Keys(A) == part = "keys" /\ ~exited /\ A

Fair ==
    /\ WF_lcVars(Life(StartStorage)) /\ WF_lcVars(Life(StartTransport))
    /\ WF_lcVars(Life(StartRefresh)) /\ WF_lcVars(Life(LcTick))
    /\ WF_lcVars(Life(TransportBound \/ TransportFails)) /\ WF_lcVars(Life(TransportListens))
    /\ WF_lcVars(Life(UpdateContexts)) /\ WF_lcVars(Life(PresenceBound \/ PresenceFails))
    /\ WF_lcVars(Life(RefreshEnds))
    /\ \A c \in InConn : WF_inVars(Keys(InputThread(c)))
    /\ \A k \in InKey :
         WF_inVars(Keys(\E old \in SUBSET keysDown : k \in old /\ InTimer(old)))
    /\ \A f \in Fixer : WF_inVars(Keys(Fix(f)))

Spec == Init /\ [][Next]_<<part, lcVars, raVars, upVars, cfVars, vaVars, inVars>> /\ Fair
=============================================================================
