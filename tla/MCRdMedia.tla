------------------------------ MODULE MCRdMedia ------------------------------
(* The host's services (RdService) and its video service (RdVideo) in one run.  *)
(* The two modules share no variable and no step, so a behaviour is chosen to   *)
(* be of one of them: their product would add states and no case.              *)
EXTENDS RdService, RdVideo

VARIABLE part  \* which of the two this behaviour is about

Init ==
    /\ part \in {"service", "video"}
    /\ SvcInit /\ VInit
    /\ part # "service" => system = CHOOSE k \in SvcCursor : TRUE

Next ==
    /\ UNCHANGED part
    /\ \/ part = "service" /\ SvcNext /\ UNCHANGED vVars
       \/ part = "video" /\ VNext /\ UNCHANGED svcVars

(* The fairness of SvcSpec and of VSpec, each where its part is the one chosen. *)
Fair ==
    /\ WF_svcVars(part = "service" /\ SvcThread)
    /\ WF_vVars(part = "video" /\ VThread) /\ SF_vVars(part = "video" /\ VFrame)
    /\ \A c \in VConn : /\ WF_vVars(part = "video" /\ VFetch(c))
                         /\ WF_vVars(part = "video" /\ VRemove(c))
                         /\ WF_vVars(part = "video" /\ c \in vComplaints /\ VRefresh(c))

Spec == Init /\ [][Next]_<<part, svcVars, vVars>> /\ Fair
=============================================================================
