----------------------------- MODULE MCRdSession -----------------------------
(* A connection's login (RdLogin), its subscriptions (RdSubscriptions), a file  *)
(* transfer over it (RdTransfer) and its terminals (RdTerminal) in one run.     *)
(* The four share no variable and no step, so a behaviour is chosen to be of    *)
(* one of them: their product would add states and no case.                    *)
EXTENDS RdLogin, RdSubscriptions, RdTransfer, RdTerminal

VARIABLE part  \* which of the four this behaviour is about

(* A part that is not chosen rests in one of its initial states. *)
Init ==
    /\ part \in {"login", "subscriptions", "transfer", "terminal"}
    /\ LgInit /\ SubInit /\ TfInit /\ TmInit
    /\ part # "login" => \A c \in LgConn : lgKind[c] = "remote" /\ ~lgTfa[c]
    /\ part # "subscriptions" => conn.kind = "remote" /\ ~conn.waitSid
    /\ part # "transfer" => tfBad = {} /\ \A f \in File : tfName[f] = NoFile

Next ==
    /\ UNCHANGED part
    /\ \/ part = "login" /\ LgNext /\ UNCHANGED <<subVars, tfVars, tmVars>>
       \/ part = "subscriptions" /\ SubNext /\ UNCHANGED <<lgVars, tfVars, tmVars>>
       \/ part = "transfer" /\ TfNext /\ UNCHANGED <<lgVars, subVars, tmVars>>
       \/ part = "terminal" /\ TmNext /\ UNCHANGED <<lgVars, subVars, tfVars>>

(* TfFair, where the transfer is the part chosen. *)
Fair ==
    /\ WF_tfVars(part = "transfer" /\ TfHostRecv)
    /\ WF_tfVars(part = "transfer" /\ TfHostTick)
    /\ WF_tfVars(part = "transfer" /\ TfClientRecv)

Spec == Init /\ [][Next]_<<part, lgVars, subVars, tfVars, tmVars>> /\ Fair
=============================================================================
