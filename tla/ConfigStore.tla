----------------------------- MODULE ConfigStore -----------------------------
(***************************************************************************)
(* The configurations on Windows: DataPersistence.saveData                 *)
(* (lib/data_persistence.dart), which writes them under two keys with an   *)
(* await in between, and ConfigManager (lib/config_manager.dart), which    *)
(* keeps all keys in memory and rewrites config.json on every change.      *)
(*                                                                         *)
(* Nobody awaits these calls: the pages call saveData and forget it, and a *)
(* resized window writes its size at every event.  So writes of the file   *)
(* overlap; each opens it (cutting it to nothing) and then writes all of   *)
(* the memory as it was at the call.                                       *)
(***************************************************************************)
EXTENDS Naturals, FiniteSets

CONSTANTS
    CfOp,         \* calls that change a key
    CfMaxCrashes  \* bound on ends of the process

ASSUME CfAssumption ==
    /\ "broken" \notin CfOp
    /\ CfMaxCrashes \in Nat

VARIABLES
    cache,      \* _cache: the list, its copy for the native side, the window's size
    disk,       \* config.json
    op,         \* where each call is, what it has to write, and whether another write,
                \* another saveData, was under way with it (lone, sole)
    torn,       \* two saveData met, or the process ended in a write or after two that
                \* met, since the last saveData without another
    mixed,      \* two writes, or a crash and a write, met since the last lone write
    crashes

cfVars == <<cache, disk, op, torn, mixed, crashes>>

(* Values are the calls that wrote them; NoVal is a key that is not there. *)
NoVal == "none"
CfKey == {"data", "native", "size"}
CfMap == [CfKey -> CfOp \cup {NoVal}]
NoMap == [k \in CfKey |-> NoVal]
Broken == [k \in CfKey |-> "broken"]     \* what json.decode refuses

CfTypeOK ==
    /\ cache \in CfMap
    /\ disk \in CfMap \cup {Broken}
    /\ op \in [CfOp -> [kind : {"save", "size"}, at : {"none", "open", "write", "done"},
                        second : BOOLEAN, text : CfMap,
                        lone : BOOLEAN, sole : BOOLEAN]]
    /\ torn \in BOOLEAN /\ mixed \in BOOLEAN
    /\ crashes \in 0..CfMaxCrashes

CfInit ==
    /\ cache = NoMap /\ disk = NoMap
    /\ op = [o \in CfOp |-> [kind |-> "size", at |-> "none", second |-> FALSE, text |-> NoMap,
                         lone |-> FALSE, sole |-> FALSE]]
    /\ torn = FALSE /\ mixed = FALSE
    /\ crashes = 0

UnderWay == {o \in CfOp : op[o].at \in {"open", "write"}}
Saves == {o \in UnderWay : op[o].kind = "save"}

(* A call begins: ConfigManager.set... changes the key and _save encodes   *)
(* all of them, without an await in between.                               *)
CfCall(o, kind) ==
    LET next == [cache EXCEPT ![IF kind = "save" THEN "data" ELSE "size"] = o]
    IN  /\ op[o].at = "none"
        /\ cache' = next
        /\ op' = [p \in CfOp |->
                    IF p = o
                      THEN [kind |-> kind, at |-> "open", second |-> FALSE, text |-> next,
                            lone |-> UnderWay = {}, sole |-> Saves = {}]
                      ELSE [op[p] EXCEPT !.lone = FALSE, !.sole = @ /\ kind # "save"]]
        /\ torn' = (torn \/ (kind = "save" /\ Saves # {}))
        /\ mixed' = (mixed \/ UnderWay # {})
        /\ UNCHANGED <<disk, crashes>>

(* writeAsString opens the file. *)
CfOpen(o) ==
    /\ op[o].at = "open"
    /\ disk' = Broken
    /\ op' = [op EXCEPT ![o].at = "write"]
    /\ UNCHANGED <<cache, torn, mixed, crashes>>

(* What the file holds once a call has written its text: with another      *)
(* handle open, a longer text's tail may remain.                           *)
Written(o) == IF op[o].lone THEN {op[o].text} ELSE {op[o].text, Broken}

(* The write is done.  saveData goes on with its second key; any other     *)
(* call is over.                                                           *)
BugWrite(o) ==
    IF op[o].kind = "save" /\ ~op[o].second
      THEN /\ op' = [op EXCEPT ![o].at = "open", ![o].second = TRUE]
           /\ cache' = [cache EXCEPT !["native"] = o]
      ELSE /\ op' = [op EXCEPT ![o].at = "done"]
           /\ UNCHANGED cache

WriteDone(o) ==
    LET next == [cache EXCEPT !["native"] = o]
    IN  IF op[o].kind = "save" /\ ~op[o].second
          THEN /\ op' = [op EXCEPT ![o].at = "open", ![o].second = TRUE, ![o].text = next,
                                    ![o].lone = UnderWay = {o}]
               /\ cache' = next
          ELSE /\ op' = [op EXCEPT ![o].at = "done"]
               /\ UNCHANGED cache

CfWrite(o) ==
    /\ op[o].at = "write"
    /\ disk' \in Written(o)
    /\ WriteDone(o)
    /\ torn' = (torn /\ ~(op[o].second /\ op[o].sole))
    /\ mixed' = (mixed /\ ~op[o].lone)
    /\ UNCHANGED crashes

(* The process ends and starts again: init reads the file, and starts from *)
(* nothing when it cannot be decoded.                                      *)
Load == IF disk = Broken THEN NoMap ELSE disk

CfCrash ==
    /\ crashes < CfMaxCrashes
    /\ crashes' = crashes + 1
    /\ cache' = Load
    /\ op' = [o \in CfOp |-> IF o \in UnderWay THEN [op[o] EXCEPT !.at = "done"] ELSE op[o]]
    /\ torn' = (torn \/ UnderWay # {} \/ mixed)
    /\ mixed' = (mixed \/ UnderWay # {})
    /\ UNCHANGED disk

CfNext ==
    \/ \E o \in CfOp :
          \/ \E kind \in {"save", "size"} : CfCall(o, kind)
          \/ CfOpen(o) \/ CfWrite(o)
    \/ CfCrash

CfSpec == CfInit /\ [][CfNext]_cfVars

-----------------------------------------------------------------------------
(* Once the calls are over, the native side reads the list the application *)
(* shows, unless two saveData met or the process ended in a write (README, *)
(* section 7); the next saveData that runs alone puts that right.          *)
NativeFollows == UnderWay = {} /\ ~torn => cache["native"] = cache["data"]

(* Once the calls are over, config.json holds what is in memory, unless    *)
(* two writes met or the process ended in one; the next write that runs    *)
(* alone puts that right.                                                  *)
FileFollows == UnderWay = {} /\ ~mixed => disk = cache

(* What memory and file keep to, in every state.                           *)
CfSafe == CfTypeOK /\ NativeFollows /\ FileFollows
=============================================================================
