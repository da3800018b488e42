--------------------------- MODULE RdMediaProofs ---------------------------
(***************************************************************************)
(* Proofs about the services of the remote desktop host: the subscribers   *)
(* of a service, the capturing thread of the video service, and the keys   *)
(* that the input service holds down for its peers.                        *)
(***************************************************************************)
EXTENDS RdService, RdVideo, RdInput, FiniteSetTheorems, TLAPS

-----------------------------------------------------------------------------
(* RdService: snapshots and subscribers.                                   *)

(* Wherever the thread is, a subscriber that was given a snapshot shows the*)
(* cursor of the last round; between snapshot and swap the new ones do too.*)
SvcShown ==
    hcursor # SvcNone =>
      /\ \A c \in subscribes \ late : peerShows[c] = hcursor
      /\ svcLoop = "swap" => \A c \in newSubscribes \ late : peerShows[c] = hcursor

(* The thread remembers in mayReset that it has served somebody.           *)
SvcServing == svcLoop = "run" => mayReset

SvcInv == SvcTypeOK /\ SvcServing /\ SubscribersWhole /\ CursorIdKnown /\ SvcShown

(* A service starts with no subscriber and nothing to show.                *)
LEMMA SvcInitInv == SvcInit => SvcInv
  BY DEF SvcInit, SvcInv, SvcTypeOK, SubscribersWhole, CursorIdKnown, SvcShown, SvcServing

(* The invariant says more than the properties of the run.                 *)
LEMMA SvcInvSafe == SvcInv => SvcSafe
  BY DEF SvcInv, SvcShown, SvcSafe, CursorShown

(* Every subscription and every turn of the loop keeps the invariant.      *)
LEMMA SvcStep == SvcInv /\ [SvcNext]_svcVars => SvcInv'
<1> SUFFICES ASSUME SvcInv, [SvcNext]_svcVars PROVE SvcInv'
  OBVIOUS
<1> USE SvcNoneNoImage DEF SvcInv
<1>1. ASSUME NEW c \in SvcConn, OnSubscribe(c) PROVE SvcInv'
  <2>1. SvcTypeOK' /\ SvcServing'
    BY <1>1 DEF OnSubscribe, SvcTypeOK, SvcServing
  <2>2. SubscribersWhole'
    BY <1>1 DEF OnSubscribe, SvcTypeOK, SubscribersWhole
  <2>3. CursorIdKnown'
    BY <1>1 DEF OnSubscribe, SvcTypeOK, SubscribersWhole, CursorIdKnown
  <2>4. SvcShown'
    BY <1>1 DEF OnSubscribe, SvcTypeOK, SubscribersWhole, CursorIdKnown, SvcShown
  <2> QED
    BY <2>1, <2>2, <2>3, <2>4
<1>2. ASSUME NEW c \in SvcConn, OnUnsubscribe(c) PROVE SvcInv'
  <2>1. SvcTypeOK' /\ SvcServing'
    BY <1>2 DEF OnUnsubscribe, SvcTypeOK, SvcServing
  <2>2. SubscribersWhole'
    BY <1>2 DEF OnUnsubscribe, SvcTypeOK, SubscribersWhole
  <2>3. CursorIdKnown'
    BY <1>2 DEF OnUnsubscribe, SvcTypeOK, SubscribersWhole, CursorIdKnown
  <2>4. SvcShown'
    BY <1>2 DEF OnUnsubscribe, SvcTypeOK, SubscribersWhole, CursorIdKnown, SvcShown
  <2> QED
    BY <2>1, <2>2, <2>3, <2>4
<1>3. CASE SvcJoin
  <2>1. SvcTypeOK' /\ SvcServing'
    BY <1>3 DEF SvcJoin, SvcTypeOK, SvcServing
  <2>2. SubscribersWhole'
    BY <1>3 DEF SvcJoin, SvcTypeOK, SubscribersWhole
  <2>3. CursorIdKnown'
    BY <1>3 DEF SvcJoin, SvcTypeOK, SubscribersWhole, CursorIdKnown
  <2>4. SvcShown'
    BY <1>3 DEF SvcJoin, SvcTypeOK, SubscribersWhole, CursorIdKnown, SvcShown
  <2> QED
    BY <2>1, <2>2, <2>3, <2>4
<1>4. CASE SystemCursor
  <2>1. SvcTypeOK' /\ SvcServing'
    BY <1>4 DEF SystemCursor, SvcTypeOK, SvcServing
  <2>2. SubscribersWhole'
    BY <1>4 DEF SystemCursor, SvcTypeOK, SubscribersWhole
  <2>3. CursorIdKnown'
    BY <1>4 DEF SystemCursor, SvcTypeOK, SubscribersWhole, CursorIdKnown
  <2>4. SvcShown'
    BY <1>4 DEF SystemCursor, SvcTypeOK, SubscribersWhole, CursorIdKnown, SvcShown
  <2> QED
    BY <2>1, <2>2, <2>3, <2>4
<1>5. CASE SvcRound
  <2>1. SvcTypeOK' /\ SvcServing'
    BY <1>5 DEF SvcRound, SvcRoundEnds, HasSubscribes, SvcTypeOK, SvcServing
  <2>2. SubscribersWhole'
    BY <1>5 DEF SvcRound, SvcRoundEnds, HasSubscribes, SvcTypeOK, SubscribersWhole
  <2>3. CursorIdKnown'
    BY <1>5 DEF SvcRound, SvcRoundEnds, HasSubscribes, SvcTypeOK, SubscribersWhole,
       CursorIdKnown
  <2>4. SvcShown'
    BY <1>5 DEF SvcRound, SvcRoundEnds, HasSubscribes, SvcTypeOK, SubscribersWhole,
       CursorIdKnown, SvcShown
  <2> QED
    BY <2>1, <2>2, <2>3, <2>4
<1>6. CASE RunCursor
  <2>1. SvcTypeOK' /\ SvcServing'
    <3>1. CASE system # hcursor /\ hcursor' = system /\ SvcSend(subscribes, system)
      <4>1. system # SvcNone /\ system \in SvcCursor
        BY DEF SvcTypeOK
      <4>2. /\ cached' \in [SvcConn -> SUBSET SvcCursor]
            /\ peerHas' \in [SvcConn -> SUBSET SvcCursor]
            /\ peerShows' \in [SvcConn -> SvcCursor \cup {SvcNone}]
        BY <3>1, <4>1 DEF SvcSend, SvcTypeOK
      <4> QED
        BY <1>6, <3>1, <4>1, <4>2 DEF RunCursor, SvcRoundEnds, SvcTypeOK, SvcServing
    <3>2. CASE UNCHANGED <<hcursor, cached, peerHas, peerShows>>
      BY <1>6, <3>2 DEF RunCursor, SvcRoundEnds, SvcTypeOK, SvcServing
    <3> QED
      BY <1>6, <3>1, <3>2 DEF RunCursor
  <2>2. SubscribersWhole'
    BY <1>6 DEF RunCursor, SvcRoundEnds, SvcSend, SvcTypeOK, SubscribersWhole
  <2>3. CursorIdKnown'
    BY <1>6 DEF RunCursor, SvcRoundEnds, SvcSend, SvcTypeOK, SubscribersWhole,
       CursorIdKnown
  <2>4. SvcShown'
    BY <1>6 DEF RunCursor, SvcRoundEnds, SvcSend, SvcTypeOK, SubscribersWhole,
       CursorIdKnown, SvcShown
  <2> QED
    BY <2>1, <2>2, <2>3, <2>4
<1>7. CASE RunCursorFails
  <2>1. SvcTypeOK' /\ SvcServing'
    BY <1>7 DEF RunCursorFails, SvcRoundEnds, SvcTypeOK, SvcServing
  <2>2. SubscribersWhole'
    BY <1>7 DEF RunCursorFails, SvcRoundEnds, SvcTypeOK, SubscribersWhole
  <2>3. CursorIdKnown'
    BY <1>7 DEF RunCursorFails, SvcRoundEnds, SvcTypeOK, SubscribersWhole, CursorIdKnown
  <2>4. SvcShown'
    BY <1>7 DEF RunCursorFails, SvcRoundEnds, SvcTypeOK, SubscribersWhole,
       CursorIdKnown, SvcShown
  <2> QED
    BY <2>1, <2>2, <2>3, <2>4
<1>8. CASE Snapshot
  <2>1. SvcTypeOK' /\ SvcServing'
    BY <1>8 DEF Snapshot, SvcRoundEnds, SvcSend, SvcTypeOK, SvcServing
  <2>2. SubscribersWhole'
    BY <1>8 DEF Snapshot, SvcRoundEnds, SvcSend, SvcTypeOK, SubscribersWhole
  <2>3. CursorIdKnown'
    BY <1>8 DEF Snapshot, SvcRoundEnds, SvcSend, SvcTypeOK, SubscribersWhole,
       CursorIdKnown
  <2>4. SvcShown'
    BY <1>8 DEF Snapshot, SvcRoundEnds, SvcSend, SvcTypeOK, SubscribersWhole,
       CursorIdKnown, SvcShown
  <2> QED
    BY <2>1, <2>2, <2>3, <2>4
<1>9. CASE SvcSwap
  <2>1. SvcTypeOK' /\ SvcServing'
    BY <1>9 DEF SvcSwap, SvcRoundEnds, SvcTypeOK, SvcServing
  <2>2. SubscribersWhole'
    BY <1>9 DEF SvcSwap, SvcRoundEnds, SvcTypeOK, SubscribersWhole
  <2>3. CursorIdKnown'
    BY <1>9 DEF SvcSwap, SvcRoundEnds, SvcTypeOK, SubscribersWhole, CursorIdKnown
  <2>4. SvcShown'
    BY <1>9 DEF SvcSwap, SvcRoundEnds, SvcTypeOK, SubscribersWhole, CursorIdKnown,
       SvcShown
  <2> QED
    BY <2>1, <2>2, <2>3, <2>4
<1>10. CASE UNCHANGED svcVars
  BY <1>10 DEF SvcTypeOK, SubscribersWhole, CursorIdKnown, SvcShown, SvcServing, svcVars
<1> QED
  BY <1>1, <1>2, <1>3, <1>4, <1>5, <1>6, <1>7, <1>8, <1>9, <1>10 DEF SvcNext, SvcThread

(* The two maps of a service hold exactly the connections that want it,    *)
(* each in one of them; a bare cursor id is sent only for an image the     *)
(* peer has; and when the thread sleeps its subscribers show the cursor    *)
(* of the last round (service.rs, input_service.rs): for every set of      *)
(* connections and cursors.                                                *)
THEOREM ServiceSafe == SvcSpec => []SvcSafe
<1>1. SvcSpec => []SvcInv
  BY SvcInitInv, SvcStep, PTL DEF SvcSpec
<1> QED
  BY <1>1, SvcInvSafe, PTL

-----------------------------------------------------------------------------
(* RdVideo: one encoder, many viewers.                                     *)

Leavers == vClosing \cup vGone

(* A new subscriber has no stream; while an encoder runs and has sent a    *)
(* frame, its subscribers are all in the same state: a new one never joins *)
(* others under it.                                                        *)
VShared ==
    /\ SharedEncoder
    /\ \A c \in vNew : vStream[c] = "none"
    /\ vLoop \in {"check", "capture", "wait"} /\ ~vFirst
         => \A c, d \in vSubs : vStream[c] = vStream[d]

(* A removed connection is in no map, what is fetched belongs to a wait,   *)
(* and a capture begins with nobody to wait for.                           *)
VRemoved ==
    /\ (vSubs \cup vNew) \cap vGone = {}
    /\ vFetched # {} => vLoop = "wait"
    /\ vLoop = "capture" => vSend = {}

(* As long as nobody unsubscribed, a viewer that stays and has frames or   *)
(* notices under way is a subscriber, and a wait is for every subscriber.  *)
VSubscribed ==
    ~vLeft =>
      /\ \A c \in VConn \ Leavers :
           vPending[c] > 0 \/ c \in vNotices \cup vFetched => c \in vSubs
      /\ vLoop = "wait" /\ vSend # {} => vSubs \subseteq vSend

(* The accounts of a wait: what a viewer has or had to fetch and was not   *)
(* yet counted for it; the answers of closed viewers that may be counted in*)
(* place of another's; a change of privacy mode that will break off the    *)
(* wait; and the frame the wait itself allows.                             *)
Ahead(c) ==
    vPending[c] + (IF c \in vNotices THEN 1 ELSE 0) + (IF c \in vFetched THEN 1 ELSE 0)
StaleIds == (vNotices \cup vFetched) \cap Leavers
BreakOff == IF vCapPrivacy # vPrivacy /\ vLoop \in {"capture", "wait"} THEN 1 ELSE 0
Allowed(c) == IF vLoop = "wait" /\ c \in vSend THEN 1 ELSE 0
Budget == vUnruly + 2 * Cardinality(Leavers)

VAccounts ==
    ~vLeft =>
      /\ \A c \in VConn \ Leavers :
           Ahead(c) + Cardinality(StaleIds) + BreakOff <= Budget + Allowed(c)
      /\ \A c \in Leavers : vPending[c] <= 1 + Budget

VInv == VTypeOK /\ VShared /\ VRemoved /\ VSubscribed /\ VAccounts

(* A part of a finite set has no more elements.                            *)
LEMMA SubCard ==
  ASSUME NEW S, NEW T \in SUBSET VConn, S \subseteq T
  PROVE  /\ IsFiniteSet(S) /\ Cardinality(S) \in Nat /\ Cardinality(T) \in Nat
         /\ Cardinality(S) <= Cardinality(T)
<1>1. IsFiniteSet(T)
  BY VNobodyNoConn, FS_Subset
<1> QED
  BY <1>1, FS_Subset, FS_CardinalityType

(* One element more.                                                       *)
LEMMA NewCard ==
  ASSUME NEW S \in SUBSET VConn, NEW x \in VConn, x \notin S
  PROVE  Cardinality(S \cup {x}) = Cardinality(S) + 1
  BY VNobodyNoConn, FS_Subset, FS_AddElement

(* Adding one element to a set of answers adds at most one to its size.    *)
LEMMA AddCard ==
  ASSUME NEW S \in SUBSET VConn, NEW x \in VConn, NEW T, T \subseteq S \cup {x}
  PROVE  Cardinality(T) \in Nat /\ Cardinality(T) <= Cardinality(S) + 1
<1>1. S \cup {x} \in SUBSET VConn
  OBVIOUS
<1>2. Cardinality(S \cup {x}) <= Cardinality(S) + 1
  <2>1. CASE x \in S
    <3>1. S \cup {x} = S
      BY <2>1
    <3> QED
      BY <3>1, SubCard
  <2>2. CASE x \notin S
    BY <2>2, NewCard, SubCard
  <2> QED
    BY <2>1, <2>2
<1>3. Cardinality(T) \in Nat /\ Cardinality(T) <= Cardinality(S \cup {x})
      /\ Cardinality(S \cup {x}) \in Nat
  BY <1>1, SubCard
<1>4. Cardinality(S) \in Nat
  BY SubCard
<1> QED
  BY <1>2, <1>3, <1>4

(* The answers of closed viewers are counted among the leavers.            *)
LEMMA OthersAnswer ==
  ASSUME NEW I \in SUBSET VConn, NEW S \in SUBSET VConn,
         Cardinality(I) >= Cardinality(S), NEW c \in S \ I
  PROVE  \E d \in I : d \notin S
<1> SUFFICES ASSUME I \subseteq S PROVE FALSE
  OBVIOUS
<1>1. I \subseteq S \ {c} /\ S \ {c} \in SUBSET VConn
  OBVIOUS
<1>2. Cardinality(I) <= Cardinality(S \ {c}) /\ Cardinality(I) \in Nat
      /\ Cardinality(S \ {c}) \in Nat
  BY <1>1, SubCard
<1>3. (S \ {c}) \cup {c} = S
  OBVIOUS
<1>4. Cardinality(S) = Cardinality(S \ {c}) + 1
  BY <1>3, NewCard
<1> QED
  BY <1>2, <1>4

(* A step that leaves each account as it is, or moves a part of it to      *)
(* another.                                                                *)
LEMMA AccountsKept ==
  /\ VTypeOK /\ VTypeOK' /\ VAccounts /\ ~vLeft
  /\ Leavers' = Leavers /\ StaleIds' \subseteq StaleIds
  /\ vUnruly <= vUnruly' /\ \A e \in Leavers : vPending'[e] <= vPending[e]
  /\ \A e \in VConn \ Leavers :
       Ahead(e)' + BreakOff' + vUnruly + Allowed(e)
         <= Ahead(e) + BreakOff + vUnruly' + Allowed(e)'
  => VAccounts'
<1> SUFFICES ASSUME VTypeOK, VTypeOK', VAccounts, ~vLeft,
                    Leavers' = Leavers, StaleIds' \subseteq StaleIds,
                    vUnruly <= vUnruly', \A e \in Leavers : vPending'[e] <= vPending[e],
                    \A e \in VConn \ Leavers :
                       Ahead(e)' + BreakOff' + vUnruly + Allowed(e)
                         <= Ahead(e) + BreakOff + vUnruly' + Allowed(e)'
             PROVE  VAccounts'
  OBVIOUS
<1>1. Leavers \subseteq VConn /\ StaleIds \subseteq VConn
  BY DEF VTypeOK, Leavers, StaleIds
<1>2. /\ Cardinality(StaleIds') \in Nat /\ Cardinality(StaleIds) \in Nat
      /\ Cardinality(StaleIds') <= Cardinality(StaleIds) /\ Cardinality(Leavers) \in Nat
  BY <1>1, SubCard
<1>3. vUnruly \in Nat /\ vUnruly' \in Nat /\ BreakOff \in Nat /\ BreakOff' \in Nat
  BY VNobodyNoConn DEF VTypeOK, BreakOff
<1>4. ASSUME NEW e \in VConn \ Leavers
      PROVE  (Ahead(e) + Cardinality(StaleIds) + BreakOff <= Budget + Allowed(e))'
  <2>1. Ahead(e) \in Nat /\ Ahead(e)' \in Nat /\ Allowed(e) \in Nat /\ Allowed(e)' \in Nat
    BY DEF VTypeOK, Ahead, Allowed
  <2>2. Ahead(e) + Cardinality(StaleIds) + BreakOff
          <= vUnruly + 2 * Cardinality(Leavers) + Allowed(e)
    BY DEF VAccounts, Budget
  <2>3. Ahead(e)' + Cardinality(StaleIds') + BreakOff'
          <= vUnruly' + 2 * Cardinality(Leavers) + Allowed(e)'
    BY <1>2, <1>3, <2>1, <2>2
  <2> QED
    BY <2>3 DEF Budget
<1>5. ASSUME NEW e \in Leavers
      PROVE  (vPending[e] <= 1 + Budget)'
  <2>1. vPending[e] \in Nat /\ vPending'[e] \in Nat
    BY <1>1 DEF VTypeOK
  <2>2. vPending[e] <= 1 + vUnruly + 2 * Cardinality(Leavers)
    BY <1>2, <1>3, <2>1 DEF VAccounts, Budget
  <2>3. vPending'[e] <= 1 + vUnruly' + 2 * Cardinality(Leavers)
    BY <1>2, <1>3, <2>1, <2>2
  <2> QED
    BY <2>3, <1>2, <1>3 DEF Budget
<1> QED
  BY <1>4, <1>5 DEF VAccounts

(* No viewer, no frame, no account.                                        *)
LEMMA VInitInv == VInit => VInv
<1> SUFFICES ASSUME VInit PROVE VInv
  OBVIOUS
<1>1. VTypeOK
  <2>1. vUnruly \in 0 .. VMaxUnruly
    BY VNobodyNoConn DEF VInit
  <2> QED
    BY <2>1 DEF VInit, VTypeOK
<1>2. VShared /\ VRemoved /\ VSubscribed
  BY DEF VInit, VShared, SharedEncoder, VRemoved, VSubscribed
<1>3. Leavers = {} /\ StaleIds = {}
  BY DEF VInit, Leavers, StaleIds
<1>4. Cardinality({}) = 0
  BY FS_EmptySet
<1>5. VAccounts
  BY <1>3, <1>4 DEF VInit, VAccounts, Ahead, BreakOff, Allowed, Budget
<1> QED
  BY <1>1, <1>2, <1>5 DEF VInv

(* The accounts bound the frames that a viewer is behind.                  *)
LEMMA VInvSafe == VInv => VSafe
<1> SUFFICES ASSUME VInv PROVE FramesBehind
  BY DEF VInv, VShared, VSafe
<1> SUFFICES ASSUME ~vLeft, NEW c \in VConn
             PROVE  vPending[c] <= 1 + vUnruly + 2 * Cardinality(Leavers)
  BY DEF FramesBehind, Leavers
<1>1. Leavers \subseteq VConn /\ StaleIds \subseteq Leavers
  BY DEF VInv, VTypeOK, Leavers, StaleIds
<1>2. Cardinality(Leavers) \in Nat /\ Cardinality(StaleIds) \in Nat
  BY <1>1, SubCard
<1> QED
  BY <1>2 DEF VInv, VTypeOK, VAccounts, Ahead, BreakOff, Allowed, Budget

(* Every step of the capturing thread and of the connections keeps the     *)
(* invariant.                                                              *)
LEMMA VStep == VInv /\ [VNext]_vVars => VInv'
<1> SUFFICES ASSUME VInv, [VNext]_vVars PROVE VInv'
  OBVIOUS
<1> USE VNobodyNoConn DEF VInv
<1>1. ASSUME NEW c \in VConn, VSubscribe(c) PROVE VInv'
  <2>1. VTypeOK'
    BY <1>1 DEF VSubscribe, vWaitVars, vConnVars, VTypeOK
  <2>2. VShared'
    BY <1>1 DEF VSubscribe, vWaitVars, vConnVars, VTypeOK, VShared, SharedEncoder
  <2>3. VRemoved'
    BY <1>1 DEF VSubscribe, vWaitVars, vConnVars, VTypeOK, VRemoved
  <2>4. VSubscribed'
    BY <1>1 DEF VSubscribe, vWaitVars, vConnVars, VTypeOK, VRemoved, VSubscribed,
       Leavers
  <2>5. VAccounts'
    <3> SUFFICES ASSUME ~vLeft' PROVE VAccounts'
      BY DEF VAccounts
    <3>1. Leavers' = Leavers /\ ~vLeft
      BY <1>1 DEF VSubscribe, vWaitVars, vConnVars, Leavers
    <3>2. StaleIds' \subseteq StaleIds
      BY <1>1, <3>1 DEF VSubscribe, vWaitVars, vConnVars, StaleIds, VTypeOK
    <3>3. vUnruly <= vUnruly' /\ \A e \in Leavers : vPending'[e] <= vPending[e]
      BY <1>1 DEF VSubscribe, vWaitVars, vConnVars, VTypeOK, Leavers
    <3>4. \A e \in VConn \ Leavers :
            Ahead(e)' + BreakOff' + vUnruly + Allowed(e)
              <= Ahead(e) + BreakOff + vUnruly' + Allowed(e)'
      BY <1>1 DEF VSubscribe, vWaitVars, vConnVars, VTypeOK, Ahead, BreakOff, Allowed
    <3> QED
      BY <2>1, <3>1, <3>2, <3>3, <3>4, AccountsKept
  <2> QED
    BY <2>1, <2>2, <2>3, <2>4, <2>5
<1>2. ASSUME NEW c \in VConn, VUnsubscribe(c) PROVE VInv'
  <2>1. VTypeOK'
    BY <1>2 DEF VUnsubscribe, vWaitVars, vConnVars, VDisturb, VTypeOK
  <2>2. VShared'
    BY <1>2 DEF VUnsubscribe, vWaitVars, vConnVars, VDisturb, VTypeOK, VShared,
       SharedEncoder
  <2>3. VRemoved'
    BY <1>2 DEF VUnsubscribe, vWaitVars, vConnVars, VDisturb, VTypeOK, VRemoved
  <2>4. VSubscribed'
    BY <1>2 DEF VUnsubscribe, VSubscribed
  <2>5. VAccounts'
    BY <1>2 DEF VUnsubscribe, VAccounts
  <2> QED
    BY <2>1, <2>2, <2>3, <2>4, <2>5
<1>3. ASSUME NEW c \in VConn, VFetch(c) PROVE VInv'
  <2>1. VTypeOK'
    BY <1>3 DEF VFetch, vWaitVars, vConnVars, VTypeOK
  <2>2. VShared'
    BY <1>3 DEF VFetch, vWaitVars, vConnVars, VTypeOK, VShared, SharedEncoder
  <2>3. VRemoved'
    BY <1>3 DEF VFetch, vWaitVars, vConnVars, VTypeOK, VRemoved
  <2>4. VSubscribed'
    BY <1>3 DEF VFetch, vWaitVars, vConnVars, VTypeOK, VRemoved, VSubscribed, Leavers
  <2>5. VAccounts'
    <3> SUFFICES ASSUME ~vLeft' PROVE VAccounts'
      BY DEF VAccounts
    <3>1. Leavers' = Leavers /\ ~vLeft
      BY <1>3 DEF VFetch, vWaitVars, vConnVars, Leavers
    <3>2. StaleIds' \subseteq StaleIds
      BY <1>3, <3>1 DEF VFetch, vWaitVars, vConnVars, StaleIds, VTypeOK, Leavers
    <3>3. vUnruly <= vUnruly' /\ \A e \in Leavers : vPending'[e] <= vPending[e]
      BY <1>3 DEF VFetch, vWaitVars, vConnVars, VTypeOK, Leavers
    <3>4. \A e \in VConn \ Leavers :
            Ahead(e)' + BreakOff' + vUnruly + Allowed(e)
              <= Ahead(e) + BreakOff + vUnruly' + Allowed(e)'
      BY <1>3 DEF VFetch, vWaitVars, vConnVars, VTypeOK, Ahead, BreakOff, Allowed
    <3> QED
      BY <2>1, <3>1, <3>2, <3>3, <3>4, AccountsKept
  <2> QED
    BY <2>1, <2>2, <2>3, <2>4, <2>5
<1>4. ASSUME NEW c \in VConn, VRefresh(c) PROVE VInv'
  <2>1. VTypeOK'
    BY <1>4 DEF VRefresh, vWaitVars, vConnVars, VDisturb, VTypeOK
  <2>2. VShared'
    BY <1>4 DEF VRefresh, vWaitVars, vConnVars, VDisturb, VTypeOK, VShared,
       SharedEncoder
  <2>3. VRemoved'
    BY <1>4 DEF VRefresh, vWaitVars, vConnVars, VDisturb, VTypeOK, VRemoved
  <2>4. VSubscribed'
    BY <1>4 DEF VRefresh, vWaitVars, vConnVars, VDisturb, VTypeOK, VRemoved,
       VSubscribed, Leavers
  <2>5. VAccounts'
    <3> SUFFICES ASSUME ~vLeft' PROVE VAccounts'
      BY DEF VAccounts
    <3>1. Leavers' = Leavers /\ ~vLeft
      BY <1>4 DEF VRefresh, vWaitVars, vConnVars, VDisturb, Leavers
    <3>2. StaleIds' \subseteq StaleIds
      BY <1>4, <3>1 DEF VRefresh, vWaitVars, vConnVars, VDisturb, StaleIds, VTypeOK
    <3>3. vUnruly <= vUnruly' /\ \A e \in Leavers : vPending'[e] <= vPending[e]
      BY <1>4 DEF VRefresh, vWaitVars, vConnVars, VDisturb, VTypeOK, Leavers
    <3>4. \A e \in VConn \ Leavers :
            Ahead(e)' + BreakOff' + vUnruly + Allowed(e)
              <= Ahead(e) + BreakOff + vUnruly' + Allowed(e)'
      BY <1>4 DEF VRefresh, vWaitVars, vConnVars, VDisturb, VTypeOK, Ahead, BreakOff,
         Allowed
    <3> QED
      BY <2>1, <3>1, <3>2, <3>3, <3>4, AccountsKept
  <2> QED
    BY <2>1, <2>2, <2>3, <2>4, <2>5
<1>5. ASSUME NEW c \in VConn, VClose(c) PROVE VInv'
  <2>1. VTypeOK'
    BY <1>5 DEF VClose, vWaitVars, vConnVars, VTypeOK
  <2>2. VShared'
    BY <1>5 DEF VClose, vWaitVars, vConnVars, VTypeOK, VShared, SharedEncoder
  <2>3. VRemoved'
    BY <1>5 DEF VClose, vWaitVars, vConnVars, VTypeOK, VRemoved
  <2>4. VSubscribed'
    BY <1>5 DEF VClose, vWaitVars, vConnVars, VTypeOK, VRemoved, VSubscribed, Leavers
  <2>5. VAccounts'
    <3> SUFFICES ASSUME ~vLeft' PROVE VAccounts'
      BY DEF VAccounts
    <3>1. /\ c \in VConn \ Leavers /\ Leavers' = Leavers \cup {c} /\ Leavers \subseteq VConn
          /\ ~vLeft
          /\ StaleIds' \subseteq StaleIds \cup {c} /\ StaleIds \subseteq VConn
      BY <1>5 DEF VClose, vWaitVars, vConnVars, Leavers, StaleIds, VTypeOK
    <3>2. Cardinality(Leavers') = Cardinality(Leavers) + 1 /\ Cardinality(Leavers) \in Nat
      BY <3>1, NewCard, SubCard
    <3>3. /\ Cardinality(StaleIds') \in Nat /\ Cardinality(StaleIds) \in Nat
          /\ Cardinality(StaleIds') <= Cardinality(StaleIds) + 1
      BY <3>1, AddCard, SubCard
    <3>4. /\ vUnruly' = vUnruly /\ vUnruly \in Nat /\ vPending' = vPending
          /\ BreakOff \in Nat /\ BreakOff' \in Nat /\ BreakOff' <= BreakOff + 1
      BY <1>5 DEF VClose, vWaitVars, vConnVars, VTypeOK, BreakOff
    <3>5. ASSUME NEW e \in VConn \ Leavers'
          PROVE  (Ahead(e) + Cardinality(StaleIds) + BreakOff <= Budget + Allowed(e))'
      <4>1. e \in VConn \ Leavers /\ e # c
        BY <3>1
      <4>2. /\ Ahead(e) \in Nat /\ Ahead(e)' = Ahead(e)
            /\ Allowed(e) \in Nat /\ Allowed(e)' = Allowed(e)
        BY <1>5, <4>1 DEF VClose, vWaitVars, vConnVars, VTypeOK, Ahead, Allowed
      <4>3. Ahead(e) + Cardinality(StaleIds) + BreakOff
              <= vUnruly + 2 * Cardinality(Leavers) + Allowed(e)
        BY <3>1, <4>1 DEF VAccounts, Budget
      <4>4. Ahead(e)' + Cardinality(StaleIds') + BreakOff'
              <= vUnruly' + 2 * Cardinality(Leavers') + Allowed(e)'
        BY <3>2, <3>3, <3>4, <4>2, <4>3
      <4> QED
        BY <4>4 DEF Budget
    <3>6. ASSUME NEW e \in Leavers'
          PROVE  (vPending[e] <= 1 + Budget)'
      <4>1. vPending[e] \in Nat
        BY <3>1 DEF VTypeOK
      <4>2. vPending[e] <= 1 + vUnruly + 2 * Cardinality(Leavers)
        <5>1. CASE e \in Leavers
          BY <3>1, <3>2, <3>4, <4>1, <5>1 DEF VAccounts, Budget
        <5>2. CASE e = c
          <6>1. Ahead(e) + Cardinality(StaleIds) + BreakOff
                  <= vUnruly + 2 * Cardinality(Leavers) + Allowed(e)
            BY <3>1, <5>2 DEF VAccounts, Budget
          <6>2. Ahead(e) \in Nat /\ Ahead(e) >= vPending[e] /\ Allowed(e) \in {0, 1}
            BY <4>1 DEF Ahead, Allowed
          <6> QED
            BY <3>2, <3>3, <3>4, <4>1, <6>1, <6>2
        <5> QED
          BY <3>1, <5>1, <5>2
      <4>3. vPending'[e] <= 1 + vUnruly' + 2 * Cardinality(Leavers')
        BY <3>2, <3>4, <4>1, <4>2
      <4> QED
        BY <4>3, <3>2, <3>4 DEF Budget
    <3> QED
      BY <3>5, <3>6 DEF VAccounts
  <2> QED
    BY <2>1, <2>2, <2>3, <2>4, <2>5
<1>6. ASSUME NEW c \in VConn, VRemove(c) PROVE VInv'
  <2>1. VTypeOK'
    BY <1>6 DEF VRemove, vWaitVars, vConnVars, VTypeOK
  <2>2. VShared'
    BY <1>6 DEF VRemove, vWaitVars, vConnVars, VTypeOK, VShared, SharedEncoder
  <2>3. VRemoved'
    BY <1>6 DEF VRemove, vWaitVars, vConnVars, VTypeOK, VRemoved
  <2>4. VSubscribed'
    BY <1>6 DEF VRemove, vWaitVars, vConnVars, VTypeOK, VRemoved, VSubscribed, Leavers
  <2>5. VAccounts'
    <3> SUFFICES ASSUME ~vLeft' PROVE VAccounts'
      BY DEF VAccounts
    <3>1. Leavers' = Leavers /\ ~vLeft
      BY <1>6 DEF VRemove, vWaitVars, vConnVars, Leavers
    <3>2. StaleIds' \subseteq StaleIds
      BY <1>6, <3>1 DEF VRemove, vWaitVars, vConnVars, StaleIds, VTypeOK
    <3>3. vUnruly <= vUnruly' /\ \A e \in Leavers : vPending'[e] <= vPending[e]
      BY <1>6 DEF VRemove, vWaitVars, vConnVars, VTypeOK, Leavers
    <3>4. \A e \in VConn \ Leavers :
            Ahead(e)' + BreakOff' + vUnruly + Allowed(e)
              <= Ahead(e) + BreakOff + vUnruly' + Allowed(e)'
      BY <1>6 DEF VRemove, vWaitVars, vConnVars, VTypeOK, Ahead, BreakOff, Allowed
    <3> QED
      BY <2>1, <3>1, <3>2, <3>3, <3>4, AccountsKept
  <2> QED
    BY <2>1, <2>2, <2>3, <2>4, <2>5
<1>7. CASE VTogglePrivacy
  <2>1. VTypeOK'
    BY <1>7 DEF VTogglePrivacy, vWaitVars, vConnVars, VDisturb, VTypeOK
  <2>2. VShared'
    BY <1>7 DEF VTogglePrivacy, vWaitVars, vConnVars, VDisturb, VTypeOK, VShared,
       SharedEncoder
  <2>3. VRemoved'
    BY <1>7 DEF VTogglePrivacy, vWaitVars, vConnVars, VDisturb, VTypeOK, VRemoved
  <2>4. VSubscribed'
    BY <1>7 DEF VTogglePrivacy, vWaitVars, vConnVars, VDisturb, VTypeOK, VRemoved,
       VSubscribed, Leavers
  <2>5. VAccounts'
    <3> SUFFICES ASSUME ~vLeft' PROVE VAccounts'
      BY DEF VAccounts
    <3>1. Leavers' = Leavers /\ ~vLeft
      BY <1>7 DEF VTogglePrivacy, vWaitVars, vConnVars, VDisturb, Leavers
    <3>2. StaleIds' \subseteq StaleIds
      BY <1>7, <3>1 DEF VTogglePrivacy, vWaitVars, vConnVars, VDisturb, StaleIds, VTypeOK
    <3>3. vUnruly <= vUnruly' /\ \A e \in Leavers : vPending'[e] <= vPending[e]
      BY <1>7 DEF VTogglePrivacy, vWaitVars, vConnVars, VDisturb, VTypeOK, Leavers
    <3>4. \A e \in VConn \ Leavers :
            Ahead(e)' + BreakOff' + vUnruly + Allowed(e)
              <= Ahead(e) + BreakOff + vUnruly' + Allowed(e)'
      BY <1>7 DEF VTogglePrivacy, vWaitVars, vConnVars, VDisturb, VTypeOK, Ahead,
         BreakOff, Allowed
    <3> QED
      BY <2>1, <3>1, <3>2, <3>3, <3>4, AccountsKept
  <2> QED
    BY <2>1, <2>2, <2>3, <2>4, <2>5
<1>8. CASE VEnter
  <2>1. VTypeOK'
    BY <1>8 DEF VEnter, vWaitVars, vConnVars, VTypeOK
  <2>2. VShared'
    BY <1>8 DEF VEnter, vWaitVars, vConnVars, VTypeOK, VShared, SharedEncoder
  <2>3. VRemoved'
    BY <1>8 DEF VEnter, vWaitVars, vConnVars, VTypeOK, VRemoved
  <2>4. VSubscribed'
    BY <1>8 DEF VEnter, vWaitVars, vConnVars, VTypeOK, VRemoved, VSubscribed, Leavers
  <2>5. VAccounts'
    <3> SUFFICES ASSUME ~vLeft' PROVE VAccounts'
      BY DEF VAccounts
    <3>1. Leavers' = Leavers /\ ~vLeft
      BY <1>8 DEF VEnter, vWaitVars, vConnVars, Leavers
    <3>2. StaleIds' \subseteq StaleIds
      BY <1>8, <3>1 DEF VEnter, vWaitVars, vConnVars, StaleIds, VTypeOK
    <3>3. vUnruly <= vUnruly' /\ \A e \in Leavers : vPending'[e] <= vPending[e]
      BY <1>8 DEF VEnter, vWaitVars, vConnVars, VTypeOK, Leavers
    <3>4. \A e \in VConn \ Leavers :
            Ahead(e)' + BreakOff' + vUnruly + Allowed(e)
              <= Ahead(e) + BreakOff + vUnruly' + Allowed(e)'
      BY <1>8 DEF VEnter, vWaitVars, vConnVars, VTypeOK, Ahead, BreakOff, Allowed
    <3> QED
      BY <2>1, <3>1, <3>2, <3>3, <3>4, AccountsKept
  <2> QED
    BY <2>1, <2>2, <2>3, <2>4, <2>5
<1>9. CASE VStart
  <2>1. VTypeOK'
    BY <1>9 DEF VStart, vWaitVars, vConnVars, VTypeOK
  <2>2. VShared'
    BY <1>9 DEF VStart, vWaitVars, vConnVars, VTypeOK, VShared, SharedEncoder
  <2>3. VRemoved'
    BY <1>9 DEF VStart, vWaitVars, vConnVars, VTypeOK, VRemoved
  <2>4. VSubscribed'
    BY <1>9 DEF VStart, vWaitVars, vConnVars, VTypeOK, VRemoved, VSubscribed, Leavers
  <2>5. VAccounts'
    <3> SUFFICES ASSUME ~vLeft' PROVE VAccounts'
      BY DEF VAccounts
    <3>1. Leavers' = Leavers /\ ~vLeft
      BY <1>9 DEF VStart, vWaitVars, vConnVars, Leavers
    <3>2. StaleIds' \subseteq StaleIds
      BY <1>9, <3>1 DEF VStart, vWaitVars, vConnVars, StaleIds, VTypeOK
    <3>3. vUnruly <= vUnruly' /\ \A e \in Leavers : vPending'[e] <= vPending[e]
      BY <1>9 DEF VStart, vWaitVars, vConnVars, VTypeOK, Leavers
    <3>4. \A e \in VConn \ Leavers :
            Ahead(e)' + BreakOff' + vUnruly + Allowed(e)
              <= Ahead(e) + BreakOff + vUnruly' + Allowed(e)'
      BY <1>9 DEF VStart, vWaitVars, vConnVars, VTypeOK, Ahead, BreakOff, Allowed
    <3> QED
      BY <2>1, <3>1, <3>2, <3>3, <3>4, AccountsKept
  <2> QED
    BY <2>1, <2>2, <2>3, <2>4, <2>5
<1>10. CASE VCheck
  <2>1. VTypeOK'
    BY <1>10 DEF VCheck, vWaitVars, vConnVars, VEnd, VTypeOK
  <2>2. VShared'
    BY <1>10 DEF VCheck, vWaitVars, vConnVars, VEnd, VTypeOK, VShared, SharedEncoder
  <2>3. VRemoved'
    BY <1>10 DEF VCheck, vWaitVars, vConnVars, VEnd, VTypeOK, VRemoved
  <2>4. VSubscribed'
    BY <1>10 DEF VCheck, vWaitVars, vConnVars, VEnd, VTypeOK, VRemoved, VSubscribed,
       Leavers
  <2>5. VAccounts'
    <3> SUFFICES ASSUME ~vLeft' PROVE VAccounts'
      BY DEF VAccounts
    <3>1. Leavers' = Leavers /\ ~vLeft
      BY <1>10 DEF VCheck, vWaitVars, vConnVars, VEnd, Leavers
    <3>2. StaleIds' \subseteq StaleIds
      BY <1>10, <3>1 DEF VCheck, vWaitVars, vConnVars, VEnd, StaleIds, VTypeOK
    <3>3. vUnruly <= vUnruly' /\ \A e \in Leavers : vPending'[e] <= vPending[e]
      BY <1>10 DEF VCheck, vWaitVars, vConnVars, VEnd, VTypeOK, Leavers
    <3>4. \A e \in VConn \ Leavers :
            Ahead(e)' + BreakOff' + vUnruly + Allowed(e)
              <= Ahead(e) + BreakOff + vUnruly' + Allowed(e)'
      BY <1>10 DEF VCheck, vWaitVars, vConnVars, VEnd, VTypeOK, Ahead, BreakOff, Allowed,
         VRemoved
    <3> QED
      BY <2>1, <3>1, <3>2, <3>3, <3>4, AccountsKept
  <2> QED
    BY <2>1, <2>2, <2>3, <2>4, <2>5
<1>11. CASE VNoFrame
  <2>1. VTypeOK'
    BY <1>11 DEF VNoFrame, vWaitVars, vConnVars, VTypeOK
  <2>2. VShared'
    BY <1>11 DEF VNoFrame, vWaitVars, vConnVars, VTypeOK, VShared, SharedEncoder
  <2>3. VRemoved'
    BY <1>11 DEF VNoFrame, vWaitVars, vConnVars, VTypeOK, VRemoved
  <2>4. VSubscribed'
    BY <1>11 DEF VNoFrame, vWaitVars, vConnVars, VTypeOK, VRemoved, VSubscribed, Leavers
  <2>5. VAccounts'
    <3> SUFFICES ASSUME ~vLeft' PROVE VAccounts'
      BY DEF VAccounts
    <3>1. Leavers' = Leavers /\ ~vLeft
      BY <1>11 DEF VNoFrame, vWaitVars, vConnVars, Leavers
    <3>2. StaleIds' \subseteq StaleIds
      BY <1>11, <3>1 DEF VNoFrame, vWaitVars, vConnVars, StaleIds, VTypeOK
    <3>3. vUnruly <= vUnruly' /\ \A e \in Leavers : vPending'[e] <= vPending[e]
      BY <1>11 DEF VNoFrame, vWaitVars, vConnVars, VTypeOK, Leavers
    <3>4. \A e \in VConn \ Leavers :
            Ahead(e)' + BreakOff' + vUnruly + Allowed(e)
              <= Ahead(e) + BreakOff + vUnruly' + Allowed(e)'
      BY <1>11 DEF VNoFrame, vWaitVars, vConnVars, VTypeOK, Ahead, BreakOff, Allowed,
         VRemoved
    <3> QED
      BY <2>1, <3>1, <3>2, <3>3, <3>4, AccountsKept
  <2> QED
    BY <2>1, <2>2, <2>3, <2>4, <2>5
<1>12. CASE VFrame
  <2>1. VTypeOK'
    <3>1. CASE vNew # {} /\ vSubs # {}
      BY <1>12, <3>1 DEF VFrame, VEnd, VTypeOK
    <3>2. CASE ~(vNew # {} /\ vSubs # {})
      <4>1. VSendFrame(vSubs')
        BY <1>12, <3>2 DEF VFrame
      <4>2. vSubs' \subseteq VConn /\ vNew' = {}
        BY <1>12 DEF VFrame, VTypeOK
      <4>3. vPending' \in [VConn -> Nat] /\ vStream' \in [VConn -> {"none", "good", "broken"}]
        BY <4>1 DEF VSendFrame, VTypeOK
      <4>4. /\ vSend' \subseteq VConn /\ vDisplayIds' \subseteq VConn /\ vFetched' = {}
            /\ vLoop' = "wait" /\ vFirst' = FALSE
        BY <4>1, <4>2 DEF VSendFrame, VTypeOK
      <4> QED
        BY <1>12, <4>2, <4>3, <4>4 DEF VFrame, VTypeOK
    <3> QED
      BY <3>1, <3>2
  <2>2. VShared'
    BY <1>12 DEF VFrame, vWaitVars, vConnVars, VEnd, VSendFrame, VTypeOK, VShared,
       SharedEncoder
  <2>3. VRemoved'
    BY <1>12 DEF VFrame, vWaitVars, vConnVars, VEnd, VSendFrame, VTypeOK, VRemoved
  <2>4. VSubscribed'
    BY <1>12 DEF VFrame, vWaitVars, vConnVars, VEnd, VSendFrame, VTypeOK, VRemoved,
       VSubscribed, Leavers
  <2>5. VAccounts'
    <3> SUFFICES ASSUME ~vLeft' PROVE VAccounts'
      BY DEF VAccounts
    <3>1. Leavers' = Leavers /\ ~vLeft
      BY <1>12 DEF VFrame, vWaitVars, vConnVars, VEnd, VSendFrame, Leavers
    <3>2. StaleIds' \subseteq StaleIds
      BY <1>12, <3>1 DEF VFrame, vWaitVars, vConnVars, VEnd, VSendFrame, StaleIds, VTypeOK
    <3>3. vUnruly <= vUnruly' /\ \A e \in Leavers : vPending'[e] <= vPending[e]
      BY <1>12 DEF VFrame, vWaitVars, vConnVars, VEnd, VSendFrame, VTypeOK, Leavers,
         VRemoved
    <3>4. \A e \in VConn \ Leavers :
            Ahead(e)' + BreakOff' + vUnruly + Allowed(e)
              <= Ahead(e) + BreakOff + vUnruly' + Allowed(e)'
      BY <1>12 DEF VFrame, vWaitVars, vConnVars, VEnd, VSendFrame, VTypeOK, Ahead,
         BreakOff, Allowed, VRemoved
    <3> QED
      BY <2>1, <3>1, <3>2, <3>3, <3>4, AccountsKept
  <2> QED
    BY <2>1, <2>2, <2>3, <2>4, <2>5
<1>13. CASE VWait
  <2>1. VTypeOK'
    BY <1>13 DEF VWait, vWaitVars, vConnVars, VRound, VTypeOK
  <2>2. VShared'
    BY <1>13 DEF VWait, vWaitVars, vConnVars, VRound, VTypeOK, VShared, SharedEncoder
  <2>3. VRemoved'
    BY <1>13 DEF VWait, vWaitVars, vConnVars, VRound, VTypeOK, VRemoved
  <2>4. VSubscribed'
    BY <1>13 DEF VWait, vWaitVars, vConnVars, VRound, VTypeOK, VRemoved, VSubscribed,
       Leavers
  <2>5. VAccounts'
    <3> SUFFICES ASSUME ~vLeft' PROVE VAccounts'
      BY DEF VAccounts
    <3> DEFINE ids == vFetched \cup vNotices
    <3>1. /\ Leavers' = Leavers /\ ~vLeft /\ vUnruly' = vUnruly /\ vPending' = vPending
          /\ vSend' = vSend /\ vLoop = "wait" /\ BreakOff = 0 /\ BreakOff' = 0
      BY <1>13 DEF VWait, VRound, vWaitVars, vConnVars, Leavers, BreakOff
    <3>2. StaleIds' \subseteq StaleIds
      BY <1>13, <3>1 DEF VWait, VRound, vWaitVars, vConnVars, StaleIds, VTypeOK
    <3>3. vUnruly <= vUnruly' /\ \A e \in Leavers : vPending'[e] <= vPending[e]
      BY <3>1 DEF Leavers, VTypeOK
    <3>4. CASE vSend = {} \/ ~(Cardinality(ids) >= Cardinality(vSend))
      <4>1. \A e \in VConn \ Leavers :
              Ahead(e)' + BreakOff' + vUnruly + Allowed(e)
                <= Ahead(e) + BreakOff + vUnruly' + Allowed(e)'
        <5> SUFFICES ASSUME NEW e \in VConn \ Leavers
                     PROVE  Ahead(e)' <= Ahead(e) /\ Allowed(e) <= Allowed(e)'
                            /\ Ahead(e) \in Nat /\ Ahead(e)' \in Nat
                            /\ Allowed(e) \in Nat /\ Allowed(e)' \in Nat
          BY <3>1 DEF VTypeOK
        <5>1. CASE vSend = {}
          BY <1>13, <3>1, <5>1 DEF VWait, VRound, VTypeOK, Ahead, Allowed
        <5>2. CASE vSend # {}
          BY <1>13, <3>1, <3>4, <5>2 DEF VWait, VTypeOK, Ahead, Allowed
        <5> QED
          BY <5>1, <5>2
      <4> QED
        BY <2>1, <3>1, <3>2, <3>3, <4>1, AccountsKept
    <3>5. CASE vSend # {} /\ Cardinality(ids) >= Cardinality(vSend)
      <4>1. vNotices' = {} /\ vFetched' = {} /\ vLoop' = "check"
        BY <1>13, <3>5 DEF VWait, VRound
      <4>2. StaleIds' = {} /\ Cardinality(StaleIds') = 0
        BY <4>1, FS_EmptySet DEF StaleIds
      <4>3. Leavers \subseteq VConn /\ StaleIds \subseteq VConn /\ ids \subseteq VConn
            /\ vSend \subseteq VConn /\ vUnruly \in Nat
        BY DEF VTypeOK, Leavers, StaleIds
      <4>4. Cardinality(Leavers) \in Nat /\ Cardinality(StaleIds) \in Nat
        BY <4>3, SubCard
      <4>5. ASSUME NEW e \in VConn \ Leavers
            PROVE  (Ahead(e) + Cardinality(StaleIds) + BreakOff <= Budget + Allowed(e))'
        <5>1. /\ vPending[e] \in Nat /\ Ahead(e)' = vPending[e] /\ Allowed(e)' = 0
              /\ Ahead(e) \in Nat /\ Ahead(e) >= vPending[e] /\ Allowed(e) \in {0, 1}
              /\ e \in ids => Ahead(e) >= vPending[e] + 1
              /\ Allowed(e) = 1 => e \in vSend
          BY <3>1, <4>1 DEF VTypeOK, Ahead, Allowed
        <5>2. Ahead(e) + Cardinality(StaleIds)
                <= vUnruly + 2 * Cardinality(Leavers) + Allowed(e)
          BY <3>1, <4>4, <5>1 DEF VAccounts, Budget
        <5>3. e \in vSend \ ids => Cardinality(StaleIds) >= 1
          <6> SUFFICES ASSUME e \in vSend \ ids PROVE Cardinality(StaleIds) >= 1
            BY <4>4
          <6> HIDE DEF ids
          <6>1. PICK d \in ids : d \notin vSend
            BY <3>5, <4>3, OthersAnswer
          <6> USE DEF ids
          <6>2. d \in StaleIds
            BY <3>1, <3>5, <4>3, <6>1 DEF VSubscribed, StaleIds
          <6>3. Cardinality({d}) = 1
            BY FS_Singleton
          <6> QED
            BY <4>3, <6>2, <6>3, SubCard
        <5>4. vPending[e] <= vUnruly + 2 * Cardinality(Leavers)
          BY <4>3, <4>4, <5>1, <5>2, <5>3
        <5>5. Ahead(e)' + Cardinality(StaleIds') + BreakOff'
                <= vUnruly' + 2 * Cardinality(Leavers') + Allowed(e)'
          BY <3>1, <4>2, <4>3, <4>4, <5>1, <5>4
        <5> QED
          BY <5>5 DEF Budget
      <4>6. \A e \in Leavers' : (vPending[e] <= 1 + Budget)'
        BY <3>1 DEF VAccounts, Budget
      <4> QED
        BY <3>1, <4>5, <4>6 DEF VAccounts
    <3> QED
      BY <3>4, <3>5
  <2> QED
    BY <2>1, <2>2, <2>3, <2>4, <2>5
<1>14. CASE VTimeout
  <2>1. VTypeOK'
    BY <1>14 DEF VTimeout, vWaitVars, vConnVars, VRound, VDisturb, VTypeOK
  <2>2. VShared'
    BY <1>14 DEF VTimeout, vWaitVars, vConnVars, VRound, VDisturb, VTypeOK, VShared,
       SharedEncoder
  <2>3. VRemoved'
    BY <1>14 DEF VTimeout, vWaitVars, vConnVars, VRound, VDisturb, VTypeOK, VRemoved
  <2>4. VSubscribed'
    BY <1>14 DEF VTimeout, vWaitVars, vConnVars, VRound, VDisturb, VTypeOK, VRemoved,
       VSubscribed, Leavers
  <2>5. VAccounts'
    <3> SUFFICES ASSUME ~vLeft' PROVE VAccounts'
      BY DEF VAccounts
    <3>1. Leavers' = Leavers /\ ~vLeft /\ vNotices' = vNotices /\ vFetched' = {}
      BY <1>14 DEF VTimeout, VRound, vConnVars, Leavers
    <3>2. StaleIds' \subseteq StaleIds
      BY <3>1 DEF StaleIds
    <3>3. vUnruly <= vUnruly' /\ \A e \in Leavers : vPending'[e] <= vPending[e]
      BY <1>14 DEF VTimeout, VDisturb, vConnVars, VTypeOK, Leavers
    <3>4. ASSUME NEW e \in VConn \ Leavers
          PROVE  Ahead(e)' + BreakOff' + vUnruly + Allowed(e)
                   <= Ahead(e) + BreakOff + vUnruly' + Allowed(e)'
      <4>1. /\ vPending[e] \in Nat /\ vPending' = vPending /\ vUnruly \in Nat
            /\ vLoop = "wait" /\ vLoop' = "check"
        BY <1>14 DEF VTimeout, VRound, vConnVars, VTypeOK
      <4>2. BreakOff \in Nat /\ BreakOff' = 0 /\ Allowed(e)' = 0 /\ Allowed(e) \in {0, 1}
        BY <4>1 DEF BreakOff, Allowed
      <4>3. /\ Ahead(e) \in Nat /\ Ahead(e)' \in Nat /\ Ahead(e)' <= Ahead(e)
            /\ e \in vFetched => Ahead(e)' + 1 = Ahead(e)
        BY <3>1, <4>1 DEF Ahead
      <4>4. CASE vSend \subseteq vFetched \cup vClosing \cup vGone
        <5>1. vUnruly' = vUnruly
          BY <1>14, <4>4 DEF VTimeout
        <5>2. Allowed(e) = 1 => e \in vFetched
          BY <4>4 DEF Allowed, Leavers
        <5> QED
          BY <4>1, <4>2, <4>3, <5>1, <5>2
      <4>5. CASE ~(vSend \subseteq vFetched \cup vClosing \cup vGone)
        <5>1. vUnruly' = vUnruly + 1
          BY <1>14, <4>5 DEF VTimeout, VDisturb
        <5> QED
          BY <4>1, <4>2, <4>3, <5>1
      <4> QED
        BY <4>4, <4>5
    <3> QED
      BY <2>1, <3>1, <3>2, <3>3, <3>4, AccountsKept
  <2> QED
    BY <2>1, <2>2, <2>3, <2>4, <2>5
<1>15. CASE VWaitSwitch
  <2>1. VTypeOK'
    BY <1>15 DEF VWaitSwitch, vWaitVars, vConnVars, VEnd, VTypeOK
  <2>2. VShared'
    BY <1>15 DEF VWaitSwitch, vWaitVars, vConnVars, VEnd, VTypeOK, VShared,
       SharedEncoder
  <2>3. VRemoved'
    BY <1>15 DEF VWaitSwitch, vWaitVars, vConnVars, VEnd, VTypeOK, VRemoved
  <2>4. VSubscribed'
    BY <1>15 DEF VWaitSwitch, vWaitVars, vConnVars, VEnd, VTypeOK, VRemoved,
       VSubscribed, Leavers
  <2>5. VAccounts'
    <3> SUFFICES ASSUME ~vLeft' PROVE VAccounts'
      BY DEF VAccounts
    <3>1. Leavers' = Leavers /\ ~vLeft
      BY <1>15 DEF VWaitSwitch, vWaitVars, vConnVars, VEnd, Leavers
    <3>2. StaleIds' \subseteq StaleIds
      BY <1>15, <3>1 DEF VWaitSwitch, vWaitVars, vConnVars, VEnd, StaleIds, VTypeOK
    <3>3. vUnruly <= vUnruly' /\ \A e \in Leavers : vPending'[e] <= vPending[e]
      BY <1>15 DEF VWaitSwitch, vWaitVars, vConnVars, VEnd, VTypeOK, Leavers
    <3>4. \A e \in VConn \ Leavers :
            Ahead(e)' + BreakOff' + vUnruly + Allowed(e)
              <= Ahead(e) + BreakOff + vUnruly' + Allowed(e)'
      BY <1>15 DEF VWaitSwitch, vWaitVars, vConnVars, VEnd, VTypeOK, Ahead, BreakOff,
         Allowed
    <3> QED
      BY <2>1, <3>1, <3>2, <3>3, <3>4, AccountsKept
  <2> QED
    BY <2>1, <2>2, <2>3, <2>4, <2>5
<1>16. CASE VSwitch
  <2>1. VTypeOK'
    BY <1>16 DEF VSwitch, vWaitVars, vConnVars, VEnd, VDisturb, VTypeOK
  <2>2. VShared'
    BY <1>16 DEF VSwitch, vWaitVars, vConnVars, VEnd, VDisturb, VTypeOK, VShared,
       SharedEncoder
  <2>3. VRemoved'
    BY <1>16 DEF VSwitch, vWaitVars, vConnVars, VEnd, VDisturb, VTypeOK, VRemoved
  <2>4. VSubscribed'
    BY <1>16 DEF VSwitch, vWaitVars, vConnVars, VEnd, VDisturb, VTypeOK, VRemoved,
       VSubscribed, Leavers
  <2>5. VAccounts'
    <3> SUFFICES ASSUME ~vLeft' PROVE VAccounts'
      BY DEF VAccounts
    <3>1. Leavers' = Leavers /\ ~vLeft
      BY <1>16 DEF VSwitch, vWaitVars, vConnVars, VEnd, VDisturb, Leavers
    <3>2. StaleIds' \subseteq StaleIds
      BY <1>16, <3>1 DEF VSwitch, vWaitVars, vConnVars, VEnd, VDisturb, StaleIds, VTypeOK
    <3>3. vUnruly <= vUnruly' /\ \A e \in Leavers : vPending'[e] <= vPending[e]
      BY <1>16 DEF VSwitch, vWaitVars, vConnVars, VEnd, VDisturb, VTypeOK, Leavers
    <3>4. \A e \in VConn \ Leavers :
            Ahead(e)' + BreakOff' + vUnruly + Allowed(e)
              <= Ahead(e) + BreakOff + vUnruly' + Allowed(e)'
      BY <1>16 DEF VSwitch, vWaitVars, vConnVars, VEnd, VDisturb, VTypeOK, Ahead, BreakOff,
         Allowed, VRemoved
    <3> QED
      BY <2>1, <3>1, <3>2, <3>3, <3>4, AccountsKept
  <2> QED
    BY <2>1, <2>2, <2>3, <2>4, <2>5
<1>17. CASE VStartFails
  <2>1. VTypeOK'
    BY <1>17 DEF VStartFails, vWaitVars, vConnVars, VEnd, VDisturb, VTypeOK
  <2>2. VShared'
    BY <1>17 DEF VStartFails, vWaitVars, vConnVars, VEnd, VDisturb, VTypeOK, VShared,
       SharedEncoder
  <2>3. VRemoved'
    BY <1>17 DEF VStartFails, vWaitVars, vConnVars, VEnd, VDisturb, VTypeOK, VRemoved
  <2>4. VSubscribed'
    BY <1>17 DEF VStartFails, vWaitVars, vConnVars, VEnd, VDisturb, VTypeOK, VRemoved,
       VSubscribed, Leavers
  <2>5. VAccounts'
    <3> SUFFICES ASSUME ~vLeft' PROVE VAccounts'
      BY DEF VAccounts
    <3>1. Leavers' = Leavers /\ ~vLeft
      BY <1>17 DEF VStartFails, vWaitVars, vConnVars, VEnd, VDisturb, Leavers
    <3>2. StaleIds' \subseteq StaleIds
      BY <1>17, <3>1 DEF VStartFails, vWaitVars, vConnVars, VEnd, VDisturb, StaleIds,
         VTypeOK
    <3>3. vUnruly <= vUnruly' /\ \A e \in Leavers : vPending'[e] <= vPending[e]
      BY <1>17 DEF VStartFails, vWaitVars, vConnVars, VEnd, VDisturb, VTypeOK, Leavers
    <3>4. \A e \in VConn \ Leavers :
            Ahead(e)' + BreakOff' + vUnruly + Allowed(e)
              <= Ahead(e) + BreakOff + vUnruly' + Allowed(e)'
      BY <1>17 DEF VStartFails, vWaitVars, vConnVars, VEnd, VDisturb, VTypeOK, Ahead,
         BreakOff, Allowed, VRemoved
    <3> QED
      BY <2>1, <3>1, <3>2, <3>3, <3>4, AccountsKept
  <2> QED
    BY <2>1, <2>2, <2>3, <2>4, <2>5
<1>18. CASE VDisplayChanged
  <2>1. VTypeOK'
    BY <1>18 DEF VDisplayChanged, vWaitVars, vConnVars, VEnd, VDisturb, VTypeOK
  <2>2. VShared'
    BY <1>18 DEF VDisplayChanged, vWaitVars, vConnVars, VEnd, VDisturb, VTypeOK,
       VShared, SharedEncoder
  <2>3. VRemoved'
    BY <1>18 DEF VDisplayChanged, vWaitVars, vConnVars, VEnd, VDisturb, VTypeOK,
       VRemoved
  <2>4. VSubscribed'
    BY <1>18 DEF VDisplayChanged, vWaitVars, vConnVars, VEnd, VDisturb, VTypeOK,
       VRemoved, VSubscribed, Leavers
  <2>5. VAccounts'
    <3> SUFFICES ASSUME ~vLeft' PROVE VAccounts'
      BY DEF VAccounts
    <3>1. Leavers' = Leavers /\ ~vLeft
      BY <1>18 DEF VDisplayChanged, vWaitVars, vConnVars, VEnd, VDisturb, Leavers
    <3>2. StaleIds' \subseteq StaleIds
      BY <1>18, <3>1 DEF VDisplayChanged, vWaitVars, vConnVars, VEnd, VDisturb, StaleIds,
         VTypeOK
    <3>3. vUnruly <= vUnruly' /\ \A e \in Leavers : vPending'[e] <= vPending[e]
      BY <1>18 DEF VDisplayChanged, vWaitVars, vConnVars, VEnd, VDisturb, VTypeOK, Leavers
    <3>4. \A e \in VConn \ Leavers :
            Ahead(e)' + BreakOff' + vUnruly + Allowed(e)
              <= Ahead(e) + BreakOff + vUnruly' + Allowed(e)'
      BY <1>18 DEF VDisplayChanged, vWaitVars, vConnVars, VEnd, VDisturb, VTypeOK, Ahead,
         BreakOff, Allowed, VRemoved
    <3> QED
      BY <2>1, <3>1, <3>2, <3>3, <3>4, AccountsKept
  <2> QED
    BY <2>1, <2>2, <2>3, <2>4, <2>5
<1>19. CASE VFrameFails
  <2>1. VTypeOK'
    BY <1>19 DEF VFrameFails, vWaitVars, vConnVars, VEnd, VDisturb, VTypeOK
  <2>2. VShared'
    BY <1>19 DEF VFrameFails, vWaitVars, vConnVars, VEnd, VDisturb, VTypeOK, VShared,
       SharedEncoder
  <2>3. VRemoved'
    BY <1>19 DEF VFrameFails, vWaitVars, vConnVars, VEnd, VDisturb, VTypeOK, VRemoved
  <2>4. VSubscribed'
    BY <1>19 DEF VFrameFails, vWaitVars, vConnVars, VEnd, VDisturb, VTypeOK, VRemoved,
       VSubscribed, Leavers
  <2>5. VAccounts'
    <3> SUFFICES ASSUME ~vLeft' PROVE VAccounts'
      BY DEF VAccounts
    <3>1. Leavers' = Leavers /\ ~vLeft
      BY <1>19 DEF VFrameFails, vWaitVars, vConnVars, VEnd, VDisturb, Leavers
    <3>2. StaleIds' \subseteq StaleIds
      BY <1>19, <3>1 DEF VFrameFails, vWaitVars, vConnVars, VEnd, VDisturb, StaleIds,
         VTypeOK
    <3>3. vUnruly <= vUnruly' /\ \A e \in Leavers : vPending'[e] <= vPending[e]
      BY <1>19 DEF VFrameFails, vWaitVars, vConnVars, VEnd, VDisturb, VTypeOK, Leavers
    <3>4. \A e \in VConn \ Leavers :
            Ahead(e)' + BreakOff' + vUnruly + Allowed(e)
              <= Ahead(e) + BreakOff + vUnruly' + Allowed(e)'
      BY <1>19 DEF VFrameFails, vWaitVars, vConnVars, VEnd, VDisturb, VTypeOK, Ahead,
         BreakOff, Allowed, VRemoved
    <3> QED
      BY <2>1, <3>1, <3>2, <3>3, <3>4, AccountsKept
  <2> QED
    BY <2>1, <2>2, <2>3, <2>4, <2>5
<1>20. CASE VEncodeFails
  <2>1. VTypeOK'
    BY <1>20 DEF VEncodeFails, vWaitVars, vConnVars, VDisturb, VTypeOK
  <2>2. VShared'
    BY <1>20 DEF VEncodeFails, vWaitVars, vConnVars, VDisturb, VTypeOK, VShared,
       SharedEncoder
  <2>3. VRemoved'
    BY <1>20 DEF VEncodeFails, vWaitVars, vConnVars, VDisturb, VTypeOK, VRemoved
  <2>4. VSubscribed'
    BY <1>20 DEF VEncodeFails, vWaitVars, vConnVars, VDisturb, VTypeOK, VRemoved,
       VSubscribed, Leavers
  <2>5. VAccounts'
    <3> SUFFICES ASSUME ~vLeft' PROVE VAccounts'
      BY DEF VAccounts
    <3>1. Leavers' = Leavers /\ ~vLeft
      BY <1>20 DEF VEncodeFails, vWaitVars, vConnVars, VDisturb, Leavers
    <3>2. StaleIds' \subseteq StaleIds
      BY <1>20, <3>1 DEF VEncodeFails, vWaitVars, vConnVars, VDisturb, StaleIds, VTypeOK
    <3>3. vUnruly <= vUnruly' /\ \A e \in Leavers : vPending'[e] <= vPending[e]
      BY <1>20 DEF VEncodeFails, vWaitVars, vConnVars, VDisturb, VTypeOK, Leavers
    <3>4. \A e \in VConn \ Leavers :
            Ahead(e)' + BreakOff' + vUnruly + Allowed(e)
              <= Ahead(e) + BreakOff + vUnruly' + Allowed(e)'
      BY <1>20 DEF VEncodeFails, vWaitVars, vConnVars, VDisturb, VTypeOK, Ahead, BreakOff,
         Allowed, VRemoved
    <3> QED
      BY <2>1, <3>1, <3>2, <3>3, <3>4, AccountsKept
  <2> QED
    BY <2>1, <2>2, <2>3, <2>4, <2>5
<1>21. CASE UNCHANGED vVars
  BY <1>21 DEF VTypeOK, VShared, VRemoved, VSubscribed, VAccounts, vVars, SharedEncoder,
     Leavers, StaleIds, Ahead, BreakOff, Allowed, Budget
<1> QED
  BY <1>1, <1>2, <1>3, <1>4, <1>5, <1>6, <1>7, <1>8, <1>9, <1>10, <1>11, <1>12, <1>13,
     <1>14, <1>15, <1>16, <1>17, <1>18, <1>19, <1>20, <1>21 DEF VNext, VThread, VFaults

(* No two viewers are served by one stream that only one of them can       *)
(* decode, and, as long as nobody unsubscribed, the thread runs ahead of   *)
(* a viewer by no more frames than timeouts, privacy switches and closed   *)
(* viewers account for (video_service.rs): for every finite set of         *)
(* viewers.                                                                *)
THEOREM VideoSafe == VSpec => []VSafe
<1>1. VSpec => []VInv
  BY VInitInv, VStep, PTL DEF VSpec
<1> QED
  BY <1>1, VInvSafe, PTL

-----------------------------------------------------------------------------
(* RdInput: keys held for a peer.                                          *)

InThreadType ==
    [at : {"idle", "checked", "recorded", "again"}, key : InKey \cup {InNoKey},
     down : BOOLEAN, more : BOOLEAN]

InFixType == [left : SUBSET InKey, key : InKey \cup {InNoKey}]

(* The events of a channel: on Linux whatever goes down but a modifier is  *)
(* clicked.                                                                *)
InEvent ==
    {e \in [key : InKey, press : BOOLEAN, down : BOOLEAN] :
        linux /\ e.key \notin modifier /\ e.down => e.press}

(* The types of InTypeOK, with the records' fields and the channels.       *)
InTyped ==
    /\ linux \in BOOLEAN /\ modifier \subseteq InKey /\ exiting \in BOOLEAN
    /\ exited \in BOOLEAN /\ inMayReset \in BOOLEAN
    /\ inState \in [InConn -> {"open", "gone"}] /\ keyboard \in [InConn -> BOOLEAN]
    /\ mods \in [InConn -> SUBSET modifier]
    /\ inQueue \in [InConn -> Seq(InEvent)]
    /\ inThread \in [InConn -> InThreadType]
    /\ \A c \in InConn : inThread[c].key = InNoKey <=> inThread[c].at = "idle"
    /\ keysDown \subseteq InKey
    /\ osDown \subseteq InKey /\ crossed \subseteq InKey /\ sent \in 0..InMaxEvents
    /\ fixers \in [Fixer -> InFixType]

(* A key outside crossed that an input thread has in hand is in no other   *)
(* thread's.                                                               *)
InOneHand ==
    \A k \in InKey \ crossed :
      \A c \in InHand(k) : InHand(k) = {c} /\ Fixing(k) = {}

(* Such a key is in the table from its record to its simulation.           *)
InRecorded ==
    \A c \in InConn :
      inThread[c].at = "recorded" /\ inThread[c].down /\ inThread[c].key \notin crossed
        => inThread[c].key \in keysDown

(* HeldKnown, said of the threads one by one.                              *)
InKnown ==
    \A k \in osDown \ crossed :
      \/ k \in keysDown
      \/ \E c \in InConn : inThread[c].key = k /\ inThread[c].at \in {"checked", "recorded"}
      \/ \E f \in Fixer : fixers[f].key = k

(* Once the end of the process has copied the table, its copy holds what is*)
(* down, and no thread will add to it but keys that crossed.               *)
InExitHeld ==
    fixers["exit"] # NoFix =>
      /\ exiting
      /\ osDown \ crossed \subseteq fixers["exit"].left \cup {fixers["exit"].key}
      /\ \A k \in InKey \ crossed : InHand(k) = {}

(* On Linux a thread that presses a key will release it.                   *)
InClicks ==
    linux => \A c \in InConn :
      inThread[c].key \in InKey \ modifier /\ inThread[c].down => inThread[c].more

InInv ==
    /\ InTyped /\ InOneHand /\ InRecorded /\ InKnown
    /\ InExitHeld /\ ExitReleases /\ InClicks /\ ClicksEnd

(* The invariant says more than the properties of the run.                 *)
LEMMA InInvSafe == InInv => InSafe
  BY DEF InInv, InTyped, InThreadType, InFixType, InSafe, InTypeOK, InKnown, HeldKnown,
     InHand, Fixing

(* Every key event and every step of the threads that release keys keeps   *)
(* the invariant.                                                          *)
LEMMA InStep == InInv /\ [InNext]_inVars => InInv'
<1> SUFFICES ASSUME InInv, [InNext]_inVars PROVE InInv'
  OBVIOUS
<1> USE InAssumption DEF InInv
<1>0. UNCHANGED inVars \/ ~exited
  BY DEF InNext
<1>1. ASSUME NEW c \in InConn, InSwitchKeyboard(c) PROVE InInv'
  <2>1. InTyped'
    BY <1>1 DEF InSwitchKeyboard, InTyped, InThreadType, InFixType, InEvent, Fixer
  <2>2. InOneHand'
    BY <1>1 DEF InSwitchKeyboard, InTyped, InThreadType, InFixType, InOneHand, InHand,
       Fixing, Fixer
  <2>3. InRecorded'
    BY <1>1 DEF InSwitchKeyboard, InTyped, InThreadType, InFixType, InOneHand,
       InRecorded, InHand, Fixing, Fixer
  <2>4. InKnown'
    BY <1>1 DEF InSwitchKeyboard, InTyped, InThreadType, InFixType, InOneHand,
       InRecorded, InKnown, Fixer, InHand
  <2>5. InExitHeld' /\ ExitReleases'
    BY <1>1 DEF InSwitchKeyboard, InTyped, InThreadType, InFixType, InKnown, InExitHeld,
       ExitReleases, InHand, Fixing, Fixer
  <2>6. InClicks' /\ ClicksEnd'
    BY <1>1 DEF InSwitchKeyboard, InTyped, InThreadType, InEvent, InClicks, ClicksEnd
  <2> QED
    BY <2>1, <2>2, <2>3, <2>4, <2>5, <2>6
<1>2. ASSUME NEW c \in InConn, InClose(c) PROVE InInv'
  <2>1. InTyped'
    BY <1>2 DEF InClose, InTyped, InThreadType, InFixType, InEvent, Fixer
  <2>2. InOneHand'
    BY <1>2 DEF InClose, InTyped, InThreadType, InFixType, InOneHand, InHand, Fixing,
       Fixer
  <2>3. InRecorded'
    BY <1>2 DEF InClose, InTyped, InThreadType, InFixType, InOneHand, InRecorded,
       InHand, Fixing, Fixer
  <2>4. InKnown'
    BY <1>2 DEF InClose, InTyped, InThreadType, InFixType, InOneHand, InRecorded,
       InKnown, Fixer, InHand
  <2>5. InExitHeld' /\ ExitReleases'
    BY <1>2 DEF InClose, InTyped, InThreadType, InFixType, InKnown, InExitHeld,
       ExitReleases, InHand, Fixing, Fixer
  <2>6. InClicks' /\ ClicksEnd'
    BY <1>2 DEF InClose, InTyped, InThreadType, InEvent, InClicks, ClicksEnd
  <2> QED
    BY <2>1, <2>2, <2>3, <2>4, <2>5, <2>6
<1>3. ASSUME NEW c \in InConn, NEW k \in InKey, NEW kind \in {"down", "up", "press"}, InKeyEvent(c, k, kind)
      PROVE  InInv'
  <2>1. InTyped'
    <3> DEFINE e == [key |-> k, press |-> IsPress(k, kind), down |-> kind = "down"]
    <3>1. e \in InEvent
      <4>1. IsPress(k, kind) \in BOOLEAN /\ (kind = "down") \in BOOLEAN
        BY DEF IsPress
      <4>2. linux /\ k \notin modifier /\ kind = "down" => IsPress(k, kind)
        BY DEF IsPress
      <4> QED
        BY <4>1, <4>2 DEF InEvent
    <3>2. InEvent' = InEvent
      BY <1>3 DEF InKeyEvent, InEvent
    <3>3. inQueue' = [inQueue EXCEPT ![c] = Append(@, e)]
      BY <1>3 DEF InKeyEvent
    <3> HIDE DEF e
    <3>4. inQueue' \in [InConn -> Seq(InEvent)]
      BY <3>1, <3>3 DEF InTyped
    <3>5. (mods \in [InConn -> SUBSET modifier])'
      BY <1>3 DEF InKeyEvent, InTyped
    <3> QED
      BY <1>3, <3>2, <3>4, <3>5 DEF InKeyEvent, InTyped
  <2>2. InOneHand'
    BY <1>3 DEF InKeyEvent, IsPress, InTyped, InThreadType, InFixType, InOneHand,
       InHand, Fixing, Fixer
  <2>3. InRecorded'
    BY <1>3 DEF InKeyEvent, IsPress, InTyped, InThreadType, InFixType, InOneHand,
       InRecorded, InHand, Fixing, Fixer
  <2>4. InKnown'
    BY <1>3 DEF InKeyEvent, IsPress, InTyped, InThreadType, InFixType, InOneHand,
       InRecorded, InKnown, Fixer, InHand
  <2>5. InExitHeld' /\ ExitReleases'
    BY <1>3 DEF InKeyEvent, IsPress, InTyped, InThreadType, InFixType, InKnown,
       InExitHeld, ExitReleases, InHand, Fixing, Fixer
  <2>6. InClicks' /\ ClicksEnd'
    BY <1>3 DEF InKeyEvent, IsPress, InTyped, InThreadType, InEvent, InClicks, ClicksEnd
  <2> QED
    BY <2>1, <2>2, <2>3, <2>4, <2>5, <2>6
<1>4. ASSUME NEW c \in InConn, InTake(c) PROVE InInv'
  <2>1. InTyped'
    BY <1>4 DEF InTake, HandleKey, Idle, InTyped, InThreadType, InFixType, InEvent,
       Fixer
  <2>2. InOneHand'
    BY <1>4 DEF InTake, HandleKey, Idle, InTyped, InThreadType, InFixType, InOneHand,
       InHand, Fixing, Fixer
  <2>3. InRecorded'
    BY <1>4 DEF InTake, HandleKey, Idle, InTyped, InThreadType, InFixType, InOneHand,
       InRecorded, InHand, Fixing, Fixer
  <2>4. InKnown'
    BY <1>4 DEF InTake, HandleKey, Idle, InTyped, InThreadType, InFixType, InOneHand,
       InRecorded, InKnown, Fixer, InHand
  <2>5. InExitHeld' /\ ExitReleases'
    BY <1>4 DEF InTake, HandleKey, Idle, InTyped, InThreadType, InFixType, InKnown,
       InExitHeld, ExitReleases, InHand, Fixing, Fixer
  <2>6. InClicks' /\ ClicksEnd'
    <3> DEFINE e == Head(inQueue[c])
    <3>1. e \in InEvent
      BY <1>4 DEF InTake, InTyped
    <3>2. e.key \in InKey /\ (linux /\ e.key \notin modifier /\ e.down => e.press)
      BY <3>1 DEF InEvent
    <3>3. HandleKey(c, e.key, e.press \/ e.down, e.press) /\ inThread[c].at = "idle"
          /\ linux' = linux /\ modifier' = modifier /\ exiting' = exiting /\ osDown' = osDown
      BY <1>4 DEF InTake
    <3> HIDE DEF e
    <3> QED
      BY <3>2, <3>3 DEF HandleKey, Idle, InTyped, InThreadType, InClicks, ClicksEnd
  <2> QED
    BY <2>1, <2>2, <2>3, <2>4, <2>5, <2>6
<1>5. ASSUME NEW c \in InConn, InRelease(c) PROVE InInv'
  <2>1. InTyped'
    BY <1>5 DEF InRelease, HandleKey, Idle, InTyped, InThreadType, InFixType, InEvent,
       Fixer
  <2>2. InOneHand'
    BY <1>5 DEF InRelease, HandleKey, Idle, InTyped, InThreadType, InFixType, InOneHand,
       InHand, Fixing, Fixer
  <2>3. InRecorded'
    BY <1>5 DEF InRelease, HandleKey, Idle, InTyped, InThreadType, InFixType, InOneHand,
       InRecorded, InHand, Fixing, Fixer
  <2>4. InKnown'
    BY <1>5 DEF InRelease, HandleKey, Idle, InTyped, InThreadType, InFixType, InOneHand,
       InRecorded, InKnown, Fixer, InHand
  <2>5. InExitHeld' /\ ExitReleases'
    BY <1>5 DEF InRelease, HandleKey, Idle, InTyped, InThreadType, InFixType, InKnown,
       InExitHeld, ExitReleases, InHand, Fixing, Fixer
  <2>6. InClicks' /\ ClicksEnd'
    BY <1>5 DEF InRelease, HandleKey, Idle, InTyped, InThreadType, InEvent, InClicks,
       ClicksEnd
  <2> QED
    BY <2>1, <2>2, <2>3, <2>4, <2>5, <2>6
<1>6. ASSUME NEW c \in InConn, InRecord(c) PROVE InInv'
  <2>1. InTyped'
    BY <1>6 DEF InRecord, Record, InTyped, InThreadType, InFixType, InEvent, Fixer
  <2>2. InOneHand'
    BY <1>6 DEF InRecord, Record, InTyped, InThreadType, InFixType, InOneHand, InHand,
       Fixing, Fixer
  <2>3. InRecorded'
    BY <1>6 DEF InRecord, Record, InTyped, InThreadType, InFixType, InOneHand,
       InRecorded, InHand, Fixing, Fixer
  <2>4. InKnown'
    BY <1>6 DEF InRecord, Record, InTyped, InThreadType, InFixType, InOneHand,
       InRecorded, InKnown, Fixer, InHand
  <2>5. InExitHeld' /\ ExitReleases'
    BY <1>6 DEF InRecord, Record, InTyped, InThreadType, InFixType, InKnown, InExitHeld,
       ExitReleases, InHand, Fixing, Fixer
  <2>6. InClicks' /\ ClicksEnd'
    BY <1>6 DEF InRecord, Record, InTyped, InThreadType, InEvent, InClicks, ClicksEnd
  <2> QED
    BY <2>1, <2>2, <2>3, <2>4, <2>5, <2>6
<1>7. ASSUME NEW c \in InConn, InSimulate(c) PROVE InInv'
  <2>1. InTyped'
    BY <1>7 DEF InSimulate, Idle, InTyped, InThreadType, InFixType, InEvent, Fixer
  <2>2. InOneHand'
    BY <1>7 DEF InSimulate, Idle, InTyped, InThreadType, InFixType, InOneHand, InHand,
       Fixing, Fixer
  <2>3. InRecorded'
    BY <1>7 DEF InSimulate, Idle, InTyped, InThreadType, InFixType, InOneHand,
       InRecorded, InHand, Fixing, Fixer
  <2>4. InKnown'
    BY <1>7 DEF InSimulate, Idle, InTyped, InThreadType, InFixType, InOneHand,
       InRecorded, InKnown, Fixer, InHand
  <2>5. InExitHeld' /\ ExitReleases'
    <3>1. exited' = exited /\ fixers' = fixers /\ exiting' = exiting /\ crossed' = crossed
      BY <1>7 DEF InSimulate
    <3>2. ~exited
      BY <1>7, <1>0 DEF InSimulate, inVars, InTyped, InThreadType, Idle
    <3>3. \A k \in InKey : InHand(k)' \subseteq InHand(k)
      BY <1>7 DEF InSimulate, InHand, InTyped, InThreadType, Idle
    <3>4. inThread[c].key \in InKey /\ c \in InHand(inThread[c].key)
      BY <1>7 DEF InSimulate, InHand, InTyped, InThreadType
    <3>5. osDown' \subseteq osDown \cup {inThread[c].key}
      BY <1>7 DEF InSimulate
    <3>6. fixers["exit"] # NoFix => inThread[c].key \in crossed
      BY <3>4 DEF InExitHeld
    <3> QED
      BY <3>1, <3>2, <3>3, <3>5, <3>6 DEF InExitHeld, ExitReleases
  <2>6. InClicks' /\ ClicksEnd'
    BY <1>7 DEF InSimulate, Idle, InTyped, InThreadType, InEvent, InClicks, ClicksEnd
  <2> QED
    BY <2>1, <2>2, <2>3, <2>4, <2>5, <2>6
<1>8. ASSUME NEW old \in SUBSET keysDown, InTimer(old) PROVE InInv'
  <2>1. InTyped'
    BY <1>8 DEF InTimer, FixStart, NoFix, InTyped, InThreadType, InFixType, InEvent,
       Fixer
  <2>2. InOneHand'
    BY <1>8 DEF InTimer, FixStart, NoFix, InTyped, InThreadType, InFixType, InOneHand,
       InHand, Fixing, Fixer
  <2>3. InRecorded'
    BY <1>8 DEF InTimer, FixStart, NoFix, InTyped, InThreadType, InFixType, InOneHand,
       InRecorded, InHand, Fixing, Fixer
  <2>4. InKnown'
    BY <1>8 DEF InTimer, FixStart, NoFix, InTyped, InThreadType, InFixType, InOneHand,
       InRecorded, InKnown, Fixer, InHand
  <2>5. InExitHeld' /\ ExitReleases'
    BY <1>8 DEF InTimer, FixStart, NoFix, InTyped, InThreadType, InFixType, InKnown,
       InExitHeld, ExitReleases, InHand, Fixing, Fixer
  <2>6. InClicks' /\ ClicksEnd'
    BY <1>8 DEF InTimer, FixStart, NoFix, InTyped, InThreadType, InEvent, InClicks,
       ClicksEnd
  <2> QED
    BY <2>1, <2>2, <2>3, <2>4, <2>5, <2>6
<1>9. CASE InCursorRound
  <2>1. InTyped'
    BY <1>9 DEF InCursorRound, FixStart, NoFix, InTyped, InThreadType, InFixType,
       InEvent, Fixer
  <2>2. InOneHand'
    BY <1>9 DEF InCursorRound, FixStart, NoFix, InTyped, InThreadType, InFixType,
       InOneHand, InHand, Fixing, Fixer
  <2>3. InRecorded'
    BY <1>9 DEF InCursorRound, FixStart, NoFix, InTyped, InThreadType, InFixType,
       InOneHand, InRecorded, InHand, Fixing, Fixer
  <2>4. InKnown'
    <3>1. \A f \in Fixer : fixers'[f].key = fixers[f].key
      <4>1. CASE fixers' = fixers
        BY <4>1
      <4>2. CASE fixers' = [fixers EXCEPT !["reset"].left = keysDown]
        BY <4>2 DEF InTyped, InFixType, Fixer
      <4> QED
        BY <1>9, <4>1, <4>2 DEF InCursorRound, FixStart
    <3> QED
      BY <1>9, <3>1 DEF InCursorRound, InKnown
  <2>5. InExitHeld' /\ ExitReleases'
    <3>1. fixers'["exit"] = fixers["exit"]
      BY <1>9 DEF InCursorRound, FixStart, InTyped, Fixer
    <3>2. \A k \in InKey : InHand(k)' = InHand(k)
      BY <1>9 DEF InCursorRound, InHand
    <3> QED
      BY <1>9, <3>1, <3>2 DEF InCursorRound, InExitHeld, ExitReleases
  <2>6. InClicks' /\ ClicksEnd'
    BY <1>9 DEF InCursorRound, FixStart, NoFix, InTyped, InThreadType, InEvent,
       InClicks, ClicksEnd
  <2> QED
    BY <2>1, <2>2, <2>3, <2>4, <2>5, <2>6
<1>10. CASE InExit
  <2>1. InTyped'
    BY <1>10 DEF InExit, InTyped, InThreadType, InFixType, InEvent, Fixer
  <2>2. InOneHand'
    BY <1>10 DEF InExit, InTyped, InThreadType, InFixType, InOneHand, InHand, Fixing,
       Fixer
  <2>3. InRecorded'
    BY <1>10 DEF InExit, InTyped, InThreadType, InFixType, InOneHand, InRecorded,
       InHand, Fixing, Fixer
  <2>4. InKnown'
    BY <1>10 DEF InExit, InTyped, InThreadType, InFixType, InOneHand, InRecorded,
       InKnown, Fixer, InHand
  <2>5. InExitHeld' /\ ExitReleases'
    BY <1>10 DEF InExit, InTyped, InThreadType, InFixType, InKnown, InExitHeld,
       ExitReleases, InHand, Fixing, Fixer
  <2>6. InClicks' /\ ClicksEnd'
    BY <1>10 DEF InExit, InTyped, InThreadType, InEvent, InClicks, ClicksEnd
  <2> QED
    BY <2>1, <2>2, <2>3, <2>4, <2>5, <2>6
<1>11. CASE InExitCopies
  <2>1. InTyped'
    BY <1>11 DEF InExitCopies, FixStart, NoFix, InTyped, InThreadType, InFixType,
       InEvent, Fixer
  <2>2. InOneHand'
    BY <1>11 DEF InExitCopies, FixStart, NoFix, InTyped, InThreadType, InFixType,
       InOneHand, InHand, Fixing, Fixer
  <2>3. InRecorded'
    BY <1>11 DEF InExitCopies, FixStart, NoFix, InTyped, InThreadType, InFixType,
       InOneHand, InRecorded, InHand, Fixing, Fixer
  <2>4. InKnown'
    BY <1>11 DEF InExitCopies, FixStart, NoFix, InTyped, InThreadType, InFixType,
       InOneHand, InRecorded, InKnown, Fixer, InHand
  <2>5. InExitHeld' /\ ExitReleases'
    BY <1>11 DEF InExitCopies, FixStart, NoFix, InTyped, InThreadType, InFixType,
       InKnown, InExitHeld, ExitReleases, InHand, Fixing, Fixer
  <2>6. InClicks' /\ ClicksEnd'
    BY <1>11 DEF InExitCopies, FixStart, NoFix, InTyped, InThreadType, InEvent,
       InClicks, ClicksEnd
  <2> QED
    BY <2>1, <2>2, <2>3, <2>4, <2>5, <2>6
<1>12. ASSUME NEW f \in Fixer, InFixRecord(f) PROVE InInv'
  <2>1. InTyped'
    BY <1>12 DEF InFixRecord, InTyped, InThreadType, InFixType, InEvent, Fixer
  <2>2. InOneHand'
    BY <1>12 DEF InFixRecord, InTyped, InThreadType, InFixType, InOneHand, InHand,
       Fixing, Fixer
  <2>3. InRecorded'
    BY <1>12 DEF InFixRecord, InTyped, InThreadType, InFixType, InOneHand, InRecorded,
       InHand, Fixing, Fixer
  <2>4. InKnown'
    BY <1>12 DEF InFixRecord, InTyped, InThreadType, InFixType, InOneHand, InRecorded,
       InKnown, Fixer, InHand
  <2>5. InExitHeld' /\ ExitReleases'
    BY <1>12 DEF InFixRecord, InTyped, InThreadType, InFixType, InKnown, InExitHeld,
       ExitReleases, InHand, Fixing, Fixer
  <2>6. InClicks' /\ ClicksEnd'
    BY <1>12 DEF InFixRecord, InTyped, InThreadType, InEvent, InClicks, ClicksEnd
  <2> QED
    BY <2>1, <2>2, <2>3, <2>4, <2>5, <2>6
<1>13. ASSUME NEW f \in Fixer, InFixRelease(f) PROVE InInv'
  <2>1. InTyped'
    BY <1>13 DEF InFixRelease, InTyped, InThreadType, InFixType, InEvent, Fixer
  <2>2. InOneHand'
    BY <1>13 DEF InFixRelease, InTyped, InThreadType, InFixType, InOneHand, InHand,
       Fixing, Fixer
  <2>3. InRecorded'
    BY <1>13 DEF InFixRelease, InTyped, InThreadType, InFixType, InOneHand, InRecorded,
       InHand, Fixing, Fixer
  <2>4. InKnown'
    BY <1>13 DEF InFixRelease, InTyped, InThreadType, InFixType, InOneHand, InRecorded,
       InKnown, Fixer, InHand
  <2>5. InExitHeld' /\ ExitReleases'
    <3>1. /\ osDown' = osDown \ {fixers[f].key} /\ fixers' = [fixers EXCEPT ![f].key = InNoKey]
          /\ exited' = (f = "exit" /\ fixers[f].left = {}) /\ fixers[f].key # InNoKey
          /\ exiting' = exiting /\ crossed' = crossed /\ inThread' = inThread
      BY <1>13 DEF InFixRelease
    <3>2. \A k \in InKey : InHand(k)' = InHand(k)
      BY <3>1 DEF InHand
    <3>3. "exit" \in Fixer /\ fixers \in [Fixer -> InFixType]
      BY DEF Fixer, InTyped
    <3>4. CASE f = "exit"
      <4>1. fixers["exit"] # NoFix
        BY <3>1, <3>4 DEF NoFix
      <4>2. fixers'["exit"].left = fixers["exit"].left
        BY <3>1, <3>3, <3>4 DEF InFixType
      <4>3. osDown' \ crossed \subseteq fixers["exit"].left
        BY <3>1, <3>4, <4>1 DEF InExitHeld
      <4> QED
        BY <3>1, <3>2, <4>1, <4>2, <4>3, <3>4 DEF InExitHeld, ExitReleases
    <3>5. CASE f # "exit"
      <4>1. fixers'["exit"] = fixers["exit"]
        BY <3>1, <3>3, <3>5
      <4> QED
        BY <3>1, <3>2, <4>1, <3>5 DEF InExitHeld, ExitReleases
    <3> QED
      BY <3>4, <3>5
  <2>6. InClicks' /\ ClicksEnd'
    BY <1>13 DEF InFixRelease, InTyped, InThreadType, InEvent, InClicks, ClicksEnd
  <2> QED
    BY <2>1, <2>2, <2>3, <2>4, <2>5, <2>6
<1>14. CASE UNCHANGED inVars
  BY <1>14 DEF InTyped, InOneHand, InRecorded, InKnown, InExitHeld, ExitReleases,
     InClicks, ClicksEnd, inVars, InHand, Fixing, Fixer, InThreadType, InFixType, InEvent
<1> QED
  BY <1>1, <1>2, <1>3, <1>4, <1>5, <1>6, <1>7, <1>8, <1>9, <1>10, <1>11, <1>12, <1>13,
     <1>14 DEF InNext, InputThread, Fix

(* No key is down.                                                         *)
LEMMA InInitInv == InInit => InInv
<1> SUFFICES ASSUME InInit PROVE InInv
  OBVIOUS
<1>1. InTyped
  <2>1. \A c \in InConn : inQueue[c] \in Seq(InEvent)
    BY DEF InInit
  <2>2. Idle \in InThreadType /\ NoFix \in InFixType
    BY DEF Idle, InThreadType, NoFix, InFixType
  <2>3. sent \in 0..InMaxEvents
    BY InAssumption DEF InInit
  <2>4. \A c \in InConn : inThread[c] = Idle
    BY DEF InInit
  <2> QED
    BY <2>1, <2>2, <2>3, <2>4 DEF InInit, InTyped, Idle
<1>2. InOneHand /\ InRecorded /\ InKnown /\ InExitHeld /\ ExitReleases
  BY DEF InInit, InOneHand, InRecorded, InKnown, InExitHeld, ExitReleases, InHand,
     Fixer, Idle
<1>3. InClicks /\ ClicksEnd
  BY DEF InInit, InClicks, ClicksEnd, Idle
<1> QED
  BY <1>1, <1>2, <1>3 DEF InInv

(* A key that is down on the host is in KEYS_DOWN or in the hand of a      *)
(* thread that will release it, none is down when the process is gone,     *)
(* and on Linux none but a modifier stays down; except for keys that two   *)
(* threads had in hand at a time (input_service.rs, connection.rs): for    *)
(* every set of keys and connections.                                      *)
THEOREM KeysSafe == InSpec => []InSafe
<1>1. InSpec => []InInv
  BY InInitInv, InStep, PTL DEF InSpec
<1> QED
  BY <1>1, InInvSafe, PTL
=============================================================================
