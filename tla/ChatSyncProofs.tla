--------------------------- MODULE ChatSyncProofs ---------------------------
(***************************************************************************)
(* Proofs about the message histories: what is stored where, what a step   *)
(* keeps, the refinement of ChatHistory, what a failed message means and   *)
(* which numbers the messages of the hall have.                            *)
(***************************************************************************)
EXTENDS ChatSync, WellFoundedInduction, FiniteSetTheorems, TLAPS

LEMMA MaxExists ==
    ASSUME NEW S \in SUBSET Nat, NEW b \in Nat, \A j \in S : j <= b, S # {}
    PROVE  \E k \in S : \A j \in S : j <= k
<1> DEFINE Bounds == {k \in Nat : \A j \in S : j <= k}
<1>1. Bounds # {} /\ Bounds \subseteq Nat
  OBVIOUS
<1>2. PICK k \in Bounds : \A y \in Bounds : ~ (<<y, k>> \in OpToRel(<, Nat))
  BY <1>1, NatLessThanWellFounded, WFMin
<1>3. \A y \in Bounds : ~ (y < k)
  BY <1>2 DEF OpToRel
<1>4. CASE k \in S
  BY <1>4, <1>2
<1>5. CASE k \notin S
  <2>1. k \in Nat /\ \A j \in S : j <= k
    BY <1>2
  <2>2. k # 0
    <3> PICK j \in S : TRUE
      OBVIOUS
    <3> QED
      BY <1>5, <2>1
  <2>3. k - 1 \in Nat /\ k - 1 < k /\ \A j \in S : j <= k - 1
    BY <2>1, <2>2, <1>5
  <2>4. k - 1 \in Bounds
    BY <2>3
  <2> HIDE DEF Bounds
  <2> QED
    BY <2>3, <2>4, <1>3
<1> QED
  BY <1>4, <1>5

\* The next sequence number is a number, and it grows by at most one per send.
LEMMA NextSequenceBound ==
    ASSUME HistoryInv, NEW n \in Node, NEW c
    PROVE  /\ NextSenderSequence(store[n], c, n) \in Nat
           /\ NextSenderSequence(store[n], c, n) <= Len(sent) + 1
<1> DEFINE seqs == {r.seq : r \in {x \in store[n] : x.conv = c /\ x.sender = n}}
<1>1. Len(sent) \in Nat
  BY DEF HistoryInv, TypeOK
<1>2. \A j \in seqs : j \in Nat /\ j <= Len(sent)
  <2> SUFFICES ASSUME NEW r \in store[n]
               PROVE  r.seq \in Nat /\ r.seq <= Len(sent)
    OBVIOUS
  <2>1. r \in Row
    BY DEF HistoryInv, TypeOK
  <2>2. /\ r.id[1] \in 1 .. Len(sent)
        /\ sent[r.id[1]].seq = r.seq
    BY DEF HistoryInv, RowsFiled, Known, Origin
  <2>3. sent[r.id[1]].seq <= r.id[1]
    BY <2>2 DEF HistoryInv, SendsAddressed
  <2> QED
    BY <1>1, <2>1, <2>2, <2>3 DEF Row
<1>3. CASE seqs = {}
  <2>1. NextSenderSequence(store[n], c, n) = 1
    BY <1>3 DEF NextSenderSequence
  <2> QED
    BY <1>1, <2>1
<1>4. CASE seqs # {}
  <2>1. \E k \in seqs : \A j \in seqs : j <= k
    <3>1. seqs \in SUBSET Nat
      BY <1>2
    <3> HIDE DEF seqs
    <3> QED
      BY <1>1, <1>2, <1>4, <3>1, MaxExists
  <2>2. NextSenderSequence(store[n], c, n) =
            1 + (CHOOSE k \in seqs : \A j \in seqs : j <= k)
    BY <1>4 DEF NextSenderSequence
  <2> HIDE DEF seqs
  <2>3. (CHOOSE k \in seqs : \A j \in seqs : j <= k) \in seqs
    BY <2>1
  <2> QED
    BY <1>1, <1>2, <2>2, <2>3
<1> QED
  BY <1>3, <1>4

-----------------------------------------------------------------------------
(* The inductive invariant. *)

LEMMA HistoryInvInit == Init => HistoryInv
  BY DEF Init, HistoryInv, TypeOK, SendsAddressed, TasksOfSends, PacketsAddressed,
         RequestsOfOthers, PeersAreOthers, RowsFiled, Send


\* Steps that only change who is connected, and what is on its way.
LEMMA ConnectivityInv ==
    ASSUME HistoryInv, NEW n \in Node,
           Connect(n) \/ Disconnect(n) \/ RefreshPeers(n) \/ Exit(n)
    PROVE  HistoryInv'
<1>1. UNCHANGED <<store, sent>>
  BY DEF Connect, Disconnect, RefreshPeers, Exit
<1>2. msgs' \subseteq msgs /\ reqs' \subseteq reqs
  BY DEF Connect, Disconnect, RefreshPeers, Exit
<1>3. \A m \in Node : tasks'[m] \subseteq tasks[m]
  BY DEF Connect, Disconnect, RefreshPeers, Exit, HistoryInv, TypeOK
<1>4. TypeOK'
  <2>1. CASE Connect(n) \/ RefreshPeers(n)
    BY <2>1 DEF Connect, RefreshPeers, HistoryInv, TypeOK
  <2>2. CASE Disconnect(n)
    BY <2>2 DEF Disconnect, HistoryInv, TypeOK
  <2>3. CASE Exit(n)
    BY <2>3 DEF Exit, HistoryInv, TypeOK
  <2> QED
    BY <2>1, <2>2, <2>3
<1>5. PeersAreOthers'
  BY DEF Connect, Disconnect, RefreshPeers, Exit, HistoryInv, TypeOK, PeersAreOthers
<1>6. SendsAddressed' /\ RowsFiled'
  BY <1>1 DEF HistoryInv, SendsAddressed, RowsFiled, Known, Origin
<1>7. TasksOfSends'
  BY <1>1, <1>3 DEF HistoryInv, TasksOfSends
<1>8. PacketsAddressed' /\ RequestsOfOthers'
  BY <1>1, <1>2 DEF HistoryInv, PacketsAddressed, RequestsOfOthers, Known, Origin
<1> QED
  BY <1>4, <1>5, <1>6, <1>7, <1>8 DEF HistoryInv

\* A new send is recorded; what was sent before keeps its number.
LEMMA BeginSendInv ==
    ASSUME HistoryInv, NEW n \in Node, NEW c \in Writable(n), NEW a \in Attachments,
           BeginSend(n, c, a)
    PROVE  HistoryInv'
<1> DEFINE seq == NextSenderSequence(store[n], c, n)
           task == [send |-> Len(sent) + 1, conv |-> c, seq |-> seq,
                    attachment |-> a, phase |-> "sequenced",
                    todo |-> {}, delivered |-> FALSE]
<1>1. seq \in Nat /\ seq <= Len(sent) + 1
  BY NextSequenceBound
<1>2. /\ c \in Conversation
      /\ \/ c = Hall
         \/ c = Room /\ n \in RoomMembers
         \/ \E m \in Node \ {n} : c = DirectConversation(n, m)
  BY DEF Writable, Hall, Room, DirectConversation, Conversation
<1>3. /\ sent' = Append(sent, [sender |-> n, conv |-> c, seq |-> seq])
      /\ tasks' = [tasks EXCEPT ![n] = @ \cup {task}]
      /\ UNCHANGED <<up, peers, store, msgs, reqs, faults>>
  BY DEF BeginSend
<1> HIDE DEF seq
<1>4. sent \in Seq(Send) /\ Len(sent) \in Nat
  BY DEF HistoryInv, TypeOK
<1>5. [sender |-> n, conv |-> c, seq |-> seq] \in Send
  BY <1>1, <1>2 DEF Send
<1>6. /\ sent' \in Seq(Send) /\ Len(sent') = Len(sent) + 1
      /\ \A k \in 1 .. Len(sent) : sent'[k] = sent[k]
      /\ sent'[Len(sent) + 1] = [sender |-> n, conv |-> c, seq |-> seq]
  BY <1>3, <1>4, <1>5
<1>7. TypeOK'
  <2>1. task \in SendTask
    BY <1>1, <1>2, <1>4, KindsAssumption DEF SendTask
  <2> HIDE DEF task
  <2> QED
    BY <1>3, <1>6, <2>1 DEF HistoryInv, TypeOK
<1>8. SendsAddressed'
  <2> SUFFICES ASSUME NEW k \in 1 .. Len(sent')
               PROVE  /\ sent'[k].seq <= k
                      /\ \/ sent'[k].conv = Hall
                         \/ sent'[k].conv = Room /\ sent'[k].sender \in RoomMembers
                         \/ \E m \in Node \ {sent'[k].sender} :
                              sent'[k].conv = DirectConversation(sent'[k].sender, m)
    BY DEF SendsAddressed
  <2>1. CASE k \in 1 .. Len(sent)
    BY <1>6, <2>1 DEF HistoryInv, SendsAddressed
  <2>2. CASE k = Len(sent) + 1
    BY <1>1, <1>2, <1>6, <2>2
  <2> QED
    BY <1>4, <1>6, <2>1, <2>2
<1>9. TasksOfSends'
  <2> SUFFICES ASSUME NEW m \in Node, NEW t \in tasks'[m]
               PROVE  /\ t.send \in 1 .. Len(sent')
                      /\ sent'[t.send] = [sender |-> m, conv |-> t.conv, seq |-> t.seq]
                      /\ t.todo \subseteq History!Audience(t.conv)
    BY DEF TasksOfSends
  <2>1. CASE t \in tasks[m]
    BY <1>4, <1>6, <2>1 DEF HistoryInv, TasksOfSends
  <2>2. CASE t = task /\ m = n
    BY <1>4, <1>6, <2>2
  <2> HIDE DEF task
  <2> QED
    BY <1>3, <2>1, <2>2 DEF HistoryInv, TypeOK
<1>10. PacketsAddressed'
  <2> SUFFICES ASSUME NEW p \in msgs
               PROVE  /\ p.id[1] \in 1 .. Len(sent') /\ p.to \in History!Audience(p.conv)
                      /\ sent'[p.id[1]] =
                           [sender |-> p.sender, conv |-> p.conv, seq |-> p.seq]
    BY <1>3 DEF PacketsAddressed, Known, Origin
  <2> QED
    BY <1>4, <1>6 DEF HistoryInv, PacketsAddressed, Known, Origin
<1>11. RowsFiled'
  BY <1>3, <1>4, <1>6 DEF HistoryInv, RowsFiled, Known, Origin
<1>12. RequestsOfOthers' /\ PeersAreOthers'
  BY <1>3 DEF HistoryInv, RequestsOfOthers, PeersAreOthers
<1> QED
  BY <1>7, <1>8, <1>9, <1>10, <1>11, <1>12 DEF HistoryInv

\* A send that goes on: its task is replaced by one for the same send whose
\* recipients are still in the audience, and rows, packets of others stay.
LEMMA TaskReplacedInv ==
    ASSUME HistoryInv, NEW n \in Node, NEW t \in tasks[n], NEW u,
           u = [t EXCEPT !.phase = u.phase, !.todo = u.todo, !.delivered = u.delivered],
           u.phase \in {"sequenced", "sending"}, u.delivered \in BOOLEAN,
           u.todo \subseteq Node, u.todo \subseteq History!Audience(t.conv),
           tasks' = [tasks EXCEPT ![n] = (@ \ {t}) \cup {u}],
           UNCHANGED sent
    PROVE  tasks' \in [Node -> SUBSET SendTask] /\ TasksOfSends'
<1>1. t \in SendTask
  BY DEF HistoryInv, TypeOK
<1>2. u \in SendTask /\ u.send = t.send /\ u.conv = t.conv /\ u.seq = t.seq
  BY <1>1 DEF SendTask
<1>3. tasks' \in [Node -> SUBSET SendTask]
  BY <1>2 DEF HistoryInv, TypeOK
<1>4. \A m \in Node : \A x \in tasks'[m] : x \in tasks[m] \/ (m = n /\ x = u)
  BY DEF HistoryInv, TypeOK
<1>5. TasksOfSends'
  <2> SUFFICES ASSUME NEW m \in Node, NEW x \in tasks'[m]
               PROVE  /\ x.send \in 1 .. Len(sent)
                      /\ sent[x.send] = [sender |-> m, conv |-> x.conv, seq |-> x.seq]
                      /\ x.todo \subseteq History!Audience(x.conv)
    BY DEF TasksOfSends
  <2>1. CASE x \in tasks[m]
    BY <2>1 DEF HistoryInv, TasksOfSends
  <2>2. CASE m = n /\ x = u
    BY <1>2, <2>2 DEF HistoryInv, TasksOfSends
  <2> QED
    BY <1>4, <2>1, <2>2
<1> QED
  BY <1>3, <1>5

LEMMA StartTransmissionInv ==
    ASSUME HistoryInv, NEW n \in Node, NEW t \in tasks[n], StartTransmission(n, t)
    PROVE  HistoryInv'
<1> DEFINE u == [t EXCEPT !.phase = "sending", !.todo = ResolveRecipients(n, t.conv)]
<1>1. t \in SendTask
  BY DEF HistoryInv, TypeOK
<1>2. /\ ResolveRecipients(n, t.conv) \subseteq Node
      /\ ResolveRecipients(n, t.conv) \subseteq History!Audience(t.conv)
  BY <1>1 DEF ResolveRecipients, History!Audience, SendTask, Conversation,
              HistoryInv, TypeOK
<1>3. /\ tasks' = [tasks EXCEPT ![n] = (@ \ {t}) \cup {u}]
      /\ UNCHANGED <<up, peers, store, msgs, reqs, sent, faults>>
  BY DEF StartTransmission
<1>4. tasks' \in [Node -> SUBSET SendTask] /\ TasksOfSends'
  <2>1. /\ u.phase \in {"sequenced", "sending"} /\ u.delivered \in BOOLEAN
        /\ u.todo = ResolveRecipients(n, t.conv)
    BY <1>1 DEF SendTask
  <2>3. u.todo \subseteq Node /\ u.todo \subseteq History!Audience(t.conv)
    BY <1>2, <2>1
  <2>2. u = [t EXCEPT !.phase = u.phase, !.todo = u.todo, !.delivered = u.delivered]
    BY <1>1 DEF SendTask
  <2> HIDE DEF u
  <2> QED
    BY <1>3, <2>1, <2>2, <2>3, TaskReplacedInv
<1> QED
  BY <1>3, <1>4 DEF HistoryInv, TypeOK, SendsAddressed, PacketsAddressed,
                    RequestsOfOthers, PeersAreOthers, RowsFiled, Known, Origin

LEMMA TransmitToInv ==
    ASSUME HistoryInv, NEW n \in Node, NEW t \in tasks[n], NEW m \in Node,
           TransmitTo(n, t, m)
    PROVE  HistoryInv'
<1> DEFINE u == [t EXCEPT !.todo = @ \ {m}, !.delivered = TRUE]
           p == [to |-> m, id |-> <<t.send, "packet">>,
                 conv |-> t.conv, sender |-> n, seq |-> t.seq]
<1>1. t \in SendTask
  BY DEF HistoryInv, TypeOK
<1>2. /\ t.send \in 1 .. Len(sent) /\ t.todo \subseteq History!Audience(t.conv)
      /\ sent[t.send] = [sender |-> n, conv |-> t.conv, seq |-> t.seq]
  BY DEF HistoryInv, TasksOfSends
<1>3. /\ tasks' = [tasks EXCEPT ![n] = (@ \ {t}) \cup {u}]
      /\ msgs' = msgs \cup {p} /\ m \in t.todo
      /\ UNCHANGED <<up, peers, store, reqs, sent, faults>>
  BY DEF TransmitTo
<1>4. tasks' \in [Node -> SUBSET SendTask] /\ TasksOfSends'
  <2>1. u.phase = t.phase /\ t.phase \in {"sequenced", "sending"}
        /\ u.todo = t.todo \ {m} /\ t.todo \subseteq Node /\ u.delivered = TRUE
    BY <1>1 DEF SendTask
  <2>2. u = [t EXCEPT !.phase = u.phase, !.todo = u.todo, !.delivered = u.delivered]
    BY <1>1 DEF SendTask
  <2>3. u.todo \subseteq Node /\ u.todo \subseteq History!Audience(t.conv)
    BY <1>2, <2>1
  <2> HIDE DEF u
  <2> QED
    BY <1>3, <2>1, <2>2, <2>3, TaskReplacedInv
<1>5. p \in Packet
  BY <1>1 DEF SendTask, Packet, MessageId
<1>6. PacketsAddressed'
  <2>1. /\ Known(p.id) /\ p.to \in History!Audience(p.conv)
        /\ Origin(p.id) = [sender |-> p.sender, conv |-> p.conv, seq |-> p.seq]
    BY <1>2, <1>3 DEF Known, Origin
  <2> HIDE DEF p
  <2> QED
    BY <1>3, <2>1 DEF HistoryInv, PacketsAddressed, Known, Origin
<1> HIDE DEF p
<1> QED
  BY <1>3, <1>4, <1>5, <1>6 DEF HistoryInv, TypeOK, SendsAddressed,
                    RequestsOfOthers, PeersAreOthers, RowsFiled, Known, Origin

LEMMA FailToInv ==
    ASSUME HistoryInv, NEW n \in Node, NEW t \in tasks[n], NEW m \in Node,
           FailTo(n, t, m)
    PROVE  HistoryInv'
<1> DEFINE u == [t EXCEPT !.todo = @ \ {m}]
<1>1. t \in SendTask
  BY DEF HistoryInv, TypeOK
<1>2. t.todo \subseteq History!Audience(t.conv)
  BY DEF HistoryInv, TasksOfSends
<1>3. /\ tasks' = [tasks EXCEPT ![n] = (@ \ {t}) \cup {u}]
      /\ UNCHANGED <<up, peers, store, msgs, reqs, sent>>
      /\ faults' = [faults EXCEPT !.fail = IF up[m] THEN @ + 1 ELSE @]
  BY DEF FailTo
<1>4. tasks' \in [Node -> SUBSET SendTask] /\ TasksOfSends'
  <2>1. u.phase = t.phase /\ t.phase \in {"sequenced", "sending"}
        /\ u.todo = t.todo \ {m} /\ t.todo \subseteq Node
        /\ u.delivered = t.delivered /\ t.delivered \in BOOLEAN
    BY <1>1 DEF SendTask
  <2>2. u = [t EXCEPT !.phase = u.phase, !.todo = u.todo, !.delivered = u.delivered]
    BY <1>1 DEF SendTask
  <2>3. u.todo \subseteq Node /\ u.todo \subseteq History!Audience(t.conv)
    BY <1>2, <2>1
  <2> HIDE DEF u
  <2> QED
    BY <1>3, <2>1, <2>2, <2>3, TaskReplacedInv
<1>5. faults' \in [fail : Nat, down : Nat, exit : Nat]
  BY <1>3 DEF HistoryInv, TypeOK
<1> QED
  BY <1>3, <1>4, <1>5 DEF HistoryInv, TypeOK, SendsAddressed, PacketsAddressed,
                    RequestsOfOthers, PeersAreOthers, RowsFiled, Known, Origin

\* Storing a row that is filed right keeps the table filed right: replacing only
\* deletes other rows.
LEMMA UpsertInv ==
    ASSUME HistoryInv, NEW n \in Node, NEW r \in Row,
           Known(r.id), n \in History!Audience(Origin(r.id).conv),
           Origin(r.id).sender = r.sender, Origin(r.id).seq = r.seq,
           \/ r.conv = Origin(r.id).conv
           \/ /\ Origin(r.id).conv.type = "direct" /\ r.sender = n
              /\ r.conv = DirectConversation(n, n),
           store' = [store EXCEPT ![n] = UpsertMessage(@, r)],
           UNCHANGED sent
    PROVE  store' \in [Node -> SUBSET Row] /\ RowsFiled'
<1>1. \A m \in Node : \A x \in store'[m] : x \in store[m] \/ (m = n /\ x = r)
  BY DEF HistoryInv, TypeOK, UpsertMessage
<1>2. store' \in [Node -> SUBSET Row]
  BY DEF HistoryInv, TypeOK, UpsertMessage
<1>3. RowsFiled'
  <2> SUFFICES ASSUME NEW m \in Node, NEW x \in store'[m]
               PROVE  /\ Known(x.id) /\ m \in History!Audience(Origin(x.id).conv)
                      /\ Origin(x.id).sender = x.sender /\ Origin(x.id).seq = x.seq
                      /\ \/ x.conv = Origin(x.id).conv
                         \/ /\ Origin(x.id).conv.type = "direct" /\ x.sender = m
                            /\ x.conv = DirectConversation(m, m)
    BY DEF RowsFiled, Known, Origin
  <2>1. CASE x \in store[m]
    BY <2>1 DEF HistoryInv, RowsFiled
  <2>2. CASE m = n /\ x = r
    BY <2>2
  <2> QED
    BY <1>1, <2>1, <2>2
<1> QED
  BY <1>2, <1>3

\* A member of the conversation of a send is in its audience.
LEMMA SenderInAudience ==
    ASSUME HistoryInv, NEW k \in 1 .. Len(sent)
    PROVE  sent[k].sender \in History!Audience(sent[k].conv)
<1>1. sent[k] \in Send
  BY DEF HistoryInv, TypeOK
<1>2. CASE sent[k].conv = Hall
  BY <1>1, <1>2 DEF Hall, History!Audience, Send
<1>3. CASE sent[k].conv = Room /\ sent[k].sender \in RoomMembers
  BY <1>3 DEF Room, History!Audience
<1>4. CASE \E m \in Node \ {sent[k].sender} :
             sent[k].conv = DirectConversation(sent[k].sender, m)
  BY <1>4 DEF DirectConversation, History!Audience
<1> QED
  BY <1>2, <1>3, <1>4 DEF HistoryInv, SendsAddressed

LEMMA FinishSendInv ==
    ASSUME HistoryInv, NEW n \in Node, NEW t \in tasks[n], FinishSend(n, t)
    PROVE  HistoryInv'
<1> DEFINE r == [id |-> <<t.send, IF t.attachment THEN "packet" ELSE "local">>,
                 conv |-> t.conv, sender |-> n, seq |-> t.seq,
                 direction |-> "outgoing",
                 status |-> IF t.delivered THEN "sent" ELSE "failed"]
<1>1. t \in SendTask
  BY DEF HistoryInv, TypeOK
<1>2. /\ t.send \in 1 .. Len(sent)
      /\ sent[t.send] = [sender |-> n, conv |-> t.conv, seq |-> t.seq]
  BY DEF HistoryInv, TasksOfSends
<1>3. /\ store' = [store EXCEPT ![n] = UpsertMessage(@, r)]
      /\ tasks' = [tasks EXCEPT ![n] = @ \ {t}]
      /\ UNCHANGED <<up, peers, msgs, reqs, sent, faults>>
  BY DEF FinishSend
<1>4. r \in Row
  BY <1>1 DEF SendTask, Row, MessageId
<1>5. /\ Known(r.id) /\ n \in History!Audience(Origin(r.id).conv)
      /\ Origin(r.id).sender = r.sender /\ Origin(r.id).seq = r.seq
      /\ r.conv = Origin(r.id).conv
  <2>1. n \in History!Audience(t.conv)
    BY <1>2, SenderInAudience
  <2> QED
    BY <1>2, <2>1 DEF Known, Origin
<1> HIDE DEF r
<1>6. store' \in [Node -> SUBSET Row] /\ RowsFiled'
  BY <1>3, <1>4, <1>5, UpsertInv
<1>7. tasks' \in [Node -> SUBSET SendTask] /\ TasksOfSends'
  BY <1>3 DEF HistoryInv, TypeOK, TasksOfSends
<1> QED
  BY <1>3, <1>6, <1>7 DEF HistoryInv, TypeOK, SendsAddressed, PacketsAddressed,
                    RequestsOfOthers, PeersAreOthers, Known, Origin

\* The row a received packet is stored as.
IncomingRow(n, p) ==
    [id |-> p.id, conv |-> CanonicalConversation(n, p), sender |-> p.sender,
     seq |-> p.seq, direction |-> "incoming", status |-> "sent"]

\* A private packet is filed under its own conversation, unless it is back at
\* its sender.
LEMMA IncomingFiled ==
    ASSUME HistoryInv, NEW p \in msgs
    PROVE  /\ IncomingRow(p.to, p) \in Row
           /\ Known(p.id) /\ p.to \in History!Audience(Origin(p.id).conv)
           /\ Origin(p.id).sender = p.sender /\ Origin(p.id).seq = p.seq
           /\ \/ CanonicalConversation(p.to, p) = Origin(p.id).conv
              \/ /\ Origin(p.id).conv.type = "direct" /\ p.sender = p.to
                 /\ CanonicalConversation(p.to, p) = DirectConversation(p.to, p.to)
<1>1. p \in Packet
  BY DEF HistoryInv, TypeOK
<1>2. /\ Known(p.id) /\ p.to \in History!Audience(p.conv)
      /\ Origin(p.id) = [sender |-> p.sender, conv |-> p.conv, seq |-> p.seq]
  BY DEF HistoryInv, PacketsAddressed
<1>3. IncomingRow(p.to, p) \in Row
  BY <1>1 DEF IncomingRow, CanonicalConversation, DirectConversation, Packet, Row,
              Conversation
<1>4. CASE p.conv.type # "direct"
  BY <1>2, <1>3, <1>4 DEF CanonicalConversation
<1>5. CASE p.conv.type = "direct"
  <2>1. PICK m \in Node \ {p.sender} : p.conv = DirectConversation(p.sender, m)
    <3>1. /\ p.id[1] \in 1 .. Len(sent)
          /\ sent[p.id[1]].conv = p.conv /\ sent[p.id[1]].sender = p.sender
      BY <1>2 DEF Known, Origin
    <3> QED
      BY <1>5, <3>1 DEF HistoryInv, SendsAddressed, Hall, Room
  <2>2. p.to \in {p.sender, m}
    BY <1>2, <1>5, <2>1 DEF History!Audience, DirectConversation
  <2>3. CanonicalConversation(p.to, p) = DirectConversation(p.to, p.sender)
    BY <1>5 DEF CanonicalConversation
  <2>4. CASE p.to = p.sender
    BY <1>2, <1>3, <1>5, <2>3, <2>4
  <2>5. CASE p.to = m
    <3>1. DirectConversation(m, p.sender) = DirectConversation(p.sender, m)
      BY DEF DirectConversation
    <3> QED
      BY <1>2, <1>3, <2>1, <2>3, <2>5, <3>1
  <2> QED
    BY <2>2, <2>4, <2>5
<1> QED
  BY <1>4, <1>5

LEMMA ReceiveMessageInv ==
    ASSUME HistoryInv, NEW n \in Node, NEW p \in msgs, ReceiveMessage(n, p)
    PROVE  HistoryInv'
<1>1. /\ p.to = n /\ msgs' \subseteq msgs
      /\ store' = IF up[n]
                  THEN [store EXCEPT ![n] = UpsertMessage(@, IncomingRow(n, p))]
                  ELSE store
      /\ UNCHANGED <<up, peers, tasks, reqs, sent, faults>>
  BY DEF ReceiveMessage, IncomingRow
<1>2. store' \in [Node -> SUBSET Row] /\ RowsFiled'
  <2>1. CASE up[n]
    <3> DEFINE r == IncomingRow(n, p)
    <3>1. /\ r \in Row /\ r.id = p.id /\ r.sender = p.sender /\ r.seq = p.seq
          /\ r.conv = CanonicalConversation(n, p)
      BY <1>1, IncomingFiled DEF IncomingRow
    <3>2. /\ Known(r.id) /\ n \in History!Audience(Origin(r.id).conv)
          /\ Origin(r.id).sender = r.sender /\ Origin(r.id).seq = r.seq
          /\ \/ r.conv = Origin(r.id).conv
             \/ /\ Origin(r.id).conv.type = "direct" /\ r.sender = n
                /\ r.conv = DirectConversation(n, n)
      BY <1>1, <3>1, IncomingFiled
    <3>3. store' = [store EXCEPT ![n] = UpsertMessage(@, r)]
      BY <1>1, <2>1
    <3> HIDE DEF r
    <3> QED
      BY <1>1, <3>1, <3>2, <3>3, UpsertInv
  <2>2. CASE ~up[n]
    BY <1>1, <2>2 DEF HistoryInv, TypeOK, RowsFiled, Known, Origin
  <2> QED
    BY <2>1, <2>2
<1> QED
  BY <1>1, <1>2 DEF HistoryInv, TypeOK, SendsAddressed, TasksOfSends, PacketsAddressed,
                    RequestsOfOthers, PeersAreOthers, Known, Origin

LEMMA SyncWithPeerInv ==
    ASSUME HistoryInv, NEW n \in Node, NEW m \in Node, NEW ok \in SUBSET BOOLEAN,
           SyncWithPeer(n, m, ok)
    PROVE  HistoryInv'
<1> DEFINE cs == {Hall, DirectConversation(n, m)} \cup JoinedRooms(n)
           request(a) == [to |-> m, from |-> n, alias |-> a,
                          summary |-> IF a THEN {} ELSE SummaryOf(store[n], cs)]
<1>1. /\ m \in peers[n]
      /\ reqs' = reqs \cup (IF up[m] THEN {request(a) : a \in ok} ELSE {})
      /\ faults' = [faults EXCEPT !.fail = IF up[m] /\ ok # BOOLEAN THEN @ + 1 ELSE @]
      /\ UNCHANGED <<up, peers, store, tasks, msgs, sent>>
  BY DEF SyncWithPeer
<1>2. n # m
  BY <1>1 DEF HistoryInv, PeersAreOthers
<1>3. SummaryOf(store[n], cs) \subseteq [conv : Conversation, sender : Node, seq : Nat]
  BY DEF SummaryOf, HistoryInv, TypeOK, Row
<1> HIDE DEF cs
<1>4. \A a \in BOOLEAN : /\ request(a) \in SyncRequest
                         /\ request(a).from = n /\ request(a).to = m
  BY <1>3 DEF SyncRequest
<1> HIDE DEF request
<1>5. reqs' \subseteq SyncRequest /\ RequestsOfOthers'
  BY <1>1, <1>2, <1>4 DEF HistoryInv, TypeOK, RequestsOfOthers
<1>6. faults' \in [fail : Nat, down : Nat, exit : Nat]
  BY <1>1 DEF HistoryInv, TypeOK
<1> QED
  BY <1>1, <1>5, <1>6 DEF HistoryInv, TypeOK, SendsAddressed, TasksOfSends,
                    PacketsAddressed, PeersAreOthers, RowsFiled, Known, Origin

\* An answer to a sync request carries rows of a conversation the requester is
\* in, and rows that are filed under the conversation they were sent in.
LEMMA AnswerAddressed ==
    ASSUME HistoryInv, NEW n \in Node, NEW q \in reqs, q.to = n, NEW r \in store[n],
           r.conv \in {Hall, DirectConversation(n, q.from)} \cup JoinedRooms(q.from)
    PROVE  /\ PacketFor(q.from, r) \in Packet
           /\ Known(r.id) /\ q.from \in History!Audience(r.conv)
           /\ Origin(r.id) = [sender |-> r.sender, conv |-> r.conv, seq |-> r.seq]
<1>1. q \in SyncRequest /\ r \in Row /\ q.from # n
  BY DEF HistoryInv, TypeOK, RequestsOfOthers
<1>2. PacketFor(q.from, r) \in Packet
  BY <1>1 DEF PacketFor, Packet, SyncRequest, Row
<1>3. /\ Known(r.id) /\ Origin(r.id).sender = r.sender /\ Origin(r.id).seq = r.seq
      /\ r.conv = Origin(r.id).conv \/ r.conv = DirectConversation(n, n)
  BY DEF HistoryInv, RowsFiled
<1>4. r.conv # DirectConversation(n, n)
  BY <1>1 DEF DirectConversation, Hall, Room, JoinedRooms
<1>5. Origin(r.id) \in Send
  BY <1>3 DEF Known, Origin, HistoryInv, TypeOK
<1>6. Origin(r.id) = [sender |-> r.sender, conv |-> r.conv, seq |-> r.seq]
  BY <1>3, <1>4, <1>5 DEF Send
<1>7. q.from \in History!Audience(r.conv)
  <2>1. CASE r.conv = Hall
    BY <1>1, <2>1 DEF Hall, History!Audience, SyncRequest
  <2>2. CASE r.conv = DirectConversation(n, q.from)
    BY <2>2 DEF DirectConversation, History!Audience
  <2>3. CASE r.conv = Room /\ q.from \in RoomMembers
    BY <2>3 DEF Room, History!Audience
  <2> QED
    BY <2>1, <2>2, <2>3 DEF JoinedRooms
<1> QED
  BY <1>2, <1>3, <1>6, <1>7

LEMMA HandleSyncRequestInv ==
    ASSUME HistoryInv, NEW n \in Node, NEW q \in reqs, NEW ok \in SUBSET store[n],
           HandleSyncRequest(n, q, ok)
    PROVE  HistoryInv'
<1>1. /\ q.to = n /\ reqs' \subseteq reqs
      /\ \A r \in ok :
           r.conv \in {Hall, DirectConversation(n, q.from)} \cup JoinedRooms(q.from)
      /\ \A p \in msgs' : p \in msgs \/ \E r \in ok : p = PacketFor(q.from, r)
      /\ UNCHANGED <<up, peers, store, tasks, sent>>
  BY DEF HandleSyncRequest, MissingMessages
<1>2. faults' \in [fail : Nat, down : Nat, exit : Nat]
  BY DEF HandleSyncRequest, HistoryInv, TypeOK
<1>3. msgs' \subseteq Packet
  BY <1>1, AnswerAddressed DEF HistoryInv, TypeOK
<1>4. PacketsAddressed'
  <2> SUFFICES ASSUME NEW p \in msgs'
               PROVE  /\ Known(p.id) /\ p.to \in History!Audience(p.conv)
                      /\ Origin(p.id) =
                           [sender |-> p.sender, conv |-> p.conv, seq |-> p.seq]
    BY <1>1 DEF PacketsAddressed, Known, Origin
  <2>1. CASE p \in msgs
    BY <2>1 DEF HistoryInv, PacketsAddressed
  <2>2. CASE \E r \in ok : p = PacketFor(q.from, r)
    <3> PICK r \in ok : p = PacketFor(q.from, r)
      BY <2>2
    <3>1. /\ p.id = r.id /\ p.to = q.from /\ p.conv = r.conv
          /\ p.sender = r.sender /\ p.seq = r.seq
      BY DEF PacketFor
    <3> QED
      BY <1>1, <3>1, AnswerAddressed
  <2> QED
    BY <1>1, <2>1, <2>2
<1> QED
  BY <1>1, <1>2, <1>3, <1>4 DEF HistoryInv, TypeOK, SendsAddressed, TasksOfSends,
                    RequestsOfOthers, PeersAreOthers, RowsFiled, Known, Origin

LEMMA HistoryInvStep == HistoryInv /\ [Next]_vars => HistoryInv'
<1> SUFFICES ASSUME HistoryInv, [Next]_vars
             PROVE  HistoryInv'
  OBVIOUS
<1>1. CASE UNCHANGED vars
  BY <1>1 DEF vars, HistoryInv, TypeOK, SendsAddressed, TasksOfSends, PacketsAddressed,
              RequestsOfOthers, PeersAreOthers, RowsFiled, Known, Origin
<1>2. CASE Next
  <2> PICK n \in Node :
        \/ Connect(n) \/ Disconnect(n) \/ RefreshPeers(n) \/ Exit(n)
        \/ \E c \in Writable(n), a \in Attachments : BeginSend(n, c, a)
        \/ SendStep(n)
        \/ \E p \in msgs : ReceiveMessage(n, p)
        \/ \E m \in Node, ok \in SUBSET BOOLEAN : SyncWithPeer(n, m, ok)
        \/ \E q \in reqs, ok \in SUBSET store[n] : HandleSyncRequest(n, q, ok)
    BY <1>2 DEF Next
  <2>1. CASE Connect(n) \/ Disconnect(n) \/ RefreshPeers(n) \/ Exit(n)
    BY <2>1, ConnectivityInv
  <2>2. CASE \E c \in Writable(n), a \in Attachments : BeginSend(n, c, a)
    BY <2>2, BeginSendInv
  <2>3. CASE SendStep(n)
    BY <2>3, StartTransmissionInv, TransmitToInv, FailToInv, FinishSendInv DEF SendStep
  <2>4. CASE \E p \in msgs : ReceiveMessage(n, p)
    BY <2>4, ReceiveMessageInv
  <2>5. CASE \E m \in Node, ok \in SUBSET BOOLEAN : SyncWithPeer(n, m, ok)
    BY <2>5, SyncWithPeerInv
  <2>6. CASE \E q \in reqs, ok \in SUBSET store[n] : HandleSyncRequest(n, q, ok)
    BY <2>6, HandleSyncRequestInv
  <2> QED
    BY <2>1, <2>2, <2>3, <2>4, <2>5, <2>6
<1> QED
  BY <1>1, <1>2

\* Every reachable state satisfies the invariant, whatever the constants are.
THEOREM HistoryInvariant == Spec => []HistoryInv
  BY HistoryInvInit, HistoryInvStep, PTL DEF Spec

THEOREM TypeCorrect == Spec => []TypeOK
  BY HistoryInvariant, PTL DEF HistoryInv

\* A private message is stored at the two nodes of its conversation only.
THEOREM PrivateStaysPrivate == Spec => []DirectPrivacy
<1>1. HistoryInv => DirectPrivacy
  BY DEF HistoryInv, RowsFiled, DirectPrivacy, History!Audience
<1> QED
  BY <1>1, HistoryInvariant, PTL

-----------------------------------------------------------------------------
(* What a step does to the histories. *)

\* Row w may be stored by node n.
Filed(n, w) ==
    /\ w \in Row
    /\ Known(w.id) /\ n \in History!Audience(Origin(w.id).conv)
    /\ Origin(w.id).sender = w.sender /\ Origin(w.id).seq = w.seq
    /\ \/ w.conv = Origin(w.id).conv
       \/ /\ Origin(w.id).conv.type = "direct" /\ w.sender = n
          /\ w.conv = DirectConversation(n, n)

\* A step publishes one message, or stores one row, or leaves both alone.
LEMMA StepKinds ==
    ASSUME HistoryInv, [Next]_vars
    PROVE  \/ UNCHANGED <<store, sent>>
           \/ \E n \in Node, w \in Row :
                /\ Filed(n, w) /\ UNCHANGED sent
                /\ store' = [store EXCEPT ![n] = UpsertMessage(@, w)]
           \/ \E x \in Send : sent' = Append(sent, x) /\ UNCHANGED store
<1>1. CASE UNCHANGED vars
  BY <1>1 DEF vars
<1>2. CASE Next
  <2> PICK n \in Node :
        \/ Connect(n) \/ Disconnect(n) \/ RefreshPeers(n) \/ Exit(n)
        \/ \E c \in Writable(n), a \in Attachments : BeginSend(n, c, a)
        \/ SendStep(n)
        \/ \E p \in msgs : ReceiveMessage(n, p)
        \/ \E m \in Node, ok \in SUBSET BOOLEAN : SyncWithPeer(n, m, ok)
        \/ \E q \in reqs, ok \in SUBSET store[n] : HandleSyncRequest(n, q, ok)
    BY <1>2 DEF Next
  <2>1. CASE \/ Connect(n) \/ Disconnect(n) \/ RefreshPeers(n) \/ Exit(n)
             \/ \E m \in Node, ok \in SUBSET BOOLEAN : SyncWithPeer(n, m, ok)
             \/ \E q \in reqs, ok \in SUBSET store[n] : HandleSyncRequest(n, q, ok)
    BY <2>1 DEF Connect, Disconnect, RefreshPeers, Exit, SyncWithPeer, HandleSyncRequest
  <2>2. CASE \E c \in Writable(n), a \in Attachments : BeginSend(n, c, a)
    <3> PICK c \in Writable(n), a \in Attachments : BeginSend(n, c, a)
      BY <2>2
    <3> DEFINE x == [sender |-> n, conv |-> c, seq |-> NextSenderSequence(store[n], c, n)]
    <3>1. x \in Send
      BY NextSequenceBound DEF Send, Writable, Hall, Room, DirectConversation, Conversation
    <3>2. sent' = Append(sent, x) /\ UNCHANGED store
      BY DEF BeginSend
    <3> QED
      BY <3>1, <3>2
  <2>3. CASE \E t \in tasks[n] :
               \/ StartTransmission(n, t)
               \/ \E m \in Node : TransmitTo(n, t, m) \/ FailTo(n, t, m)
    BY <2>3 DEF StartTransmission, TransmitTo, FailTo
  <2>4. CASE \E t \in tasks[n] : FinishSend(n, t)
    <3> PICK t \in tasks[n] : FinishSend(n, t)
      BY <2>4
    <3> DEFINE w == [id |-> <<t.send, IF t.attachment THEN "packet" ELSE "local">>,
                     conv |-> t.conv, sender |-> n, seq |-> t.seq,
                     direction |-> "outgoing",
                     status |-> IF t.delivered THEN "sent" ELSE "failed"]
    <3>1. t \in SendTask
      BY DEF HistoryInv, TypeOK
    <3>2. /\ t.send \in 1 .. Len(sent)
          /\ sent[t.send] = [sender |-> n, conv |-> t.conv, seq |-> t.seq]
      BY DEF HistoryInv, TasksOfSends
    <3>3. w \in Row
      BY <3>1 DEF SendTask, Row, MessageId
    <3>4. n \in History!Audience(t.conv)
      BY <3>2, SenderInAudience
    <3>5. Filed(n, w)
      BY <3>2, <3>3, <3>4 DEF Filed, Known, Origin
    <3>6. store' = [store EXCEPT ![n] = UpsertMessage(@, w)] /\ UNCHANGED sent
      BY DEF FinishSend
    <3> QED
      BY <3>3, <3>5, <3>6
  <2>5. CASE \E p \in msgs : ReceiveMessage(n, p)
    <3> PICK p \in msgs : ReceiveMessage(n, p)
      BY <2>5
    <3> DEFINE w == IncomingRow(n, p)
    <3>1. p.to = n /\ UNCHANGED sent
      BY DEF ReceiveMessage
    <3>2. /\ w \in Row /\ w.id = p.id /\ w.sender = p.sender /\ w.seq = p.seq
          /\ w.conv = CanonicalConversation(n, p)
      BY <3>1, IncomingFiled DEF IncomingRow
    <3>3. store' = store \/ store' = [store EXCEPT ![n] = UpsertMessage(@, w)]
      BY DEF ReceiveMessage, IncomingRow
    <3> HIDE DEF w
    <3>4. Filed(n, w)
      BY <3>1, <3>2, IncomingFiled DEF Filed
    <3> QED
      BY <3>1, <3>2, <3>3, <3>4
  <2> QED
    BY <2>1, <2>2, <2>3, <2>4, <2>5 DEF SendStep
<1> QED
  BY <1>1, <1>2

\* Replacing deletes no message that is to be kept: a deleted row has the key of
\* the new one, because the id of a message fixes its key.
LEMMA UpsertKeeps ==
    ASSUME HistoryInv, NEW n \in Node, NEW w, Filed(n, w),
           NEW r \in store[n], Kept(n, r)
    PROVE  \E x \in UpsertMessage(store[n], w) : Key(x) = Key(r)
<1>1. CASE r.id # w.id
  BY <1>1 DEF UpsertMessage
<1>2. CASE r.id = w.id
  <2>1. r.conv = Origin(r.id).conv
    <3>1. DirectConversation(n, n).type = "direct"
      BY DEF DirectConversation
    <3>2. r.conv = Origin(r.id).conv \/ (r.sender = n /\ r.conv = DirectConversation(n, n))
      BY DEF HistoryInv, RowsFiled
    <3> QED
      BY <3>1, <3>2 DEF Kept
  <2>2. r.sender = w.sender /\ r.seq = w.seq
    BY <1>2 DEF HistoryInv, RowsFiled, Filed
  <2>3. w.conv = r.conv
    BY <1>2, <2>1, <2>2 DEF Filed, Kept
  <2> QED
    BY <2>2, <2>3 DEF UpsertMessage, Key
<1> QED
  BY <1>1, <1>2

LEMMA ReceivedKeptStep ==
    ASSUME HistoryInv, [Next]_vars
    PROVE  \A n \in Node : \A r \in store[n] :
             Kept(n, r) => \E x \in store'[n] : Key(x) = Key(r)
<1> SUFFICES ASSUME NEW n \in Node, NEW r \in store[n], Kept(n, r)
             PROVE  \E x \in store'[n] : Key(x) = Key(r)
  OBVIOUS
<1>1. CASE UNCHANGED store
  BY <1>1
<1>2. CASE \E m \in Node, w \in Row :
             Filed(m, w) /\ store' = [store EXCEPT ![m] = UpsertMessage(@, w)]
  <2> PICK m \in Node, w \in Row :
        Filed(m, w) /\ store' = [store EXCEPT ![m] = UpsertMessage(@, w)]
    BY <1>2
  <2>1. CASE m # n
    BY <2>1 DEF HistoryInv, TypeOK
  <2>2. CASE m = n
    <3>1. store'[n] = UpsertMessage(store[n], w)
      BY <2>2 DEF HistoryInv, TypeOK
    <3> QED
      BY <2>2, <3>1, UpsertKeeps
  <2> QED
    BY <2>1, <2>2
<1> QED
  BY <1>1, <1>2, StepKinds

\* No step makes a node forget a message of somebody else, of the hall or of
\* the room, although every insert may delete rows.
THEOREM ReceivedStaysKept == Spec => ReceivedKept
<1>1. HistoryInv /\ [Next]_vars =>
        [\A n \in Node : \A r \in store[n] :
           Kept(n, r) => \E x \in store'[n] : Key(x) = Key(r)]_vars
  BY ReceivedKeptStep
<1> QED
  BY <1>1, HistoryInvariant, PTL DEF Spec, ReceivedKept

-----------------------------------------------------------------------------
(* Refinement: the histories implement ChatHistory. *)

Published == {AsMessage(sent[k]) : k \in 1 .. Len(sent)}
KnownTo(n) == {AsMessage(r) : r \in {x \in store[n] : Kept(n, x)}}

LEMMA PublishStep ==
    ASSUME HistoryInv, HistoryInv', NEW x \in Send, sent' = Append(sent, x),
           UNCHANGED store
    PROVE  History!HistoryNext
<1>1. sent \in Seq(Send) /\ Len(sent) \in Nat
  BY DEF HistoryInv, TypeOK
<1>2. /\ Len(sent') = Len(sent) + 1 /\ sent'[Len(sent) + 1] = x
      /\ \A k \in 1 .. Len(sent) : sent'[k] = sent[k]
  BY <1>1
<1>3. Published' = Published \cup {AsMessage(x)}
  <2>1. \A k : k \in 1 .. Len(sent') <=> k \in 1 .. Len(sent) \/ k = Len(sent) + 1
    BY <1>1, <1>2
  <2> QED
    BY <1>1, <1>2, <2>1 DEF Published
<1>4. AsMessage(x).sender \in History!Audience(AsMessage(x).conv)
  <2>1. \/ x.conv = Hall
        \/ x.conv = Room /\ x.sender \in RoomMembers
        \/ \E m \in Node \ {x.sender} : x.conv = DirectConversation(x.sender, m)
    <3>1. Len(sent) + 1 \in 1 .. Len(sent')
      BY <1>1, <1>2
    <3> QED
      BY <1>2, <3>1 DEF HistoryInv, SendsAddressed
  <2>2. CASE x.conv = Hall
    BY <2>2 DEF Hall, History!Audience, Send, AsMessage
  <2>3. CASE x.conv = Room /\ x.sender \in RoomMembers
    BY <2>3 DEF Room, History!Audience, AsMessage
  <2>4. CASE \E m \in Node \ {x.sender} : x.conv = DirectConversation(x.sender, m)
    BY <2>4 DEF DirectConversation, History!Audience, AsMessage
  <2> QED
    BY <2>1, <2>2, <2>3, <2>4
<1> QED
  BY <1>3, <1>4 DEF History!HistoryNext, History!Publish, Published

LEMMA LearnStep ==
    ASSUME HistoryInv, NEW n \in Node, NEW w \in Row, Filed(n, w), UNCHANGED sent,
           store' = [store EXCEPT ![n] = UpsertMessage(@, w)]
    PROVE  History!HistoryNext \/ UNCHANGED History!historyVars
<1> DEFINE known == [m \in Node |-> KnownTo(m)]
           gain == IF Kept(n, w) THEN {AsMessage(w)} ELSE {}
<1>1. /\ store'[n] = UpsertMessage(store[n], w)
      /\ \A m \in Node \ {n} : store'[m] = store[m]
  BY DEF HistoryInv, TypeOK
<1>2. \A x, y : Key(x) = Key(y) => /\ AsMessage(x) = AsMessage(y)
                                   /\ Kept(n, x) <=> Kept(n, y)
  BY DEF Key, AsMessage, Kept
<1>3. KnownTo(n)' \subseteq KnownTo(n) \cup gain
  BY <1>1 DEF KnownTo, UpsertMessage
<1>4. KnownTo(n) \subseteq KnownTo(n)'
  <2> SUFFICES ASSUME NEW r \in store[n], Kept(n, r)
               PROVE  AsMessage(r) \in KnownTo(n)'
    BY DEF KnownTo
  <2>1. PICK x \in store'[n] : Key(x) = Key(r)
    BY <1>1, UpsertKeeps
  <2> QED
    BY <1>2, <2>1 DEF KnownTo
<1>5. gain \subseteq KnownTo(n)'
  BY <1>1 DEF KnownTo, UpsertMessage
<1>6. KnownTo(n)' = KnownTo(n) \cup gain
  BY <1>3, <1>4, <1>5
<1>7. \A m \in Node \ {n} : KnownTo(m)' = KnownTo(m)
  BY <1>1 DEF KnownTo
<1>8. Published' = Published
  BY DEF Published
<1>9. CASE Kept(n, w)
  <2>1. w.conv = Origin(w.id).conv
    <3>1. DirectConversation(n, n).type = "direct"
      BY DEF DirectConversation
    <3> QED
      BY <1>9, <3>1 DEF Filed, Kept
  <2>2. AsMessage(w) = AsMessage(sent[w.id[1]]) /\ w.id[1] \in 1 .. Len(sent)
    BY <2>1 DEF Filed, AsMessage, Origin, Known
  <2>3. AsMessage(w) \in Published
    BY <2>2 DEF Published
  <2>4. n \in History!Audience(AsMessage(w).conv)
    BY <2>1 DEF Filed, AsMessage
  <2>5. AsMessage(w).sender # n \/ AsMessage(w).conv.type # "direct"
    BY <1>9 DEF Kept, AsMessage
  <2>6. known' = [known EXCEPT ![n] = @ \cup {AsMessage(w)}]
    BY <1>6, <1>7, <1>9
  <2>7. History!Learn(n, AsMessage(w))
    BY <1>8, <2>3, <2>4, <2>5, <2>6
       DEF History!Learn, History!Remembered, Published, KnownTo
  <2> QED
    BY <2>3, <2>7 DEF History!HistoryNext, Published
<1>10. CASE ~Kept(n, w)
  <2>1. known' = known
    BY <1>6, <1>7, <1>10
  <2> QED
    BY <1>8, <2>1 DEF History!historyVars, Published, KnownTo
<1> QED
  BY <1>9, <1>10

\* ChatSync implements ChatHistory: every step publishes a message, teaches one
\* node one published message it may see, or changes no history.
THEOREM Refinement == Spec => ImplementsHistory
<1>1. Init => History!HistoryInit
  BY DEF Init, History!HistoryInit
<1>2. HistoryInv /\ HistoryInv' /\ [Next]_vars
        => [History!HistoryNext]_(History!historyVars)
  <2> SUFFICES ASSUME HistoryInv, HistoryInv', [Next]_vars
               PROVE  History!HistoryNext \/ UNCHANGED History!historyVars
    OBVIOUS
  <2>1. CASE UNCHANGED <<store, sent>>
    BY <2>1 DEF History!historyVars
  <2>2. CASE \E n \in Node, w \in Row :
               /\ Filed(n, w) /\ UNCHANGED sent
               /\ store' = [store EXCEPT ![n] = UpsertMessage(@, w)]
    BY <2>2, LearnStep
  <2>3. CASE \E x \in Send : sent' = Append(sent, x) /\ UNCHANGED store
    BY <2>3, PublishStep
  <2> QED
    BY <2>1, <2>2, <2>3, StepKinds
<1> QED
  BY <1>1, <1>2, HistoryInvariant, PTL DEF Spec, ImplementsHistory, History!HistorySpec

-----------------------------------------------------------------------------
(* Failed messages. *)

\* A row or a packet with this id exists somewhere.
SeenId(id) ==
    \/ \E m \in Node : \E x \in store[m] : x.id = id
    \/ \E p \in msgs : p.id = id

\* A send has one task; nobody has the row it will store, and nobody has its
\* packet before it counts as delivered.
TasksUnique == \A n \in Node : \A t, u \in tasks[n] : t.send = u.send => t = u
TasksUnseen ==
    \A n \in Node : \A t \in tasks[n] :
        /\ ~SeenId(<<t.send, "local">>)
        /\ ~t.delivered => ~SeenId(<<t.send, "packet">>)
FailedUnseen ==
    \A n \in Node : \A r \in store[n] :
        r.status = "failed" /\ r.id[2] = "local" => ~SeenId(<<r.id[1], "packet">>)
DeliveryInv == TasksUnique /\ TasksUnseen /\ FailedUnseen

\* Replacing a row adds the id of the new one at most.
LEMMA UpsertSeen ==
    ASSUME HistoryInv, NEW n \in Node, NEW w, msgs' \subseteq msgs,
           store' = [store EXCEPT ![n] = UpsertMessage(@, w)]
    PROVE  /\ \A id : SeenId(id)' => SeenId(id) \/ id = w.id
           /\ \A m \in Node : \A x \in store'[m] : x \in store[m] \/ x = w
<1>1. \A m \in Node : \A x \in store'[m] : x \in store[m] \/ x = w
  BY DEF HistoryInv, TypeOK, UpsertMessage
<1> QED
  BY <1>1 DEF SeenId

\* A step that starts no send, counts no delivery and stores no failed row.
LEMMA QuietStep ==
    ASSUME HistoryInv, DeliveryInv,
           \A id : SeenId(id)' => SeenId(id),
           \A m \in Node : \A x \in store'[m] :
               x.status = "failed" /\ x.id[2] = "local" => x \in store[m],
           \A m \in Node : \A u \in tasks'[m] :
               \E t \in tasks[m] : u.send = t.send /\ u.delivered = t.delivered
    PROVE  TasksUnseen' /\ FailedUnseen'
<1>1. TasksUnseen'
  <2> SUFFICES ASSUME NEW m \in Node, NEW u \in tasks'[m]
               PROVE  /\ ~SeenId(<<u.send, "local">>)'
                      /\ ~u.delivered => ~SeenId(<<u.send, "packet">>)'
    BY DEF TasksUnseen
  <2>1. PICK t \in tasks[m] : u.send = t.send /\ u.delivered = t.delivered
    OBVIOUS
  <2>2. /\ ~SeenId(<<t.send, "local">>)
        /\ ~t.delivered => ~SeenId(<<t.send, "packet">>)
    BY DEF DeliveryInv, TasksUnseen
  <2> QED
    BY <2>1, <2>2
<1>2. FailedUnseen'
  <2> SUFFICES ASSUME NEW m \in Node, NEW x \in store'[m], x.status = "failed", x.id[2] = "local"
               PROVE  ~SeenId(<<x.id[1], "packet">>)'
    BY DEF FailedUnseen
  <2>1. ~SeenId(<<x.id[1], "packet">>)
    BY DEF DeliveryInv, FailedUnseen
  <2> QED
    BY <2>1
<1> QED
  BY <1>1, <1>2

\* A send that goes on has one task still.
LEMMA ReplacedUnique ==
    ASSUME HistoryInv, TasksUnique, NEW n \in Node, NEW t \in tasks[n], NEW u,
           u.send = t.send, tasks' = [tasks EXCEPT ![n] = (@ \ {t}) \cup {u}]
    PROVE  TasksUnique'
<1>1. \A m \in Node : m # n => tasks'[m] = tasks[m]
  BY DEF HistoryInv, TypeOK
<1>2. tasks'[n] = (tasks[n] \ {t}) \cup {u}
  BY DEF HistoryInv, TypeOK
<1>3. ASSUME NEW v \in tasks'[n], NEW w \in tasks'[n], v.send = w.send PROVE v = w
  BY <1>2, <1>3 DEF TasksUnique
<1> QED
  BY <1>1, <1>3 DEF TasksUnique

\* Tasks of two nodes are of two sends.
LEMMA OtherSend ==
    ASSUME HistoryInv, TasksUnique, NEW n \in Node, NEW m \in Node,
           NEW t \in tasks[n], NEW u \in tasks[m], u # t \/ m # n
    PROVE  u.send # t.send
<1>1. /\ sent[t.send] = [sender |-> n, conv |-> t.conv, seq |-> t.seq]
      /\ sent[u.send] = [sender |-> m, conv |-> u.conv, seq |-> u.seq]
  BY DEF HistoryInv, TasksOfSends
<1>2. sent[t.send].sender = n /\ sent[u.send].sender = m
  BY <1>1
<1> QED
  BY <1>2 DEF TasksUnique

\* A new send has an id that nothing carries yet.
LEMMA BeginSendUnseen ==
    ASSUME HistoryInv, DeliveryInv, NEW n \in Node, NEW c \in Writable(n), NEW a \in Attachments,
           BeginSend(n, c, a)
    PROVE  DeliveryInv'
<1> DEFINE k == Len(sent) + 1
           task == [send |-> k, conv |-> c, seq |-> NextSenderSequence(store[n], c, n),
                    attachment |-> a, phase |-> "sequenced",
                    todo |-> {}, delivered |-> FALSE]
<1>1. /\ tasks' = [tasks EXCEPT ![n] = @ \cup {task}]
      /\ UNCHANGED <<store, msgs>>
  BY DEF BeginSend
<1>2. task.send = k
  OBVIOUS
<1> HIDE DEF task
<1>3. Len(sent) \in Nat
  BY DEF HistoryInv, TypeOK
<1>4. \A m \in Node : \A t \in tasks[m] : t.send # k
  <2> SUFFICES ASSUME NEW m \in Node, NEW t \in tasks[m] PROVE t.send # k
    OBVIOUS
  <2>1. t.send \in 1 .. Len(sent)
    BY DEF HistoryInv, TasksOfSends
  <2> QED
    BY <1>3, <2>1
<1>5. \A id : SeenId(id) => id[1] # k
  <2> SUFFICES ASSUME NEW id, SeenId(id) PROVE id[1] # k
    OBVIOUS
  <2>1. Known(id)
    BY DEF SeenId, HistoryInv, RowsFiled, PacketsAddressed
  <2> QED
    BY <1>3, <2>1 DEF Known
<1>6. \A id : SeenId(id)' <=> SeenId(id)
  BY <1>1 DEF SeenId
<1>7. \A m \in Node : \A t \in tasks'[m] : t \in tasks[m] \/ (m = n /\ t = task)
  BY <1>1 DEF HistoryInv, TypeOK
<1>8. TasksUnique'
  BY <1>2, <1>4, <1>7 DEF DeliveryInv, TasksUnique
<1>9. ~SeenId(<<k, "local">>) /\ ~SeenId(<<k, "packet">>)
  BY <1>5
<1>10. TasksUnseen'
  BY <1>2, <1>6, <1>7, <1>9 DEF DeliveryInv, TasksUnseen
<1>11. FailedUnseen'
  BY <1>1, <1>6 DEF DeliveryInv, FailedUnseen
<1> QED
  BY <1>8, <1>10, <1>11 DEF DeliveryInv

\* The packet goes out and its send counts as delivered, in one step.
LEMMA TransmitUnseen ==
    ASSUME HistoryInv, DeliveryInv, NEW n \in Node, NEW t \in tasks[n], NEW m \in Node,
           TransmitTo(n, t, m)
    PROVE  DeliveryInv'
<1> DEFINE u == [t EXCEPT !.todo = @ \ {m}, !.delivered = TRUE]
           p == [to |-> m, id |-> <<t.send, "packet">>,
                 conv |-> t.conv, sender |-> n, seq |-> t.seq]
<1>1. /\ tasks' = [tasks EXCEPT ![n] = (@ \ {t}) \cup {u}]
      /\ msgs' = msgs \cup {p} /\ store' = store
  BY DEF TransmitTo
<1>2. t \in SendTask
  BY DEF HistoryInv, TypeOK
<1>3. u.send = t.send /\ u.delivered = TRUE /\ p.id = <<t.send, "packet">>
  BY <1>2 DEF SendTask
<1> HIDE DEF u, p
<1>4. \A id : SeenId(id)' => SeenId(id) \/ id = <<t.send, "packet">>
  BY <1>1, <1>3 DEF SeenId
<1>5. TasksUnique'
  BY <1>1, <1>3, ReplacedUnique DEF DeliveryInv
<1>6. TasksUnseen'
  <2> SUFFICES ASSUME NEW j \in Node, NEW v \in tasks'[j]
               PROVE  /\ ~SeenId(<<v.send, "local">>)'
                      /\ ~v.delivered => ~SeenId(<<v.send, "packet">>)'
    BY DEF TasksUnseen
  <2>1. (v \in tasks[j] /\ (v # t \/ j # n)) \/ v = u
    BY <1>1 DEF HistoryInv, TypeOK
  <2>2. CASE v = u
    <3>1. ~SeenId(<<t.send, "local">>)
      BY DEF DeliveryInv, TasksUnseen
    <3> QED
      BY <1>3, <1>4, <2>2, <3>1
  <2>3. CASE v \in tasks[j] /\ (v # t \/ j # n)
    <3>1. v.send # t.send
      BY <2>3, OtherSend DEF DeliveryInv
    <3>2. /\ ~SeenId(<<v.send, "local">>)
          /\ ~v.delivered => ~SeenId(<<v.send, "packet">>)
      BY <2>3 DEF DeliveryInv, TasksUnseen
    <3> QED
      BY <1>4, <3>1, <3>2
  <2> QED
    BY <2>1, <2>2, <2>3
<1>7. FailedUnseen'
  <2> SUFFICES ASSUME NEW j \in Node, NEW x \in store[j], x.status = "failed", x.id[2] = "local"
               PROVE  ~SeenId(<<x.id[1], "packet">>)'
    BY <1>1 DEF FailedUnseen
  <2>1. ~SeenId(<<x.id[1], "packet">>)
    BY DEF DeliveryInv, FailedUnseen
  <2>2. x.id \in MessageId /\ x.id = <<x.id[1], "local">>
    BY DEF HistoryInv, TypeOK, Row, MessageId
  <2>3. ~SeenId(<<t.send, "local">>) /\ SeenId(x.id)
    BY DEF DeliveryInv, TasksUnseen, SeenId
  <2>4. x.id[1] # t.send
    BY <2>2, <2>3
  <2> QED
    BY <1>4, <2>1, <2>4
<1> QED
  BY <1>5, <1>6, <1>7 DEF DeliveryInv

\* The row is failed only if nobody has the packet.
LEMMA FinishUnseen ==
    ASSUME HistoryInv, DeliveryInv, NEW n \in Node, NEW t \in tasks[n], FinishSend(n, t)
    PROVE  DeliveryInv'
<1> DEFINE r == [id |-> <<t.send, IF t.attachment THEN "packet" ELSE "local">>,
                 conv |-> t.conv, sender |-> n, seq |-> t.seq,
                 direction |-> "outgoing",
                 status |-> IF t.delivered THEN "sent" ELSE "failed"]
<1>1. /\ store' = [store EXCEPT ![n] = UpsertMessage(@, r)]
      /\ tasks' = [tasks EXCEPT ![n] = @ \ {t}]
      /\ msgs' = msgs
  BY DEF FinishSend
<1>2. /\ r.id = <<t.send, "local">> \/ r.id = <<t.send, "packet">>
      /\ r.status = "failed" => ~t.delivered
  OBVIOUS
<1> HIDE DEF r
<1>3. /\ \A id : SeenId(id)' => SeenId(id) \/ id = r.id
      /\ \A m \in Node : \A x \in store'[m] : x \in store[m] \/ x = r
  BY <1>1, UpsertSeen
<1>4. \A m \in Node : \A v \in tasks'[m] : v \in tasks[m] /\ (v # t \/ m # n)
  BY <1>1 DEF HistoryInv, TypeOK
<1>5. TasksUnique'
  BY <1>4 DEF DeliveryInv, TasksUnique
<1>6. TasksUnseen'
  <2> SUFFICES ASSUME NEW j \in Node, NEW v \in tasks'[j]
               PROVE  /\ ~SeenId(<<v.send, "local">>)'
                      /\ ~v.delivered => ~SeenId(<<v.send, "packet">>)'
    BY DEF TasksUnseen
  <2>1. v.send # t.send
    BY <1>4, OtherSend DEF DeliveryInv
  <2>2. /\ ~SeenId(<<v.send, "local">>)
        /\ ~v.delivered => ~SeenId(<<v.send, "packet">>)
    BY <1>4 DEF DeliveryInv, TasksUnseen
  <2>3. <<v.send, "local">> # r.id /\ <<v.send, "packet">> # r.id
    BY <1>2, <2>1
  <2> QED
    BY <1>3, <2>2, <2>3
<1>7. FailedUnseen'
  <2> SUFFICES ASSUME NEW j \in Node, NEW x \in store'[j], x.status = "failed", x.id[2] = "local"
               PROVE  ~SeenId(<<x.id[1], "packet">>)'
    BY DEF FailedUnseen
  <2>1. CASE x = r
    <3>1. r.id = <<t.send, "local">> /\ x.id[1] = t.send /\ ~t.delivered
      BY <1>2, <2>1
    <3>2. ~SeenId(<<t.send, "packet">>)
      BY <3>1 DEF DeliveryInv, TasksUnseen
    <3>3. <<t.send, "packet">> # r.id
      BY <3>1
    <3> QED
      BY <1>3, <3>1, <3>2, <3>3
  <2>2. CASE x \in store[j]
    <3>1. ~SeenId(<<x.id[1], "packet">>)
      BY <2>2 DEF DeliveryInv, FailedUnseen
    <3>2. x.id \in MessageId /\ x.id = <<x.id[1], "local">>
      BY <2>2 DEF HistoryInv, TypeOK, Row, MessageId
    <3>3. ~SeenId(<<t.send, "local">>) /\ SeenId(x.id)
      BY <2>2 DEF DeliveryInv, TasksUnseen, SeenId
    <3>4. x.id[1] # t.send
      BY <3>2, <3>3
    <3>5. <<x.id[1], "packet">> # r.id
      BY <1>2, <3>4
    <3> QED
      BY <1>3, <3>1, <3>5
  <2> QED
    BY <1>3, <2>1, <2>2
<1> QED
  BY <1>5, <1>6, <1>7 DEF DeliveryInv

\* Every step keeps what was seen of sends under way.
LEMMA DeliveryStep ==
    ASSUME HistoryInv, DeliveryInv, [Next]_vars
    PROVE  DeliveryInv'
<1>1. CASE UNCHANGED vars
  BY <1>1 DEF vars, DeliveryInv, TasksUnique, TasksUnseen, FailedUnseen, SeenId
<1>2. ASSUME NEW n \in Node, Connect(n) \/ Disconnect(n) \/ RefreshPeers(n) \/ Exit(n)
      PROVE  DeliveryInv'
  <2>1. /\ store' = store /\ msgs' \subseteq msgs
        /\ \A m \in Node : tasks'[m] \subseteq tasks[m]
    BY <1>2 DEF Connect, Disconnect, RefreshPeers, Exit, HistoryInv, TypeOK
  <2>2. \A id : SeenId(id)' => SeenId(id)
    BY <2>1 DEF SeenId
  <2>3. TasksUnique'
    BY <2>1 DEF DeliveryInv, TasksUnique
  <2>4. TasksUnseen' /\ FailedUnseen'
    BY <2>1, <2>2, QuietStep
  <2> QED
    BY <2>3, <2>4 DEF DeliveryInv
<1>3. ASSUME NEW n \in Node, NEW t \in tasks[n],
             StartTransmission(n, t) \/ \E m \in Node : FailTo(n, t, m)
      PROVE  DeliveryInv'
  <2>0. t \in SendTask
    BY DEF HistoryInv, TypeOK
  <2>1. PICK u : /\ u.send = t.send /\ u.delivered = t.delivered
                 /\ tasks' = [tasks EXCEPT ![n] = (@ \ {t}) \cup {u}]
                 /\ store' = store /\ msgs' = msgs
    <3>1. CASE StartTransmission(n, t)
      <4> DEFINE u == [t EXCEPT !.phase = "sending", !.todo = ResolveRecipients(n, t.conv)]
      <4>1. u.send = t.send /\ u.delivered = t.delivered
        BY <2>0 DEF SendTask
      <4>2. /\ tasks' = [tasks EXCEPT ![n] = (@ \ {t}) \cup {u}]
            /\ store' = store /\ msgs' = msgs
        BY <3>1 DEF StartTransmission
      <4> HIDE DEF u
      <4> QED
        BY <4>1, <4>2
    <3>2. ASSUME NEW m \in Node, FailTo(n, t, m)
          PROVE  \E u : /\ u.send = t.send /\ u.delivered = t.delivered
                        /\ tasks' = [tasks EXCEPT ![n] = (@ \ {t}) \cup {u}]
                        /\ store' = store /\ msgs' = msgs
      <4> DEFINE u == [t EXCEPT !.todo = @ \ {m}]
      <4>1. u.send = t.send /\ u.delivered = t.delivered
        BY <2>0 DEF SendTask
      <4>2. /\ tasks' = [tasks EXCEPT ![n] = (@ \ {t}) \cup {u}]
            /\ store' = store /\ msgs' = msgs
        BY <3>2 DEF FailTo
      <4> HIDE DEF u
      <4> QED
        BY <4>1, <4>2
    <3> QED
      BY <1>3, <3>1, <3>2
  <2>2. \A id : SeenId(id)' => SeenId(id)
    BY <2>1 DEF SeenId
  <2>3. TasksUnique'
    BY <2>1, ReplacedUnique DEF DeliveryInv
  <2>4. \A m \in Node : \A v \in tasks'[m] :
            \E w \in tasks[m] : v.send = w.send /\ v.delivered = w.delivered
    BY <2>1 DEF HistoryInv, TypeOK
  <2>5. TasksUnseen' /\ FailedUnseen'
    BY <2>1, <2>2, <2>4, QuietStep
  <2> QED
    BY <2>3, <2>5 DEF DeliveryInv
<1>4. ASSUME NEW n \in Node, NEW p \in msgs, ReceiveMessage(n, p)
      PROVE  DeliveryInv'
  <2> DEFINE w == IncomingRow(n, p)
  <2>1. /\ tasks' = tasks /\ msgs' \subseteq msgs
        /\ store' = store \/ store' = [store EXCEPT ![n] = UpsertMessage(@, w)]
    BY <1>4 DEF ReceiveMessage, IncomingRow
  <2>2. w.id = p.id /\ w.status = "sent" /\ SeenId(p.id)
    BY DEF IncomingRow, SeenId
  <2> HIDE DEF w
  <2>3. /\ \A id : SeenId(id)' => SeenId(id)
        /\ \A m \in Node : \A x \in store'[m] : x \in store[m] \/ x = w
    <3>1. CASE store' = store
      BY <2>1, <3>1 DEF SeenId
    <3>2. CASE store' = [store EXCEPT ![n] = UpsertMessage(@, w)]
      BY <2>1, <2>2, <3>2, UpsertSeen
    <3> QED
      BY <2>1, <3>1, <3>2
  <2>4. TasksUnique'
    BY <2>1 DEF DeliveryInv, TasksUnique
  <2>5. TasksUnseen' /\ FailedUnseen'
    BY <2>1, <2>2, <2>3, QuietStep
  <2> QED
    BY <2>4, <2>5 DEF DeliveryInv
<1>5. ASSUME NEW n \in Node, NEW m \in Node, NEW ok \in SUBSET BOOLEAN, SyncWithPeer(n, m, ok)
      PROVE  DeliveryInv'
  <2>1. UNCHANGED <<store, tasks, msgs>>
    BY <1>5 DEF SyncWithPeer
  <2> QED
    BY <2>1 DEF DeliveryInv, TasksUnique, TasksUnseen, FailedUnseen, SeenId
<1>6. ASSUME NEW n \in Node, NEW q \in reqs, NEW ok \in SUBSET store[n], HandleSyncRequest(n, q, ok)
      PROVE  DeliveryInv'
  <2>1. /\ \A p \in msgs' : p \in msgs \/ \E r \in ok : p = PacketFor(q.from, r)
        /\ UNCHANGED <<store, tasks>>
    BY <1>6 DEF HandleSyncRequest
  <2>2. \A p \in msgs' : p \in msgs \/ \E r \in store[n] : p.id = r.id
    BY <2>1 DEF PacketFor
  <2>3. \A id : SeenId(id)' => SeenId(id)
    BY <2>1, <2>2 DEF SeenId
  <2>4. TasksUnique'
    BY <2>1 DEF DeliveryInv, TasksUnique
  <2>5. TasksUnseen' /\ FailedUnseen'
    BY <2>1, <2>3, QuietStep
  <2> QED
    BY <2>4, <2>5 DEF DeliveryInv
<1> QED
  BY <1>1, <1>2, <1>3, <1>4, <1>5, <1>6, BeginSendUnseen, TransmitUnseen, FinishUnseen
     DEF Next, SendStep

\* A text message shown as failed reached nobody, whatever fails, exits and is
\* synchronised: nobody has its packet before its send counts as delivered.
THEOREM FailedReachedNobody == Spec => []FailedNeverDelivered
<1>1. Init => DeliveryInv
  BY DEF Init, DeliveryInv, TasksUnique, TasksUnseen, FailedUnseen
<1>2. HistoryInv /\ DeliveryInv /\ [Next]_vars => DeliveryInv'
  BY DeliveryStep
<1>3. DeliveryInv => FailedNeverDelivered
  BY DEF DeliveryInv, FailedUnseen, FailedNeverDelivered, SeenId
<1> QED
  BY <1>1, <1>2, <1>3, HistoryInvariant, PTL DEF Spec

-----------------------------------------------------------------------------
(* Numbers in the hall. *)

\* What a user wrote in the hall is being sent or is in the own history under
\* its number, so that no number is used twice.
TasksFinite == \A n \in Node : IsFiniteSet(tasks[n])
HallSendsHeld ==
    \A k \in 1 .. Len(sent) : sent[k].conv = Hall =>
        \/ \E t \in tasks[sent[k].sender] : t.send = k
        \/ \E x \in store[sent[k].sender] : Key(x) = Key(sent[k])
HallSendsDistinct ==
    \A j, k \in 1 .. Len(sent) :
        sent[j].conv = Hall /\ Key(sent[j]) = Key(sent[k]) => j = k
NumberInv == TasksFinite /\ HallSendsHeld /\ HallSendsDistinct

\* The next sequence number is larger than every one in use.
LEMMA NextSequenceNew ==
    ASSUME HistoryInv, NEW n \in Node, NEW c, NEW x \in store[n], x.conv = c, x.sender = n
    PROVE  x.seq < NextSenderSequence(store[n], c, n)
<1> DEFINE seqs == {r.seq : r \in {y \in store[n] : y.conv = c /\ y.sender = n}}
<1>1. Len(sent) \in Nat /\ x.seq \in seqs
  BY DEF HistoryInv, TypeOK
<1>2. \A j \in seqs : j \in Nat /\ j <= Len(sent)
  <2> SUFFICES ASSUME NEW r \in store[n]
               PROVE  r.seq \in Nat /\ r.seq <= Len(sent)
    OBVIOUS
  <2>1. r \in Row
    BY DEF HistoryInv, TypeOK
  <2>2. r.id[1] \in 1 .. Len(sent) /\ sent[r.id[1]].seq = r.seq
    BY DEF HistoryInv, RowsFiled, Known, Origin
  <2>3. sent[r.id[1]].seq <= r.id[1]
    BY <2>2 DEF HistoryInv, SendsAddressed
  <2>4. r.seq \in Nat
    BY <2>1 DEF Row
  <2> QED
    BY <1>1, <2>2, <2>3, <2>4
<1>3. NextSenderSequence(store[n], c, n) = 1 + (CHOOSE k \in seqs : \A j \in seqs : j <= k)
  BY <1>1 DEF NextSenderSequence
<1> HIDE DEF seqs
<1>4. \E k \in seqs : \A j \in seqs : j <= k
  BY <1>1, <1>2, MaxExists
<1>5. PICK k \in seqs : k = (CHOOSE i \in seqs : \A j \in seqs : j <= i) /\ \A j \in seqs : j <= k
  BY <1>4
<1> QED
  BY <1>1, <1>2, <1>3, <1>5

\* A send of the hall stays held while the store only keeps and the task stays.
LEMMA HeldStays ==
    ASSUME HistoryInv, HallSendsHeld, HallSendsDistinct, [Next]_vars, UNCHANGED sent,
           \A n \in Node : \A t \in tasks[n] :
               \/ \E u \in tasks'[n] : u.send = t.send
               \/ \E x \in store'[n] : Key(x) = <<t.conv, n, t.seq>>
    PROVE  HallSendsHeld' /\ HallSendsDistinct'
<1>1. HallSendsDistinct'
  BY DEF HallSendsDistinct
<1>2. ASSUME NEW k \in 1 .. Len(sent), sent[k].conv = Hall
      PROVE  \/ \E t \in tasks'[sent[k].sender] : t.send = k
             \/ \E x \in store'[sent[k].sender] : Key(x) = Key(sent[k])
  <2>0. sent[k] \in Send
    BY DEF HistoryInv, TypeOK
  <2>1. sent[k].sender \in Node
    BY <2>0 DEF Send
  <2>2. PICK n \in Node : n = sent[k].sender
    BY <2>1
  <2>3. CASE \E t \in tasks[n] : t.send = k
    <3>1. PICK t \in tasks[n] : t.send = k
      BY <2>3
    <3>2. sent[k] = [sender |-> n, conv |-> t.conv, seq |-> t.seq]
      BY <3>1 DEF HistoryInv, TasksOfSends
    <3>3. Key(sent[k]) = <<t.conv, n, t.seq>>
      BY <3>2 DEF Key
    <3> QED
      BY <2>2, <3>1, <3>3
  <2>4. CASE \E x \in store[n] : Key(x) = Key(sent[k])
    <3>1. PICK x \in store[n] : Key(x) = Key(sent[k])
      BY <2>4
    <3>2. Kept(n, x)
      BY <1>2, <3>1 DEF Kept, Key, Hall
    <3>3. \E y \in store'[n] : Key(y) = Key(x)
      BY <3>2, ReceivedKeptStep
    <3> QED
      BY <2>2, <3>1, <3>3
  <2> QED
    BY <1>2, <2>2, <2>3, <2>4 DEF HallSendsHeld
<1> QED
  BY <1>1, <1>2 DEF HallSendsHeld

\* A user who waits for each send to end writes under a number that no earlier
\* message of the hall has.
LEMMA BeginSendNumber ==
    ASSUME HistoryInv, NumberInv, MaxInflight = 1,
           NEW n \in Node, NEW c \in Writable(n), NEW a \in Attachments, BeginSend(n, c, a)
    PROVE  NumberInv'
<1> DEFINE seq == NextSenderSequence(store[n], c, n)
           s == [sender |-> n, conv |-> c, seq |-> seq]
           task == [send |-> Len(sent) + 1, conv |-> c, seq |-> seq,
                    attachment |-> a, phase |-> "sequenced",
                    todo |-> {}, delivered |-> FALSE]
<1>0. tasks[n] = {}
  <2>1. Cardinality(tasks[n]) < 1 /\ IsFiniteSet(tasks[n])
    BY DEF BeginSend, NumberInv, TasksFinite
  <2>2. Cardinality(tasks[n]) = 0
    BY <2>1, FS_CardinalityType
  <2> QED
    BY <2>1, <2>2, FS_EmptySet
<1>1. /\ sent' = Append(sent, s) /\ UNCHANGED store
      /\ tasks' = [tasks EXCEPT ![n] = @ \cup {task}]
  BY DEF BeginSend
<1>2. seq \in Nat /\ \A x \in store[n] : x.conv = c /\ x.sender = n => x.seq < seq
  BY NextSequenceBound, NextSequenceNew
<1>3. task.send = Len(sent) + 1
  OBVIOUS
<1> HIDE DEF task, seq
<1>4. s \in Send
  BY <1>2 DEF Send, Writable, Hall, Room, DirectConversation, Conversation
<1>5. s.sender = n /\ s.conv = c /\ s.seq = seq
  OBVIOUS
<1> HIDE DEF s
<1>6. sent \in Seq(Send) /\ Len(sent) \in Nat
  BY DEF HistoryInv, TypeOK
<1>7. /\ Len(sent') = Len(sent) + 1 /\ sent'[Len(sent) + 1] = s
      /\ \A k \in 1 .. Len(sent) : sent'[k] = sent[k]
  BY <1>1, <1>4, <1>6
<1>8. /\ tasks'[n] = {task}
      /\ \A m \in Node : m # n => tasks'[m] = tasks[m]
  BY <1>0, <1>1 DEF HistoryInv, TypeOK
<1>9. TasksFinite'
  <2>1. IsFiniteSet({task})
    BY FS_EmptySet, FS_AddElement
  <2> QED
    BY <1>8, <2>1 DEF NumberInv, TasksFinite
<1>10. ASSUME NEW k \in 1 .. Len(sent) PROVE sent[k].sender \in Node
  <2>1. sent[k] \in Send
    BY <1>6
  <2> QED
    BY <2>1 DEF Send
<1>11. HallSendsHeld'
  <2> SUFFICES ASSUME NEW k \in 1 .. Len(sent'), sent'[k].conv = Hall
               PROVE  \/ \E t \in tasks'[sent'[k].sender] : t.send = k
                      \/ \E x \in store'[sent'[k].sender] : Key(x) = Key(sent'[k])
    BY DEF HallSendsHeld
  <2>1. CASE k = Len(sent) + 1
    BY <1>3, <1>5, <1>7, <1>8, <2>1
  <2>2. CASE k \in 1 .. Len(sent)
    <3>1. sent'[k] = sent[k] /\ sent[k].sender \in Node
      BY <1>7, <1>10, <2>2
    <3>2. \/ \E t \in tasks[sent[k].sender] : t.send = k
          \/ \E x \in store[sent[k].sender] : Key(x) = Key(sent[k])
      BY <2>2, <3>1 DEF NumberInv, HallSendsHeld
    <3>3. CASE \E x \in store[sent[k].sender] : Key(x) = Key(sent[k])
      BY <1>1, <3>1, <3>3
    <3>4. CASE \E t \in tasks[sent[k].sender] : t.send = k
      <4>1. sent[k].sender # n
        BY <1>0, <3>4
      <4> QED
        BY <1>8, <3>1, <3>4, <4>1
    <3> QED
      BY <3>2, <3>3, <3>4
  <2> QED
    BY <1>6, <1>7, <2>1, <2>2
<1>12. ASSUME NEW k \in 1 .. Len(sent), sent[k].conv = Hall PROVE Key(sent[k]) # Key(s)
  <2> SUFFICES ASSUME Key(sent[k]) = Key(s) PROVE FALSE
    OBVIOUS
  <2>1. sent[k].sender = n /\ sent[k].conv = c /\ sent[k].seq = seq
    BY <1>5 DEF Key
  <2>2. PICK x \in store[n] : Key(x) = Key(sent[k])
    BY <1>0, <1>12, <2>1 DEF NumberInv, HallSendsHeld
  <2>3. x.sender = n /\ x.conv = c /\ x.seq = seq
    BY <2>1, <2>2 DEF Key
  <2> QED
    BY <1>2, <2>3
<1>13. HallSendsDistinct'
  <2> SUFFICES ASSUME NEW j \in 1 .. Len(sent'), NEW k \in 1 .. Len(sent'),
                      sent'[j].conv = Hall, Key(sent'[j]) = Key(sent'[k])
               PROVE  j = k
    BY DEF HallSendsDistinct
  <2>1. sent'[k].conv = Hall
    BY DEF Key
  <2>2. CASE j \in 1 .. Len(sent) /\ k \in 1 .. Len(sent)
    BY <1>7, <2>2 DEF NumberInv, HallSendsDistinct
  <2>3. CASE j = Len(sent) + 1 /\ k \in 1 .. Len(sent)
    BY <1>7, <1>12, <2>1, <2>3
  <2>4. CASE k = Len(sent) + 1 /\ j \in 1 .. Len(sent)
    BY <1>7, <1>12, <2>4
  <2> QED
    BY <1>6, <1>7, <2>2, <2>3, <2>4
<1> QED
  BY <1>9, <1>11, <1>13 DEF NumberInv

\* Every step keeps the numbers of the hall apart.
LEMMA NumberStep ==
    ASSUME HistoryInv, NumberInv, MaxInflight = 1, MaxExits = 0, [Next]_vars
    PROVE  NumberInv'
<1>0. tasks \in [Node -> SUBSET SendTask] /\ faults.exit \in Nat
  BY DEF HistoryInv, TypeOK
<1>1. CASE UNCHANGED <<store, tasks, sent>>
  BY <1>1 DEF NumberInv, TasksFinite, HallSendsHeld, HallSendsDistinct
<1>2. ASSUME NEW n \in Node, Exit(n) PROVE FALSE
  BY <1>0, <1>2 DEF Exit
<1>3. ASSUME NEW n \in Node, NEW t \in tasks[n], NEW u, u.send = t.send, UNCHANGED <<store, sent>>,
             tasks' = [tasks EXCEPT ![n] = (@ \ {t}) \cup {u}]
      PROVE  NumberInv'
  <2>1. /\ tasks'[n] = (tasks[n] \ {t}) \cup {u}
        /\ \A m \in Node : m # n => tasks'[m] = tasks[m]
    BY <1>0, <1>3
  <2>2. TasksFinite'
    <3>1. IsFiniteSet((tasks[n] \ {t}) \cup {u})
      BY FS_RemoveElement, FS_AddElement DEF NumberInv, TasksFinite
    <3> QED
      BY <2>1, <3>1 DEF NumberInv, TasksFinite
  <2>3. \A m \in Node : \A v \in tasks[m] : \E w \in tasks'[m] : w.send = v.send
    BY <1>3, <2>1
  <2> QED
    BY <1>3, <2>2, <2>3, HeldStays DEF NumberInv
<1>4. ASSUME NEW n \in Node, NEW t \in tasks[n],
             StartTransmission(n, t) \/ \E m \in Node : TransmitTo(n, t, m) \/ FailTo(n, t, m)
      PROVE  NumberInv'
  <2>0. t \in SendTask
    BY <1>0
  <2>1. CASE StartTransmission(n, t)
    <3>1. [t EXCEPT !.phase = "sending", !.todo = ResolveRecipients(n, t.conv)].send = t.send
      BY <2>0 DEF SendTask
    <3> QED
      BY <1>3, <2>1, <3>1 DEF StartTransmission
  <2>2. ASSUME NEW m \in Node, TransmitTo(n, t, m) PROVE NumberInv'
    <3>1. [t EXCEPT !.todo = @ \ {m}, !.delivered = TRUE].send = t.send
      BY <2>0 DEF SendTask
    <3> QED
      BY <1>3, <2>2, <3>1 DEF TransmitTo
  <2>3. ASSUME NEW m \in Node, FailTo(n, t, m) PROVE NumberInv'
    <3>1. [t EXCEPT !.todo = @ \ {m}].send = t.send
      BY <2>0 DEF SendTask
    <3> QED
      BY <1>3, <2>3, <3>1 DEF FailTo
  <2> QED
    BY <1>4, <2>1, <2>2, <2>3
<1>5. ASSUME NEW n \in Node, NEW t \in tasks[n], FinishSend(n, t) PROVE NumberInv'
  <2> DEFINE r == [id |-> <<t.send, IF t.attachment THEN "packet" ELSE "local">>,
                   conv |-> t.conv, sender |-> n, seq |-> t.seq,
                   direction |-> "outgoing",
                   status |-> IF t.delivered THEN "sent" ELSE "failed"]
  <2>1. /\ store' = [store EXCEPT ![n] = UpsertMessage(@, r)]
        /\ tasks' = [tasks EXCEPT ![n] = @ \ {t}] /\ sent' = sent
    BY <1>5 DEF FinishSend
  <2>2. Key(r) = <<t.conv, n, t.seq>>
    BY DEF Key
  <2> HIDE DEF r
  <2>3. r \in store'[n]
    BY <2>1 DEF HistoryInv, TypeOK, UpsertMessage
  <2>4. tasks'[n] = tasks[n] \ {t} /\ \A m \in Node : m # n => tasks'[m] = tasks[m]
    BY <1>0, <2>1
  <2>5. TasksFinite'
    <3>1. IsFiniteSet(tasks[n] \ {t})
      BY FS_RemoveElement DEF NumberInv, TasksFinite
    <3> QED
      BY <2>4, <3>1 DEF NumberInv, TasksFinite
  <2>6. \A m \in Node : \A v \in tasks[m] :
               \/ \E u \in tasks'[m] : u.send = v.send
               \/ \E x \in store'[m] : Key(x) = <<v.conv, m, v.seq>>
    BY <2>2, <2>3, <2>4
  <2> QED
    BY <2>1, <2>5, <2>6, HeldStays DEF NumberInv
<1>6. ASSUME NEW n \in Node, NEW p \in msgs, ReceiveMessage(n, p) PROVE NumberInv'
  <2>1. tasks' = tasks /\ sent' = sent
    BY <1>6 DEF ReceiveMessage
  <2>2. TasksFinite'
    BY <2>1 DEF NumberInv, TasksFinite
  <2>3. \A m \in Node : \A v \in tasks[m] : \E w \in tasks'[m] : w.send = v.send
    BY <2>1
  <2> QED
    BY <2>1, <2>2, <2>3, HeldStays DEF NumberInv
<1>7. ASSUME NEW n \in Node,
             \/ Connect(n) \/ Disconnect(n) \/ RefreshPeers(n)
             \/ \E m \in Node, ok \in SUBSET BOOLEAN : SyncWithPeer(n, m, ok)
             \/ \E q \in reqs, ok \in SUBSET store[n] : HandleSyncRequest(n, q, ok)
      PROVE  UNCHANGED <<store, tasks, sent>>
  BY <1>7 DEF Connect, Disconnect, RefreshPeers, SyncWithPeer, HandleSyncRequest
<1>8. CASE UNCHANGED vars
  BY <1>1, <1>8 DEF vars
<1> QED
  BY <1>1, <1>2, <1>4, <1>5, <1>6, <1>7, <1>8, BeginSendNumber DEF Next, SendStep

\* A row of the hall names the send that has its number.
LEMMA NumberAgreement ==
    ASSUME HistoryInv, NumberInv
    PROVE  HallAgreement
<1> SUFFICES ASSUME NEW m \in Node, NEW n \in Node, NEW x \in store[m], NEW y \in store[n],
                    x.conv = Hall, Key(x) = Key(y)
             PROVE  x.id[1] = y.id[1]
  BY DEF HallAgreement
<1>1. y.conv = Hall /\ x.sender = y.sender /\ x.seq = y.seq
  BY DEF Key
<1>2. \A i : DirectConversation(i, i) # Hall
  BY DEF DirectConversation, Hall
<1>3. /\ x.id[1] \in 1 .. Len(sent) /\ sent[x.id[1]].conv = Hall
      /\ sent[x.id[1]].sender = x.sender /\ sent[x.id[1]].seq = x.seq
  BY <1>2 DEF HistoryInv, RowsFiled, Known, Origin
<1>4. /\ y.id[1] \in 1 .. Len(sent) /\ sent[y.id[1]].conv = Hall
      /\ sent[y.id[1]].sender = y.sender /\ sent[y.id[1]].seq = y.seq
  BY <1>1, <1>2 DEF HistoryInv, RowsFiled, Known, Origin
<1>5. Key(sent[x.id[1]]) = Key(sent[y.id[1]])
  BY <1>1, <1>3, <1>4 DEF Key
<1> QED
  BY <1>3, <1>4, <1>5 DEF NumberInv, HallSendsDistinct

\* One number of one sender names one hall message everywhere, when each user
\* waits for a send to end and no process exits in the middle of one, whatever
\* connections fail and whatever is synchronised.
THEOREM HallNumbersAgree ==
    ASSUME MaxInflight = 1, MaxExits = 0
    PROVE  Spec => []HallAgreement
<1>1. Init => NumberInv
  <2> SUFFICES ASSUME Init PROVE NumberInv
    OBVIOUS
  <2>1. TasksFinite
    BY FS_EmptySet DEF Init, TasksFinite
  <2>2. Len(sent) = 0
    BY DEF Init
  <2> QED
    BY <2>1, <2>2 DEF NumberInv, HallSendsHeld, HallSendsDistinct
<1>2. HistoryInv /\ NumberInv /\ [Next]_vars => NumberInv'
  BY NumberStep
<1>3. HistoryInv /\ NumberInv => HallAgreement
  BY NumberAgreement
<1> QED
  BY <1>1, <1>2, <1>3, HistoryInvariant, PTL DEF Spec
=============================================================================
