------------------------------ MODULE ChatSync ------------------------------
(***************************************************************************)
(* The message history of lib/chat: what sendText / sendAttachment write   *)
(* and transmit, what _handleIncomingMessage stores, and how sync requests *)
(* refill the history of a peer.  Every node runs one ChatManager over one *)
(* SQLite database; the nodes of one hall talk over TCP, one connection    *)
(* per packet, so packets of one sender may overtake each other.           *)
(*                                                                         *)
(* A conversation id is a record.  'dm:<hall>:<ip0>|<ip1>' sorts the two   *)
(* addresses, so a set of addresses stands for it; the self conversation   *)
(* 'dm:<hall>:<a>|<a>' is the singleton.  One hall and one room are        *)
(* modelled; RoomMembers have joined the room.                             *)
(*                                                                         *)
(* A message id is <<k, part>>: the k-th send of the run created it, and   *)
(* part tells the uuid of the transmitted packet from the second uuid that *)
(* sendText draws for the row it stores locally.                           *)
(*                                                                         *)
(* Every outgoing packet is also sent once per legacy hall id ("alias").   *)
(* The receiver canonicalises a message packet to the same row whichever   *)
(* alias it carries, so the copies of a message are one packet that may be *)
(* received several times.  A sync request is different: the responder     *)
(* looks its own canonical conversation ids up in a summary that is keyed  *)
(* by alias ids and finds nothing.                                         *)
(***************************************************************************)
EXTENDS Naturals, Sequences, FiniteSets

CONSTANTS
    Node,           \* virtual IP addresses of the members of the hall
    RoomMembers,    \* the nodes that have joined the room
    Kinds,          \* the conversation types users write in
    Writers,        \* the nodes whose user writes messages
    Syncers,        \* the nodes that ask their peers for missing messages
    Attachments,    \* FALSE: sendText is called, TRUE: sendAttachment
    MaxSends,       \* bound: sendText / sendAttachment calls
    MaxInflight,    \* bound: sends of one node that overlap; 1 is a user who
                    \* waits for each send to end
    MaxNet,         \* bound: message packets on their way at one moment
    MaxFails,       \* bound: connections that fail although the target is up
    MaxDowns,       \* bound: VNT disconnects
    MaxExits        \* bound: process exits

ASSUME NodeAssumption ==
    /\ RoomMembers \subseteq Node /\ Writers \subseteq Node /\ Syncers \subseteq Node
ASSUME BoundAssumption ==
    /\ MaxSends \in Nat /\ MaxInflight \in Nat /\ MaxNet \in Nat
    /\ MaxFails \in Nat /\ MaxDowns \in Nat /\ MaxExits \in Nat
ASSUME KindsAssumption ==
    Kinds \subseteq {"hall", "direct", "room"} /\ Attachments \subseteq BOOLEAN

VARIABLES
    up,         \* up[n]: _localNodes of n holds the hall
    peers,      \* peers[n]: addresses in _onlinePeers of n
    store,      \* store[n]: the messages table of n
    tasks,      \* tasks[n]: sends of n that are between two awaits
    msgs,       \* message packets accepted by a socket and not yet handled
    reqs,       \* sync requests accepted by a socket and not yet handled
    sent,       \* history: what each send was called with
    faults      \* how much of each fault bound is used

vars == <<up, peers, store, tasks, msgs, reqs, sent, faults>>

-----------------------------------------------------------------------------
(* Conversations, rows and packets. *)

Hall == [type |-> "hall", ips |-> {}]
Room == [type |-> "room", ips |-> {}]
DirectConversation(a, b) == [type |-> "direct", ips |-> {a, b}]

Conversation == [type : {"hall", "direct", "room"}, ips : SUBSET Node]
MessageId == Nat \X {"packet", "local"}

Row == [id : MessageId, conv : Conversation, sender : Node, seq : Nat,
        direction : {"incoming", "outgoing"}, status : {"sent", "failed"}]
Packet == [to : Node, id : MessageId, conv : Conversation,
           sender : Node, seq : Nat]
SyncRequest == [to : Node, from : Node, alias : BOOLEAN,
                summary : SUBSET [conv : Conversation, sender : Node, seq : Nat]]
SendTask == [send : Nat, conv : Conversation, seq : Nat, attachment : BOOLEAN,
             phase : {"sequenced", "sending"}, todo : SUBSET Node,
             delivered : BOOLEAN]
Send == [sender : Node, conv : Conversation, seq : Nat]

\* The UNIQUE(conversation_id, sender_virtual_ip, sender_seq) key of a row.
Key(r) == <<r.conv, r.sender, r.seq>>

\* Mutant: the unique key forgets the sequence number.
BugUpsertMessage(rows, r) ==
    {x \in rows : x.id # r.id /\ (x.conv # r.conv \/ x.sender # r.sender)} \cup {r}

\* INSERT with ConflictAlgorithm.replace: every row that has the same primary
\* key or the same unique key is deleted first.
UpsertMessage(rows, r) ==
    {x \in rows : x.id # r.id /\ Key(x) # Key(r)} \cup {r}

\* The conversations an address takes part in: the user can write in the hall,
\* in the room once joined, and in a private chat with every other node.
Writable(n) ==
    {c \in {Hall} \cup {DirectConversation(n, m) : m \in Node \ {n}}
             \cup (IF n \in RoomMembers THEN {Room} ELSE {}) : c.type \in Kinds}

\* Mutant: the largest number in use is handed out again.
BugNextSenderSequence(rows, c, s) ==
    LET seqs == {1} \cup {r.seq : r \in {x \in rows : x.conv = c /\ x.sender = s}}
    IN  CHOOSE k \in seqs : \A j \in seqs : j <= k

\* MAX(sender_seq) + 1 of one sender in one conversation (1 when there is none).
NextSenderSequence(rows, c, s) ==
    LET seqs == {r.seq : r \in {x \in rows : x.conv = c /\ x.sender = s}}
    IN  IF seqs = {} THEN 1
        ELSE 1 + (CHOOSE k \in seqs : \A j \in seqs : j <= k)

\* The rows of the conversations in cs; the summary lists, per conversation
\* and sender, the largest sequence number.
SummaryOf(rows, cs) ==
    {[conv |-> r.conv, sender |-> r.sender, seq |-> r.seq] :
        r \in {x \in rows : x.conv \in cs /\
                 \A y \in rows : y.conv = x.conv /\ y.sender = x.sender
                                   => y.seq <= x.seq}}

\* loadMissingMessages: rows newer than what the summary says of their sender.
MissingMessages(rows, cs, summary) ==
    {r \in rows : r.conv \in cs /\
        \A e \in summary : e.conv = r.conv /\ e.sender = r.sender => r.seq > e.seq}

\* Mutant: a private chat is sent to everybody online.
BugResolveRecipients(n, c) ==
    IF c.type = "room" THEN peers[n] \cap RoomMembers ELSE peers[n]

\* The recipients of a conversation among the peers a node sees online.
ResolveRecipients(n, c) ==
    CASE c.type = "hall"   -> peers[n]
      [] c.type = "direct" -> peers[n] \cap (c.ips \ {n})
      [] c.type = "room"   -> peers[n] \cap RoomMembers

\* _canonicalizeIncomingMessage: the conversation a packet is filed under by
\* its receiver n.  A private message goes to the pair (receiver, sender).
CanonicalConversation(n, p) ==
    IF p.conv.type = "direct" THEN DirectConversation(n, p.sender) ELSE p.conv

PacketFor(target, r) ==
    [to |-> target, id |-> r.id, conv |-> r.conv, sender |-> r.sender, seq |-> r.seq]

JoinedRooms(n) == IF n \in RoomMembers THEN {Room} ELSE {}

-----------------------------------------------------------------------------
TypeOK ==
    /\ up \in [Node -> BOOLEAN]
    /\ peers \in [Node -> SUBSET Node]
    /\ store \in [Node -> SUBSET Row]
    /\ tasks \in [Node -> SUBSET SendTask]
    /\ msgs \subseteq Packet
    /\ reqs \subseteq SyncRequest
    /\ sent \in Seq(Send)
    /\ faults \in [fail : Nat, down : Nat, exit : Nat]

Init ==
    /\ up = [n \in Node |-> TRUE]
    /\ peers = [n \in Node |-> Node \ {n}]
    /\ store = [n \in Node |-> {}]
    /\ tasks = [n \in Node |-> {}]
    /\ msgs = {} /\ reqs = {}
    /\ sent = <<>>
    /\ faults = [fail |-> 0, down |-> 0, exit |-> 0]

-----------------------------------------------------------------------------
(* Connectivity: the VNT connection of a node comes and goes; refresh() turns *)
(* it into _localNodes, _basePeers and _onlinePeers.                          *)

Connect(n) ==
    /\ ~up[n]
    /\ up' = [up EXCEPT ![n] = TRUE]
    /\ peers' = [peers EXCEPT ![n] = {m \in Node \ {n} : up[m]}]
    /\ UNCHANGED <<store, tasks, msgs, reqs, sent, faults>>

\* refresh() without a live connection: no local node, no peers.  Sends that
\* are already under way keep the local node they looked up.
Disconnect(n) ==
    /\ up[n] /\ faults.down < MaxDowns
    /\ up' = [up EXCEPT ![n] = FALSE]
    /\ peers' = [peers EXCEPT ![n] = {}]
    /\ faults' = [faults EXCEPT !.down = @ + 1]
    /\ UNCHANGED <<store, tasks, msgs, reqs, sent>>

\* The three-second refresh timer re-reads the peers VNT reports as online.
RefreshPeers(n) ==
    /\ up[n]
    /\ peers' = [peers EXCEPT ![n] = {m \in Node \ {n} : up[m]}]
    /\ UNCHANGED <<up, store, tasks, msgs, reqs, sent, faults>>

\* The process ends between two awaits: the sends under way and the packets
\* its sockets hold are gone, the database stays.
Exit(n) ==
    /\ faults.exit < MaxExits
    /\ up' = [up EXCEPT ![n] = FALSE]
    /\ peers' = [peers EXCEPT ![n] = {}]
    /\ tasks' = [tasks EXCEPT ![n] = {}]
    /\ msgs' = {p \in msgs : p.to # n}
    /\ reqs' = {q \in reqs : q.to # n}
    /\ faults' = [faults EXCEPT !.exit = @ + 1]
    /\ UNCHANGED <<store, sent>>

-----------------------------------------------------------------------------
(* sendText and sendAttachment. *)

\* The call, up to the await of nextSenderSequence.  resendMessage is another
\* call: it draws new ids and a new sequence number.
BeginSend(n, c, attachment) ==
    /\ up[n] /\ n \in Writers
    /\ Len(sent) < MaxSends
    /\ Cardinality(tasks[n]) < MaxInflight
    /\ LET seq == NextSenderSequence(store[n], c, n)
       IN  /\ sent' = Append(sent, [sender |-> n, conv |-> c, seq |-> seq])
           /\ tasks' = [tasks EXCEPT ![n] = @ \cup
                {[send |-> Len(sent) + 1, conv |-> c, seq |-> seq,
                  attachment |-> attachment, phase |-> "sequenced",
                  todo |-> {}, delivered |-> FALSE]}]
    /\ UNCHANGED <<up, peers, store, msgs, reqs, faults>>

\* The sequence number has arrived: recipients are resolved from the peers that
\* are online now.
StartTransmission(n, t) ==
    /\ t \in tasks[n] /\ t.phase = "sequenced"
    /\ tasks' = [tasks EXCEPT ![n] = (@ \ {t}) \cup
         {[t EXCEPT !.phase = "sending", !.todo = ResolveRecipients(n, t.conv)]}]
    /\ UNCHANGED <<up, peers, store, msgs, reqs, sent, faults>>

\* Mutant: a successful transmission is not counted.
BugTransmitTo(n, t, m) ==
    /\ t \in tasks[n] /\ t.phase = "sending" /\ m \in t.todo
    /\ up[m]
    /\ msgs' = msgs \cup {[to |-> m, id |-> <<t.send, "packet">>,
                           conv |-> t.conv, sender |-> n, seq |-> t.seq]}
    /\ tasks' = [tasks EXCEPT ![n] = (@ \ {t}) \cup {[t EXCEPT !.todo = @ \ {m}]}]
    /\ UNCHANGED <<up, peers, store, reqs, sent, faults>>

\* _sendPacketWithHallCompatibility succeeds for one recipient: at least one of
\* the copies was accepted.
TransmitTo(n, t, m) ==
    /\ t \in tasks[n] /\ t.phase = "sending" /\ m \in t.todo
    /\ up[m]
    /\ msgs' = msgs \cup {[to |-> m, id |-> <<t.send, "packet">>,
                           conv |-> t.conv, sender |-> n, seq |-> t.seq]}
    /\ tasks' = [tasks EXCEPT ![n] = (@ \ {t}) \cup
         {[t EXCEPT !.todo = @ \ {m}, !.delivered = TRUE]}]
    /\ Cardinality(msgs') <= MaxNet
    /\ UNCHANGED <<up, peers, store, reqs, sent, faults>>

\* No copy was accepted: the recipient is gone, or the connection fails.
FailTo(n, t, m) ==
    /\ t \in tasks[n] /\ t.phase = "sending" /\ m \in t.todo
    /\ up[m] => faults.fail < MaxFails
    /\ faults' = [faults EXCEPT !.fail = IF up[m] THEN @ + 1 ELSE @]
    /\ tasks' = [tasks EXCEPT ![n] = (@ \ {t}) \cup {[t EXCEPT !.todo = @ \ {m}]}]
    /\ UNCHANGED <<up, peers, store, msgs, reqs, sent>>

\* Mutant: the stored row draws the next sequence number once more.
BugFinishSend(n, t) ==
    /\ t \in tasks[n] /\ t.phase = "sending" /\ t.todo = {}
    /\ store' = [store EXCEPT ![n] = UpsertMessage(@,
         [id |-> <<t.send, "local">>, conv |-> t.conv, sender |-> n,
          seq |-> NextSenderSequence(store[n], t.conv, n) + 1,
          direction |-> "outgoing",
          status |-> IF t.delivered THEN "sent" ELSE "failed"])]
    /\ tasks' = [tasks EXCEPT ![n] = @ \ {t}]
    /\ UNCHANGED <<up, peers, msgs, reqs, sent, faults>>

\* Mutant: the row is stored before its final status is known.
BugFinishSendStatus(n, t) ==
    /\ t \in tasks[n] /\ t.phase = "sending"
    /\ store' = [store EXCEPT ![n] = UpsertMessage(@,
         [id |-> <<t.send, "local">>, conv |-> t.conv, sender |-> n, seq |-> t.seq,
          direction |-> "outgoing", status |-> "sending"])]
    /\ tasks' = [tasks EXCEPT ![n] = @ \ {t}]
    /\ UNCHANGED <<up, peers, msgs, reqs, sent, faults>>

\* After the last recipient the local row is written: 'sent' when somebody got
\* the packet, 'failed' otherwise.  sendText draws a second id for this row,
\* sendAttachment keeps the id of the packet.
FinishSend(n, t) ==
    /\ t \in tasks[n] /\ t.phase = "sending" /\ t.todo = {}
    /\ store' = [store EXCEPT ![n] = UpsertMessage(@,
         [id |-> <<t.send, IF t.attachment THEN "packet" ELSE "local">>,
          conv |-> t.conv, sender |-> n, seq |-> t.seq,
          direction |-> "outgoing",
          status |-> IF t.delivered THEN "sent" ELSE "failed"])]
    /\ tasks' = [tasks EXCEPT ![n] = @ \ {t}]
    /\ UNCHANGED <<up, peers, msgs, reqs, sent, faults>>

-----------------------------------------------------------------------------
(* _handleTransportPacket. *)

\* _handleIncomingMessage.  The packet stays when another copy of it (another
\* alias) is still to be handled.
ReceiveMessage(n, p) ==
    /\ p \in msgs /\ p.to = n
    /\ msgs' \in {msgs, msgs \ {p}}
    /\ store' = IF up[n]
                THEN [store EXCEPT ![n] = UpsertMessage(@,
                       [id |-> p.id, conv |-> CanonicalConversation(n, p),
                        sender |-> p.sender, seq |-> p.seq,
                        direction |-> "incoming", status |-> "sent"])]
                ELSE store
    /\ UNCHANGED <<up, peers, tasks, reqs, sent, faults>>

\* Mutant: the summary of the alias request is found by the responder.
BugSyncWithPeer(n, m, ok) ==
    /\ up[n] /\ n \in Syncers /\ m \in peers[n]
    /\ \A q \in reqs : q.from # n \/ q.to # m
    /\ LET cs == {Hall, DirectConversation(n, m)} \cup JoinedRooms(n)
           request(a) == [to |-> m, from |-> n, alias |-> a,
                          summary |-> SummaryOf(store[n], cs)]
       IN  reqs' = reqs \cup (IF up[m] THEN {request(a) : a \in ok} ELSE {})
    /\ up[m] /\ ok # BOOLEAN => faults.fail < MaxFails
    /\ faults' = [faults EXCEPT !.fail = IF up[m] /\ ok # BOOLEAN THEN @ + 1 ELSE @]
    /\ UNCHANGED <<up, peers, store, tasks, msgs, sent>>

\* One peer of _syncKnownPeers: the request goes out once under the canonical
\* hall id and once under an alias; ok tells which of the two were accepted.
\* The summary of the alias request has no entry for a canonical id.
\* A peer is asked for ever, at most every 12 seconds: one request at a time
\* is on its way to it.
SyncWithPeer(n, m, ok) ==
    /\ up[n] /\ n \in Syncers /\ m \in peers[n]
    /\ \A q \in reqs : q.from # n \/ q.to # m
    /\ LET cs == {Hall, DirectConversation(n, m)} \cup JoinedRooms(n)
           request(a) == [to |-> m, from |-> n, alias |-> a,
                          summary |-> IF a THEN {} ELSE SummaryOf(store[n], cs)]
       IN  reqs' = reqs \cup (IF up[m] THEN {request(a) : a \in ok} ELSE {})
    /\ up[m] /\ ok # BOOLEAN => faults.fail < MaxFails
    /\ faults' = [faults EXCEPT !.fail = IF up[m] /\ ok # BOOLEAN THEN @ + 1 ELSE @]
    /\ UNCHANGED <<up, peers, store, tasks, msgs, sent>>

\* _handleSyncRequest: the missing rows go to the requester one by one; the ones
\* whose connection fails (not in ok) are skipped and the rest is still sent.
\* A row that is read now and sent later is a packet that is handled later.
\* joinedRoomIds of an alias request name no conversation of the responder.
HandleSyncRequest(n, q, ok) ==
    /\ q \in reqs /\ q.to = n
    /\ reqs' = reqs \ {q}
    /\ LET cs == {Hall, DirectConversation(n, q.from)}
                   \cup (IF q.alias THEN {} ELSE JoinedRooms(q.from))
           missing == IF up[n] THEN MissingMessages(store[n], cs, q.summary) ELSE {}
       IN  /\ ok \subseteq missing
           /\ msgs' = msgs \cup (IF up[q.from] THEN {PacketFor(q.from, r) : r \in ok} ELSE {})
           /\ Cardinality(msgs') <= MaxNet
           /\ up[q.from] /\ ok # missing => faults.fail < MaxFails
           /\ faults' = [faults EXCEPT !.fail =
                           IF up[q.from] /\ ok # missing THEN @ + 1 ELSE @]
    /\ UNCHANGED <<up, peers, store, tasks, sent>>

-----------------------------------------------------------------------------
SendStep(n) ==
    \E t \in tasks[n] :
        \/ StartTransmission(n, t)
        \/ \E m \in Node : TransmitTo(n, t, m) \/ FailTo(n, t, m)
        \/ FinishSend(n, t)

Next ==
    \E n \in Node :
        \/ Connect(n) \/ Disconnect(n) \/ RefreshPeers(n) \/ Exit(n)
        \/ \E c \in Writable(n), a \in Attachments : BeginSend(n, c, a)
        \/ SendStep(n)
        \/ \E p \in msgs : ReceiveMessage(n, p)
        \/ \E m \in Node, ok \in SUBSET BOOLEAN : SyncWithPeer(n, m, ok)
        \/ \E q \in reqs, ok \in SUBSET store[n] : HandleSyncRequest(n, q, ok)

Spec == Init /\ [][Next]_vars

\* Timers and socket callbacks keep running while the process does: the refresh
\* timer fires every 3 seconds and asks every known peer again, every accepted
\* request and packet is handled, sends under way go on, VNT reconnects.
Fairness ==
    \A n \in Node :
        /\ WF_vars(Connect(n)) /\ WF_vars(RefreshPeers(n)) /\ WF_vars(SendStep(n))
        /\ \A m \in Node :
             WF_vars(\E ok \in SUBSET BOOLEAN : SyncWithPeer(n, m, ok))
        /\ \A a \in BOOLEAN :
             WF_vars(\E q \in reqs, ok \in SUBSET store[n] :
                        q.alias = a /\ HandleSyncRequest(n, q, ok))
        /\ \A k \in 1 .. MaxSends :
             WF_vars(\E p \in msgs :
                        p.id[1] = k /\ ReceiveMessage(n, p) /\ msgs' # msgs)

FairSpec == Spec /\ Fairness

-----------------------------------------------------------------------------
(* Properties. *)

\* What the send behind a message id was called with.
Origin(id) == sent[id[1]]

\* A private message is stored nowhere but at the two nodes of its conversation,
\* whatever is synchronised with whom (_handleSyncRequest answers with the
\* private history of exactly one pair).
DirectPrivacy ==
    \A n \in Node : \A r \in store[n] :
        Origin(r.id).conv.type = "direct" => n \in Origin(r.id).conv.ips

\* What a step may never do: a message somebody else sent, and any message of
\* the hall or the room, stays in the history of a node once it is there,
\* although INSERT OR REPLACE deletes rows.
Kept(n, r) == r.sender # n \/ r.conv.type # "direct"
ReceivedKept ==
    [][\A n \in Node : \A r \in store[n] :
          Kept(n, r) => \E x \in store'[n] : Key(x) = Key(r)]_vars

\* A text message shown as 'failed' to its author was transmitted to nobody.
FailedNeverDelivered ==
    \A n \in Node : \A r \in store[n] :
        r.status = "failed" /\ r.id[2] = "local" =>
            /\ \A m \in Node : \A x \in store[m] : x.id # <<r.id[1], "packet">>
            /\ \A p \in msgs : p.id # <<r.id[1], "packet">>

\* One sequence number of one sender names one hall message everywhere: two
\* nodes that hold the same key hold the same message.
HallAgreement ==
    \A m, n \in Node : \A x \in store[m], y \in store[n] :
        x.conv = Hall /\ Key(x) = Key(y) => x.id[1] = y.id[1]

\* The histories implement the abstract specification: a node only learns
\* messages that were published for it, under the conversation, the sender and
\* the number they were sent with, and it forgets none of them.
AsMessage(r) == [conv |-> r.conv, sender |-> r.sender, seq |-> r.seq]
History == INSTANCE ChatHistory WITH
    published <- {AsMessage(sent[k]) : k \in 1 .. Len(sent)},
    known <- [n \in Node |-> {AsMessage(r) : r \in {x \in store[n] : Kept(n, x)}}]
ImplementsHistory == History!HistorySpec

\* The inductive invariant behind DirectPrivacy, ReceivedKept and
\* ImplementsHistory: every send, packet and row is where its message may be,
\* and names what its send named.
Known(id) == id[1] \in 1 .. Len(sent)

SendsAddressed ==
    \A k \in 1 .. Len(sent) :
        /\ sent[k].seq <= k
        /\ \/ sent[k].conv = Hall
           \/ sent[k].conv = Room /\ sent[k].sender \in RoomMembers
           \/ \E m \in Node \ {sent[k].sender} :
                sent[k].conv = DirectConversation(sent[k].sender, m)
TasksOfSends ==
    \A n \in Node : \A t \in tasks[n] :
        /\ t.send \in 1 .. Len(sent)
        /\ sent[t.send] = [sender |-> n, conv |-> t.conv, seq |-> t.seq]
        /\ t.todo \subseteq History!Audience(t.conv)
PacketsAddressed ==
    \A p \in msgs :
        /\ Known(p.id) /\ p.to \in History!Audience(p.conv)
        /\ Origin(p.id) = [sender |-> p.sender, conv |-> p.conv, seq |-> p.seq]
RequestsOfOthers == \A q \in reqs : q.from # q.to
PeersAreOthers == \A n \in Node : n \notin peers[n]
RowsFiled ==
    \A n \in Node : \A r \in store[n] :
        /\ Known(r.id) /\ n \in History!Audience(Origin(r.id).conv)
        /\ Origin(r.id).sender = r.sender /\ Origin(r.id).seq = r.seq
        /\ \/ r.conv = Origin(r.id).conv
           \/ /\ Origin(r.id).conv.type = "direct" /\ r.sender = n
              /\ r.conv = DirectConversation(n, n)

HistoryInv ==
    /\ TypeOK /\ SendsAddressed /\ TasksOfSends /\ PacketsAddressed
    /\ RequestsOfOthers /\ PeersAreOthers /\ RowsFiled

\* Node n holds the k-th message.
Holds(n, k) == k <= Len(sent) /\ \E r \in store[n] : Key(r) = Key(sent[k])

\* Failed transmissions and failed answers are made up for by a later sync: a
\* hall message some node has stored reaches every node.
HallConvergence ==
    \A n, m \in Node : \A k \in 1 .. MaxSends :
        (Holds(n, k) /\ sent[k].conv = Hall) ~> Holds(m, k)
=============================================================================
