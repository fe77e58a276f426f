-------------------------- MODULE ReliableChannel --------------------------
(***************************************************************************)
(* The reliability layer of OpenVPN's control channel (reliable.c) and the *)
(* part of ssl.c that drives it: two peers, each with a window of packets  *)
(* to resend (send_reliable), a window of packets received out of order    *)
(* (rec_reliable), the ids it owes an acknowledgement (rec_ack) and the    *)
(* ids it acknowledged last (lru_acks), over a network that may lose,      *)
(* duplicate and reorder.                                                  *)
(*                                                                         *)
(* OpenVPN runs one event loop, so tls_pre_decrypt() on an incoming packet *)
(* and tls_multi_process() are atomic steps.  next_try and timeout of an   *)
(* entry are abstracted to "due": time may pass next_try at any moment.    *)
(* Slots of the arrays are not told apart; the counter n_acks a reused     *)
(* slot inherits is never read before reliable_send() clears it, because   *)
(* a new entry is due at once.  A TCP server's "hold" ends when it is      *)
(* linked, before which it does nothing here.                              *)
(***************************************************************************)
EXTENDS Integers, Sequences, FiniteSets, FiniteSetsExt, SequencesExt

CONSTANTS
    SendSize,         \* TLS_RELIABLE_N_SEND_BUFFERS (6)
    RecSize,          \* TLS_RELIABLE_N_REC_BUFFERS (12)
    AckSize,          \* RELIABLE_ACK_SIZE (8)
    SendAckMax,       \* CONTROL_SEND_ACK_MAX (4)
    NAckRetransmit,   \* N_ACK_RETRANSMIT (3)
    SegsPerRead,      \* packets one read of TLS_CHANNEL_BUF_SIZE may fill
    IdMod,            \* 2^32, the range of packet_id_type
    MaxClientSegs,    \* bound: packets the client hands over
    MaxServerSegs,    \* bound: packets the server hands over
    MaxInFlight       \* bound: packets in the network at a time

ASSUME SizesAssumption ==
    /\ SendSize \in Nat \ {0} /\ RecSize \in Nat \ {0}
    /\ AckSize \in Nat \ {0} /\ SendAckMax \in 1 .. AckSize
    /\ NAckRetransmit \in Nat \ {0}
    /\ SegsPerRead \in 1 .. SendSize
    /\ MaxInFlight \in Nat \ {0}

\* No key state lives for half the id space: the ids of a run never wrap.
\* Each side has at least its reset packet to send.
ASSUME NoWrapAssumption ==
    /\ MaxClientSegs \in Nat \ {0} /\ MaxServerSegs \in Nat \ {0}
    /\ IdMod \in Nat
    /\ 2 * (MaxClientSegs + RecSize) < IdMod
    /\ 2 * (MaxServerSegs + RecSize) < IdMod

Peers == {"client", "server"}
Other(p) == IF p = "client" THEN "server" ELSE "client"
MaxSegs(p) == IF p = "client" THEN MaxClientSegs ELSE MaxServerSegs

VARIABLES
    ks_state,     \* S_INITIAL, S_PRE_START or S_START (and beyond) of the key state
    linked,       \* session_id_remote is defined
    sendId,       \* send_reliable->packet_id, the next id to give out
    sendBuf,      \* active entries of send_reliable
    recId,        \* rec_reliable->packet_id, the next id to deliver
    recBuf,       \* active entries of rec_reliable
    recAck,       \* rec_ack
    lruAcks,      \* lru_acks
    net,          \* packets in flight (external)
    sent, got     \* history: packets handed to, and delivered by, the layer

vars == <<ks_state, linked, sendId, sendBuf, recId, recBuf, recAck, lruAcks, net, sent, got>>

Ids == 0 .. IdMod - 1
Half == IdMod \div 2
States == {"S_INITIAL", "S_PRE_START", "S_START"}
NoId == -1        \* packet_id of a P_ACK_V1 packet, which has none

\* The n-th packet a peer hands over stands for its contents: two packets
\* never look alike, so a delivery out of order or twice shows.
Data == Nat

SendEntry == [id : Ids, data : Data, due : BOOLEAN, n_acks : 0 .. NAckRetransmit]
RecEntry  == [id : Ids, data : Data]
Packet    == [to : Peers, id : Ids \cup {NoId}, data : Data, acks : Seq(Ids)]
-----------------------------------------------------------------------------
\* Arithmetic on packet ids

subtract_pid(test, base) == (test - base) % IdMod

reliable_pid_in_range1(test, base, extent) == subtract_pid(test, base) < extent

reliable_pid_in_range2(test, base, extent) ==
    IF base + extent < IdMod
    THEN test < base + extent
    ELSE (test + Half) % IdMod < (base + Half + extent) % IdMod

reliable_pid_min(p1, p2) == ~ reliable_pid_in_range1(p1, p2, Half)
-----------------------------------------------------------------------------
\* Sending side

\* The lowest of a non-empty set of entries, in the order of reliable_pid_min.
Lowest(entries) ==
    CHOOSE e \in entries : \A f \in entries \ {e} : reliable_pid_min(e.id, f.id)

\* Mutant: free buffers are counted, not the distance to the lowest id.
FreeBuffers(buf, id) == SendSize - Cardinality(buf)

reliable_get_num_output_sequenced_available(buf, id) ==
    IF buf = {} THEN SendSize ELSE SendSize - subtract_pid(id, Lowest(buf).id)

\* A free buffer, unless an unacknowledged low id clogs the window.
reliable_get_buf_output_sequenced(buf, id) ==
    /\ buf # {} => reliable_pid_in_range1(id, Lowest(buf).id, SendSize)
    /\ Cardinality(buf) < SendSize

\* Entries reliable_send() may pick: timed out, or overtaken by acks.
Current(buf) == {e \in buf : e.due \/ e.n_acks >= NAckRetransmit}

\* n new packets become active entries, due at once.
reliable_mark_active_outgoing(buf, id, len, n) ==
    buf \cup {[id |-> (id + i) % IdMod, data |-> len + i + 1, due |-> TRUE, n_acks |-> 0] :
              i \in 0 .. n - 1}

\* Mutant: a packet leaves the window when it is sent.
SendAndForget(buf, e) == buf \ {e}

\* Sending an entry starts its timer and forgets the acks that overtook it.
reliable_send(buf, e) == (buf \ {e}) \cup {[e EXCEPT !.due = FALSE, !.n_acks = 0]}

\* Mutant: an acknowledgement is taken for all lower ids too.
CumulativePurge(buf, acks) == {e \in buf : \A i \in DOMAIN acks : acks[i] < e.id}

\* Acknowledged entries go; an entry below an acknowledged id counts it.
\* Counts beyond NAckRetransmit are not told apart.
reliable_send_purge(buf, acks) ==
    {[e EXCEPT !.n_acks = Min({NAckRetransmit,
                               @ + Cardinality({i \in DOMAIN acks : acks[i] > e.id})})] :
       e \in {f \in buf : f.id \notin Range(acks)}}

reliable_schedule_now(buf) == {[e EXCEPT !.due = TRUE] : e \in buf}
-----------------------------------------------------------------------------
\* Receiving side

reliable_can_get(buf) == Cardinality(buf) < RecSize

\* Mutant: any packet ahead is stored while there is room.
AnyPacketFits(base, id) == TRUE

reliable_wont_break_sequentiality(base, id) == reliable_pid_in_range2(id, base, RecSize)

reliable_not_replay(buf, base, id) ==
    /\ ~ reliable_pid_min(id, base)
    /\ \A e \in buf : e.id # id

\* Mutant: the array of owed acks has no end.
UnboundedAcks(ack, id) == IF id \notin Range(ack) THEN Append(ack, id) ELSE ack

reliable_ack_acknowledge_packet_id(ack, id) ==
    IF id \notin Range(ack) /\ Len(ack) < AckSize THEN Append(ack, id) ELSE ack

\* The entries of s that are not in the set ids, in their order.
Without(s, ids) ==
    LET kept == {i \in DOMAIN s : s[i] \notin ids}
        nth(k) == CHOOSE i \in kept : Cardinality({j \in kept : j < i}) = k - 1
    IN  [k \in 1 .. Cardinality(kept) |-> s[nth(k)]]

\* The ids being acknowledged move to the front of the lru list.
copy_acks_to_lru(first, lru) ==
    LET all == first \o Without(lru, Range(first))
    IN  SubSeq(all, 1, Min({Len(all), AckSize}))

\* What reliable_ack_write() puts on the wire and what it leaves behind.
reliable_ack_write(ack, lru, max) ==
    LET n    == Min({Len(ack), max})
        lru1 == copy_acks_to_lru(SubSeq(ack, 1, n), lru)
    IN  [wire |-> SubSeq(lru1, 1, Min({Len(lru1), max})),
         lru  |-> lru1,
         left |-> SubSeq(ack, n + 1, Len(ack))]

\* How many packets lie in sequence at the front of the receive window.
InSequence(buf, base) ==
    Max({n \in 0 .. RecSize : \A i \in 0 .. n - 1 : \E e \in buf : e.id = (base + i) % IdMod})

DataOf(buf, id) == (CHOOSE e \in buf : e.id = id).data
-----------------------------------------------------------------------------
Init ==
    /\ ks_state = [p \in Peers |-> "S_INITIAL"]
    /\ linked = [p \in Peers |-> FALSE]
    /\ sendId = [p \in Peers |-> 0]
    /\ sendBuf = [p \in Peers |-> {}]
    /\ recId = [p \in Peers |-> 0]
    /\ recBuf = [p \in Peers |-> {}]
    /\ recAck = [p \in Peers |-> <<>>]
    /\ lruAcks = [p \in Peers |-> <<>>]
    /\ net = {}
    /\ sent = [p \in Peers |-> <<>>]
    /\ got = [p \in Peers |-> <<>>]

\* session_move_pre_start() generates the reset packet; the handshake may
\* go on once that packet has been acknowledged.
HandshakeState(p) ==
    CASE ks_state[p] = "S_INITIAL" -> "S_PRE_START"
      [] ks_state[p] = "S_PRE_START" /\ sendBuf[p] = {} -> "S_START"
      [] OTHER -> ks_state[p]

\* How many packets one call may add: the reset packet, or the pieces of
\* one TLS record, for which the window must have room before it is read.
MayHandOver(p) ==
    CASE ks_state[p] = "S_INITIAL" -> {1}
      [] HandshakeState(p) = "S_START" ->
            {0} \cup {n \in 1 .. SegsPerRead :
                        /\ reliable_get_buf_output_sequenced(sendBuf[p], sendId[p])
                        /\ reliable_get_num_output_sequenced_available(sendBuf[p], sendId[p])
                             >= SegsPerRead
                        /\ Len(sent[p]) + n <= MaxSegs(p)}
      [] OTHER -> {0}

HandOver(p, n) ==
    /\ sent' = [sent EXCEPT ![p] = @ \o [i \in 1 .. n |-> Len(@) + i]]
    /\ sendId' = [sendId EXCEPT ![p] = (@ + n) % IdMod]

\* Mutant: the lowest packet there is goes out, in sequence or not.
DeliverLowest(p) ==
    IF recBuf[p] = {} THEN UNCHANGED <<got, recBuf, recId>>
    ELSE LET e == Lowest(recBuf[p])
         IN  /\ got' = [got EXCEPT ![p] = Append(@, e.data)]
             /\ recBuf' = [recBuf EXCEPT ![p] = @ \ {e}]
             /\ recId' = [recId EXCEPT ![p] = (e.id + 1) % IdMod]

\* Every packet in sequence goes to the TLS library and frees its buffer.
DeliverInSequence(p) ==
    LET n == InSequence(recBuf[p], recId[p])
        ids == {(recId[p] + i) % IdMod : i \in 0 .. n - 1}
    IN  /\ got' = [got EXCEPT ![p] =
                     @ \o [i \in 1 .. n |-> DataOf(recBuf[p], (recId[p] + i - 1) % IdMod)]]
        /\ recBuf' = [recBuf EXCEPT ![p] = {e \in @ : e.id \notin ids}]
        /\ recId' = [recId EXCEPT ![p] = (@ + n) % IdMod]

Transmit(p, id, data, w) ==
    /\ net' = net \cup {[to |-> Other(p), id |-> id, data |-> data, acks |-> w.wire]}
    /\ recAck' = [recAck EXCEPT ![p] = w.left]
    /\ lruAcks' = [lruAcks EXCEPT ![p] = w.lru]

\* At most one packet leaves per call: the lowest current entry with a few
\* acks on it, else all the acks there are.
Output(p, buf) ==
    IF Current(buf) # {}
    THEN LET e == Lowest(Current(buf))
         IN  /\ Transmit(p, e.id, e.data,
                         reliable_ack_write(recAck[p], lruAcks[p], SendAckMax))
             /\ sendBuf' = [sendBuf EXCEPT ![p] = reliable_send(buf, e)]
    ELSE /\ sendBuf' = [sendBuf EXCEPT ![p] = buf]
         /\ IF recAck[p] # <<>>
            THEN Transmit(p, NoId, 0, reliable_ack_write(recAck[p], lruAcks[p], AckSize))
            ELSE UNCHANGED <<net, recAck, lruAcks>>

\* tls_multi_process() with the link buffer free (busy = FALSE) or still
\* holding another packet.  A server has no peer address before it is linked.
TlsProcess(p, busy, n) ==
    /\ p = "client" \/ linked[p]
    /\ n \in MayHandOver(p)
    /\ ks_state' = [ks_state EXCEPT ![p] = HandshakeState(p)]
    /\ HandOver(p, n)
    /\ LET buf == reliable_mark_active_outgoing(sendBuf[p], sendId[p], Len(sent[p]), n)
       IN  IF busy
           THEN /\ sendBuf' = [sendBuf EXCEPT ![p] = buf]
                /\ UNCHANGED <<net, recAck, lruAcks>>
           ELSE /\ Cardinality(net) < MaxInFlight
                /\ Output(p, buf)
    /\ DeliverInSequence(p)
    /\ UNCHANGED linked

\* The time of an entry's next_try comes.
Timeout(p, id) ==
    /\ \E e \in sendBuf[p] :
         /\ e.id = id /\ ~ e.due
         /\ sendBuf' = [sendBuf EXCEPT ![p] = (@ \ {e}) \cup {[e EXCEPT !.due = TRUE]}]
    /\ UNCHANGED <<ks_state, linked, sendId, recId, recBuf, recAck, lruAcks, net, sent, got>>

\* Only a hard reset, the first packet of a peer, opens a session.
IsHardReset(m) == m.id = 0

\* Any other control packet of a session that is not known is dropped.
Unroutable(p, m) ==
    /\ ~ linked[p] /\ ~ IsHardReset(m)
    /\ UNCHANGED <<ks_state, linked, sendId, sendBuf, recId, recBuf, recAck, lruAcks, sent, got>>

Accept(p, m) ==
    /\ reliable_can_get(recBuf[p])
    /\ reliable_wont_break_sequentiality(recId[p], m.id)

\* Mutant: a replay is dropped without an acknowledgement.
ReplayIsNotAcked(p, m) ==
    /\ linked[p] \/ IsHardReset(m)
    /\ linked' = [linked EXCEPT ![p] = TRUE]
    /\ sendBuf' = [sendBuf EXCEPT ![p] =
                     reliable_send_purge(IF linked[p] THEN @ ELSE reliable_schedule_now(@), m.acks)]
    /\ IF m.id # NoId /\ Accept(p, m) /\ reliable_not_replay(recBuf[p], recId[p], m.id)
       THEN /\ recBuf' = [recBuf EXCEPT ![p] = @ \cup {[id |-> m.id, data |-> m.data]}]
            /\ recAck' = [recAck EXCEPT ![p] = reliable_ack_acknowledge_packet_id(@, m.id)]
       ELSE UNCHANGED <<recBuf, recAck>>
    /\ UNCHANGED <<ks_state, sendId, recId, lruAcks, sent, got>>

\* tls_pre_decrypt(): acks first, then the packet itself, which is
\* acknowledged even when it is a replay.
TlsPreDecrypt(p, m) ==
    /\ linked[p] \/ IsHardReset(m)
    /\ linked' = [linked EXCEPT ![p] = TRUE]
    /\ sendBuf' = [sendBuf EXCEPT ![p] =
                     reliable_send_purge(IF linked[p] THEN @ ELSE reliable_schedule_now(@), m.acks)]
    /\ IF m.id # NoId /\ Accept(p, m)
       THEN /\ recBuf' = [recBuf EXCEPT ![p] =
                            IF reliable_not_replay(@, recId[p], m.id)
                            THEN @ \cup {[id |-> m.id, data |-> m.data]}
                            ELSE @]
            /\ recAck' = [recAck EXCEPT ![p] = reliable_ack_acknowledge_packet_id(@, m.id)]
       ELSE UNCHANGED <<recBuf, recAck>>
    /\ UNCHANGED <<ks_state, sendId, recId, lruAcks, sent, got>>

\* The network delivers a packet and may keep a copy of it, or loses it.
Arrive(p, m, copy) ==
    /\ m \in net /\ m.to = p
    /\ TlsPreDecrypt(p, m) \/ Unroutable(p, m)
    /\ net' = IF copy THEN net ELSE net \ {m}

Lose(m) ==
    /\ m \in net
    /\ net' = net \ {m}
    /\ UNCHANGED <<ks_state, linked, sendId, sendBuf, recId, recBuf, recAck, lruAcks, sent, got>>

Next ==
    \/ \E p \in Peers, busy \in BOOLEAN, n \in 0 .. SegsPerRead : TlsProcess(p, busy, n)
    \/ \E p \in Peers : \E e \in sendBuf[p] : Timeout(p, e.id)
    \/ \E p \in Peers, m \in net, copy \in BOOLEAN : Arrive(p, m, copy)
    \/ \E m \in net : Lose(m)

Spec == Init /\ [][Next]_vars

\* The event loop calls tls_multi_process() again and again, the socket takes
\* a packet again and again, timers fire, and a packet or an acknowledgement
\* that is sent for ever gets through.  Nothing obliges the TLS library to
\* have something to send; only the reset packet is sure to come.
Owed(p) == IF ks_state[p] = "S_INITIAL" THEN 1 ELSE 0

Fairness ==
    /\ \A p \in Peers : SF_vars(TlsProcess(p, FALSE, Owed(p)))
    /\ \A p \in Peers : WF_vars(\E m \in net : Arrive(p, m, FALSE))
    /\ \A p \in Peers : \A id \in 0 .. MaxSegs(p) - 1 : WF_vars(Timeout(p, id))
    /\ \A p \in Peers : \A id \in 0 .. MaxSegs(Other(p)) - 1 :
          SF_vars(\E m \in net : m.id = id /\ Arrive(p, m, FALSE))
    /\ \A p \in Peers : \A id \in 0 .. MaxSegs(p) - 1 :
          SF_vars(\E m \in net : id \in Range(m.acks) /\ Arrive(p, m, FALSE))

FairSpec == Spec /\ Fairness
-----------------------------------------------------------------------------
\* The windows and ack lists stay within the arrays reliable.h declares for
\* them, however many packets arrive between two acknowledgements.
TypeOK ==
    /\ ks_state \in [Peers -> States]
    /\ linked \in [Peers -> BOOLEAN]
    /\ sendId \in [Peers -> Ids] /\ recId \in [Peers -> Ids]
    /\ \A p \in Peers :
         /\ sendBuf[p] \subseteq SendEntry /\ Cardinality(sendBuf[p]) <= SendSize
         /\ recBuf[p] \subseteq RecEntry /\ Cardinality(recBuf[p]) <= RecSize
         /\ recAck[p] \in Seq(Ids) /\ Len(recAck[p]) <= AckSize
         /\ lruAcks[p] \in Seq(Ids) /\ Len(lruAcks[p]) <= AckSize
    /\ \A m \in net : m \in Packet
    /\ sent \in [Peers -> Seq(Data)] /\ got \in [Peers -> Seq(Data)]

\* Each direction, seen as the packets handed over and delivered.
ToServer == INSTANCE ControlStream WITH
               sent <- sent["client"], got <- got["server"], Packets <- Data, MaxBatch <- SegsPerRead
ToClient == INSTANCE ControlStream WITH
               sent <- sent["server"], got <- got["client"], Packets <- Data, MaxBatch <- SegsPerRead

\* Over a network that loses, repeats and reorders, the TLS library is given
\* every packet at most once, in the order of the peer's writes and without
\* a gap: reliable_not_replay(), reliable_get_entry_sequenced() and
\* reliable_mark_deleted() together implement ControlStream both ways.
Streams == ToServer!Safety /\ ToClient!Safety

\* And every packet is delivered in the end: reliable_send() keeps an entry
\* until it is acknowledged, and a lost acknowledgement is repeated.
LiveStreams == ToServer!Spec /\ ToClient!Spec

\* Whatever is lost, both sides reach S_START, which session_move_start()
\* grants only when the reset packet has been acknowledged: the peer whose
\* acknowledgement was lost must acknowledge the replay.
HandshakeStarts == <>(\A p \in Peers : ks_state[p] = "S_START")

\* A packet that reliable_send_purge() has dropped from the send window was
\* delivered or is held in the peer's receive window: an id is acknowledged
\* only after reliable_mark_active_incoming() has stored it, and an id whose
\* packet the peer refused is never purged.
AckedIsStored ==
    \A p \in Peers : \A id \in 0 .. sendId[p] - 1 :
       \/ \E e \in sendBuf[p] : e.id = id
       \/ id < recId[Other(p)]
       \/ \E e \in recBuf[Other(p)] : e.id = id

\* A TLS record that found room is stored whole: "ASSERT(buf)" after each
\* piece in write_outgoing_tls_ciphertext() holds, that is, no id goes out
\* that is a whole window ahead of one still unacknowledged.
RecordFits ==
    \A p \in Peers : \A e, f \in sendBuf[p] : e.id - f.id < SendSize

\* The receive window never fills up without the packet everybody waits for,
\* for reliable_can_get() would then refuse that packet for ever:
\* reliable_wont_break_sequentiality() keeps a place for every id below.
NeverClogged ==
    \A p \in Peers : ~ reliable_can_get(recBuf[p]) => \E e \in recBuf[p] : e.id = recId[p]
=============================================================================
