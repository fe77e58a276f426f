---------------------------- MODULE ReplayWindow ----------------------------
(***************************************************************************)
(* packet_id.c and crypto_check_replay(): the packet ids a sender gives    *)
(* out under one key, and the sliding window with which the receiver of    *)
(* that key refuses what it has accepted before.  The network keeps every  *)
(* packet for ever and hands it over in any order, any number of times.    *)
(*                                                                         *)
(* The circular list is a function from the distance to the highest id     *)
(* (0 is the highest itself) to when that id was accepted; pushing SEQ_    *)
(* UNSEEN once for every id skipped is a shift of that function.           *)
(***************************************************************************)
EXTENDS Integers

CONSTANTS
    SeqBacktracks,    \* --replay-window n: 0 is the TCP mode
    TimeBacktracks,   \* --replay-window t in seconds: 0 is no limit
    LongForms,        \* packet ids with (TRUE) or without a timestamp
    PacketIdMax,      \* PACKET_ID_MAX, 2^32 - 1
    ReapInterval,     \* SEQ_REAP_INTERVAL (5)
    MaxNow            \* bound on the clock

ASSUME ReplayAssumption ==
    /\ SeqBacktracks \subseteq Nat
    /\ TimeBacktracks \subseteq Nat
    /\ LongForms \subseteq BOOLEAN
    /\ PacketIdMax \in Nat \ {0}
    /\ ReapInterval \in Nat \ {0}
    /\ MaxNow \in Nat

SEQ_UNSEEN  == 0
SEQ_EXPIRED == 1
FirstNow    == 2      \* any time of day above SEQ_EXPIRED

VARIABLES
    seq_backtrack, time_backtrack, long_form,   \* fixed by packet_id_init()
    now,                                        \* the clock of otime.c
    sndId, sndTime,                             \* struct packet_id_send
    recTime, recId, size, seq_list, last_reap,  \* struct packet_id_rec
    wire,                                       \* packets sent
    acceptedAt,                                 \* history: when a packet was accepted
    reused, again                               \* history: ids sent, packets accepted twice

config == <<seq_backtrack, time_backtrack, long_form>>
sender == <<sndId, sndTime>>
receiver == <<recTime, recId, size, seq_list, last_reap>>
history == <<acceptedAt, again>>
vars == <<config, now, sender, receiver, wire, history, reused>>

Ids == 1 .. PacketIdMax
Pins == [id : Ids, time : Nat]       \* struct packet_id_net
Accepted == DOMAIN acceptedAt
Unlimited == 0
-----------------------------------------------------------------------------
packet_id_init ==
    /\ seq_backtrack \in SeqBacktracks
    /\ time_backtrack \in (IF seq_backtrack = 0 THEN {Unlimited} ELSE TimeBacktracks)
    /\ sndId = 0 /\ sndTime = 0
    /\ recTime = 0 /\ recId = 0 /\ last_reap = 0
    /\ size = 0 /\ seq_list = [d \in {} |-> SEQ_UNSEEN]

Init ==
    /\ packet_id_init
    /\ long_form \in LongForms
    /\ now = FirstNow
    /\ wire = {}
    /\ acceptedAt = [p \in {} |-> 0]
    /\ reused = {} /\ again = {}

\* The clock only moves forward.
Tick ==
    /\ now < MaxNow
    /\ now' = now + 1
    /\ UNCHANGED <<config, sender, receiver, wire, history, reused>>
-----------------------------------------------------------------------------
\* The sender

\* The time stamp of the running sequence: taken with its first packet.
Stamp == IF sndTime = 0 THEN now ELSE sndTime

Send(id, time) ==
    LET pin == [id |-> id, time |-> IF long_form THEN time ELSE 0]
    IN  /\ sndId' = id /\ sndTime' = time
        /\ wire' = wire \cup {pin}
        /\ reused' = reused \cup (wire \cap {pin})
        /\ UNCHANGED <<config, now, receiver, history>>

\* Mutant: the rollover does not wait for a later time stamp.
RollOverAtOnce ==
    \/ sndId # PacketIdMax /\ Send(sndId + 1, Stamp)
    \/ sndId = PacketIdMax /\ long_form /\ Send(1, now)

packet_id_send_update ==
    \/ sndId # PacketIdMax /\ Send(sndId + 1, Stamp)
    \* Roll over, in long form and once time has moved on.
    \/ /\ sndId = PacketIdMax
       /\ long_form /\ now > Stamp
       /\ Send(1, now)
-----------------------------------------------------------------------------
\* The receiver

\* Mutant: the zero of an id not seen yet is taken for a very old time.
UnseenIsOld(d) == seq_list[d] + time_backtrack < now

\* An accepted id that waited too long.
Old(d) == seq_list[d] # SEQ_UNSEEN /\ seq_list[d] + time_backtrack < now

\* Mutant: only the old id itself expires.
ExpiresAlone(d) == Old(d)

\* An old id and all below it expire, up to the ids that have expired before.
Expires(d) ==
    /\ \E e \in 0 .. d : Old(e)
    /\ \A e \in 0 .. d : seq_list[e] # SEQ_EXPIRED

ReapDue == last_reap + ReapInterval <= now

\* The list after packet_id_reap_test().
Reaped ==
    [d \in 0 .. size - 1 |->
       IF ReapDue /\ time_backtrack # Unlimited /\ Expires(d) THEN SEQ_EXPIRED ELSE seq_list[d]]

\* packet_id_test() on the reaped list.
packet_id_test(pin) ==
    /\ pin.id # 0
    /\ IF seq_backtrack # 0
       THEN \/ pin.time > recTime
            \/ /\ pin.time = recTime
               /\ \/ pin.id > recId
                  \/ /\ pin.id <= recId /\ recId - pin.id < size
                     /\ Reaped[recId - pin.id] = SEQ_UNSEEN
       ELSE \/ pin.time > recTime /\ pin.id = 1
            \/ pin.time = recTime /\ (recId = 0 \/ pin.id = recId + 1)

\* A later time stamp or a jump over the whole window starts a new list.
NewSequence(pin) ==
    \/ size = 0
    \/ pin.time > recTime
    \/ pin.id >= seq_backtrack /\ pin.id - seq_backtrack > recId

BaseId(pin) ==
    IF ~ NewSequence(pin) THEN recId
    ELSE IF pin.id > seq_backtrack THEN pin.id - seq_backtrack ELSE 0
BaseSize(pin) == IF NewSequence(pin) THEN 0 ELSE size

\* How many ids the window moves, and what becomes of it.
Shift(pin) == IF BaseId(pin) < pin.id THEN pin.id - BaseId(pin) ELSE 0
NewId(pin) == BaseId(pin) + Shift(pin)

\* Mutant: the list grows past its capacity.
UncappedSize(pin) == BaseSize(pin) + Shift(pin)

NewSize(pin) ==
    IF BaseSize(pin) + Shift(pin) > seq_backtrack THEN seq_backtrack ELSE BaseSize(pin) + Shift(pin)

\* Mutant: only the head of the list is stamped, not the id accepted.
StampsHead(pin) ==
    [d \in 0 .. NewSize(pin) - 1 |->
       IF d < Shift(pin) THEN (IF d = 0 THEN now ELSE SEQ_UNSEEN) ELSE Reaped[d - Shift(pin)]]

NewList(pin) ==
    [d \in 0 .. NewSize(pin) - 1 |->
       IF d = NewId(pin) - pin.id THEN now
       ELSE IF d < Shift(pin) THEN SEQ_UNSEEN
       ELSE Reaped[d - Shift(pin)]]

packet_id_add(pin) ==
    IF seq_backtrack # 0
    THEN /\ recTime' = IF NewSequence(pin) THEN pin.time ELSE recTime
         /\ recId' = NewId(pin)
         /\ size' = NewSize(pin)
         /\ seq_list' = NewList(pin)
    ELSE /\ recTime' = pin.time /\ recId' = pin.id
         /\ UNCHANGED <<size, seq_list>>

\* crypto_check_replay() on a packet off the wire.
Accept(pin) ==
    /\ packet_id_test(pin)
    /\ packet_id_add(pin)
    /\ acceptedAt' = [p \in Accepted \cup {pin} |-> IF p = pin THEN now ELSE acceptedAt[p]]
    /\ again' = again \cup (Accepted \cap {pin})

Refuse(pin) ==
    /\ ~ packet_id_test(pin)
    /\ seq_list' = Reaped
    /\ UNCHANGED <<recTime, recId, size, history>>

crypto_check_replay(pin) ==
    /\ Accept(pin) \/ Refuse(pin)
    /\ last_reap' = IF ReapDue THEN now ELSE last_reap
    /\ UNCHANGED <<config, now, sender, wire, reused>>

Next ==
    \/ Tick
    \/ packet_id_send_update
    \/ \E pin \in wire : crypto_check_replay(pin)

Spec == Init /\ [][Next]_vars
-----------------------------------------------------------------------------
\* The window never outgrows the list packet_id_init() allocates for it, and
\* the ids stay in range over sequences, jumps and rollovers.
TypeOK ==
    /\ seq_backtrack \in SeqBacktracks /\ time_backtrack \in TimeBacktracks \cup {Unlimited}
    /\ long_form \in LongForms
    /\ now \in Nat /\ now >= FirstNow
    /\ sndId \in 0 .. PacketIdMax /\ sndTime \in Nat
    /\ recTime \in Nat /\ recId \in 0 .. PacketIdMax /\ last_reap \in Nat
    /\ size \in 0 .. seq_backtrack
    /\ seq_list \in [0 .. size - 1 -> Nat]
    /\ wire \subseteq Pins /\ reused \subseteq wire
    /\ Accepted \subseteq wire /\ acceptedAt \in [Accepted -> Nat] /\ again \subseteq Accepted

\* "to check that no packet-id (i.e. sequence number + optional timestamp) is
\* accepted more than once" (packet_id.h): whatever the network repeats.
NoReplay == again = {}

\* The id is the variable part of the IV: none is given out twice, also at
\* the end of the id range.
NoReuse == reused = {}

\* The receiver has accepted q of the running sequence after pin was overtaken.
Overtakes(q, pin) == q \in Accepted /\ q.time = pin.time /\ q.id > pin.id

\* Reordering within the window is harmless: a packet is refused only if it
\* was accepted before, fell out of the window or was overtaken too long ago.
WindowIsOpen ==
    seq_backtrack # 0 =>
      \A pin \in wire \ Accepted :
         /\ pin.time = recTime
         /\ pin.id + seq_backtrack > recId
         /\ \A q \in Accepted : Overtakes(q, pin) /\ time_backtrack # Unlimited =>
                                   acceptedAt[q] + time_backtrack >= now
         => packet_id_test(pin)

\* A packet overtaken longer ago than the time window, give or take one reap
\* interval, is refused.
LateIsRefused ==
    time_backtrack # Unlimited =>
      \A pin \in wire : packet_id_test(pin) /\ pin.time = recTime =>
         \A q \in Accepted : Overtakes(q, pin) =>
            acceptedAt[q] + time_backtrack + ReapInterval > now
=============================================================================
