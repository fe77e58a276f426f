---------------------------- MODULE ReplayProofs ----------------------------
(***************************************************************************)
(* Theorems about packet ids and the replay window, for every window, time *)
(* limit, id range and clock.                                              *)
(***************************************************************************)
EXTENDS ReplayWindow, TLAPS

(* The sender: no packet was sent under an id that is still to come.       *)
SentBefore(p, id, time) == p.time < time \/ (p.time = time /\ p.id <= id)

SenderInv ==
    /\ sndTime <= now
    /\ sndId = 0 <=> sndTime = 0
    /\ sndId = 0 => wire = {}
    /\ \A p \in wire : /\ SentBefore(p, sndId, IF long_form THEN sndTime ELSE 0)
                       /\ p.time <= now

(* The receiver: what its highest id, its list and its last reap say of    *)
(* the packets it has accepted.                                            *)

\* The window reaches back to the first id of the sequence, if it can.
WindowInv ==
    /\ time_backtrack # Unlimited => seq_backtrack # 0
    /\ seq_backtrack # 0 => size = IF recId < seq_backtrack THEN recId ELSE seq_backtrack
    /\ last_reap <= now

\* Accepted packets are behind the highest id ...
AcceptedInv ==
    \A p \in Accepted :
       /\ SentBefore(p, recId, recTime)
       /\ acceptedAt[p] \in FirstNow .. now

\* ... and those in the window are listed as accepted or as expired.
ListedInv ==
    \A p \in Accepted :
       p.time = recTime /\ recId - p.id < size =>
          seq_list[recId - p.id] \in {acceptedAt[p], SEQ_EXPIRED}

\* A time in the list is that of an accepted packet, not reaped yet.
SeenAt(d, t) ==
    /\ \E p \in Accepted : p.time = recTime /\ p.id = recId - d /\ acceptedAt[p] = t
    /\ time_backtrack # Unlimited => t + time_backtrack >= last_reap

\* An id is expired when one that is not lower was accepted too long ago.
ExpiredBy(d) ==
    /\ time_backtrack # Unlimited
    /\ \E q \in Accepted : /\ q.time = recTime /\ q.id >= recId - d
                           /\ acceptedAt[q] + time_backtrack < now

EntriesInv ==
    \A d \in 0 .. size - 1 :
       /\ seq_list[d] > SEQ_EXPIRED => SeenAt(d, seq_list[d])
       /\ seq_list[d] = SEQ_EXPIRED => ExpiredBy(d)

\* Whatever is below an expired id is expired.
ClosedInv ==
    \A d, e \in 0 .. size - 1 : e <= d /\ seq_list[e] = SEQ_EXPIRED => seq_list[d] = SEQ_EXPIRED

ReceiverInv == WindowInv /\ AcceptedInv /\ ListedInv /\ EntriesInv /\ ClosedInv

ReplayInv == TypeOK /\ SenderInv /\ ReceiverInv /\ NoReuse /\ NoReplay
-----------------------------------------------------------------------------
(* The sender.                                                             *)

\* Nothing has been sent or accepted at first.
LEMMA InitInv == Init => ReplayInv
  <1> SUFFICES ASSUME Init PROVE ReplayInv
    OBVIOUS
  <1> USE ReplayAssumption DEF Init, packet_id_init, FirstNow, Unlimited
  <1>1. TypeOK
    BY DEF TypeOK, Accepted
  <1>2. SenderInv
    BY DEF SenderInv
  <1>3. ReceiverInv
    BY DEF ReceiverInv, WindowInv, AcceptedInv, ListedInv, EntriesInv, ClosedInv, Accepted
  <1> QED
    BY <1>1, <1>2, <1>3 DEF ReplayInv, NoReuse, NoReplay

\* Time passing makes no id older than the list says.
LEMMA TickInv == ReplayInv /\ Tick => ReplayInv'
  <1> SUFFICES ASSUME ReplayInv, Tick PROVE ReplayInv'
    OBVIOUS
  <1> USE ReplayAssumption DEF Tick, config, sender, receiver, history, ReplayInv
  <1>1. TypeOK'
    BY SMTT(60) DEF TypeOK, FirstNow, Accepted
  <1>2. SenderInv'
    BY DEF TypeOK, SenderInv, SentBefore, Pins, Ids
  <1>3. (WindowInv /\ AcceptedInv)'
    BY DEF ReceiverInv, WindowInv, AcceptedInv, SentBefore, TypeOK, Accepted
  <1>4. ListedInv' /\ ClosedInv'
    BY DEF ReceiverInv, ListedInv, ClosedInv, Accepted
  <1>5. EntriesInv'
    BY SMTT(60) DEF ReceiverInv, EntriesInv, SeenAt, ExpiredBy, Accepted, TypeOK
  <1> QED
    BY <1>1, <1>2, <1>3, <1>4, <1>5 DEF ReceiverInv, NoReuse, NoReplay

\* The next id of the running sequence, or the first id of a later one, is
\* new: packet_id_send_update() rolls over only once time has moved on.
LEMMA SendInv == ReplayInv /\ packet_id_send_update => ReplayInv'
  <1> SUFFICES ASSUME ReplayInv, packet_id_send_update PROVE ReplayInv'
    OBVIOUS
  <1> USE ReplayAssumption DEF ReplayInv
  <1>1. PICK id \in Ids, time \in Nat :
           /\ Send(id, time)
           /\ time \in 1 .. now
           /\ \/ time = sndTime /\ id = sndId + 1
              \/ sndTime < time /\ id = 1 /\ (long_form \/ sndId = 0)
    BY DEF packet_id_send_update, TypeOK, SenderInv, Stamp, Ids, FirstNow
  <1> DEFINE pin == [id |-> id, time |-> IF long_form THEN time ELSE 0]
  <1>2. pin \in Pins /\ pin \notin wire
    BY <1>1 DEF Pins, SenderInv, SentBefore, TypeOK
  <1>3. /\ wire' = wire \cup {pin} /\ reused' = reused
        /\ sndId' = id /\ sndTime' = time
        /\ UNCHANGED <<config, now, receiver, history>>
    BY <1>1, <1>2 DEF Send
  <1> HIDE DEF pin
  <1>4. TypeOK'
    BY <1>1, <1>2, <1>3, SMTT(60) DEF TypeOK, Accepted, config, receiver, history, Ids
  <1>5. SenderInv'
    <2>1. ASSUME NEW p \in wire
          PROVE  SentBefore(p, id, IF long_form THEN time ELSE 0) /\ p.time <= now
      BY <1>1, <2>1 DEF SenderInv, SentBefore, TypeOK, Pins, Ids
    <2>2. SentBefore(pin, id, IF long_form THEN time ELSE 0) /\ pin.time <= now
      BY <1>1 DEF SentBefore, pin, TypeOK, Ids
    <2> QED
      BY <1>1, <1>3, <2>1, <2>2 DEF SenderInv, config, Ids, TypeOK
  <1>6. ReceiverInv'
    BY <1>3 DEF ReceiverInv, WindowInv, AcceptedInv, ListedInv, EntriesInv, ClosedInv, SeenAt,
                ExpiredBy, SentBefore, Accepted, config, receiver, history
  <1> QED
    BY <1>3, <1>4, <1>5, <1>6 DEF NoReuse, NoReplay, history
-----------------------------------------------------------------------------
(* The receiver.                                                           *)

NewReap == IF ReapDue THEN now ELSE last_reap

\* packet_id_reap() turns accepted and unseen ids into expired ones, from an
\* id that is too old down to the end of the list.
LEMMA ReapFacts ==
    ASSUME ReplayInv
    PROVE  /\ Reaped \in [0 .. size - 1 -> Nat]
           /\ \A d \in 0 .. size - 1 :
                /\ Reaped[d] \in {seq_list[d], SEQ_EXPIRED}
                /\ Reaped[d] > SEQ_EXPIRED /\ time_backtrack # Unlimited =>
                      Reaped[d] + time_backtrack >= NewReap
                /\ Reaped[d] = SEQ_EXPIRED => ExpiredBy(d)
           /\ \A d, e \in 0 .. size - 1 : e <= d /\ Reaped[e] = SEQ_EXPIRED => Reaped[d] = SEQ_EXPIRED
  <1> USE ReplayAssumption DEF ReplayInv, ReceiverInv
  <1>0. seq_list \in [0 .. size - 1 -> Nat] /\ size \in Nat /\ now \in Nat /\ time_backtrack \in Nat
        /\ last_reap \in Nat /\ recId \in Nat
    BY DEF TypeOK, Unlimited
  <1>1. Reaped \in [0 .. size - 1 -> Nat]
    BY <1>0 DEF Reaped, SEQ_EXPIRED
  <1>2. ASSUME NEW d \in 0 .. size - 1
        PROVE  Reaped[d] \in {seq_list[d], SEQ_EXPIRED}
    BY <1>0 DEF Reaped
  <1>3. ASSUME NEW d \in 0 .. size - 1, Reaped[d] > SEQ_EXPIRED, time_backtrack # Unlimited
        PROVE  Reaped[d] + time_backtrack >= NewReap
    <2>1. Reaped[d] = seq_list[d] /\ SeenAt(d, seq_list[d])
      BY <1>0, <1>2, <1>3 DEF EntriesInv, SEQ_EXPIRED
    <2>2. CASE ~ ReapDue
      BY <2>1, <2>2, <1>3 DEF NewReap, SeenAt
    <2>3. CASE ReapDue
      <3>1. ~ Expires(d)
        BY <1>0, <1>3, <2>3 DEF Reaped, SEQ_EXPIRED
      <3>2. \A e \in 0 .. d : seq_list[e] # SEQ_EXPIRED
        BY <1>0, <1>3, <2>1 DEF ClosedInv, SEQ_EXPIRED
      <3>3. ~ Old(d)
        BY <1>0, <3>1, <3>2 DEF Expires
      <3> QED
        BY <1>0, <1>3, <2>1, <2>3, <3>3 DEF Old, NewReap, SEQ_EXPIRED, SEQ_UNSEEN
    <2> QED
      BY <2>2, <2>3
  <1>4. ASSUME NEW d \in 0 .. size - 1, Reaped[d] = SEQ_EXPIRED
        PROVE  ExpiredBy(d)
    <2>1. CASE seq_list[d] = SEQ_EXPIRED
      BY <2>1 DEF EntriesInv
    <2>2. CASE seq_list[d] # SEQ_EXPIRED
      <3>1. time_backtrack # Unlimited /\ Expires(d)
        BY <1>0, <1>4, <2>2 DEF Reaped
      <3>2. PICK e \in 0 .. d : Old(e) /\ seq_list[e] # SEQ_EXPIRED
        BY <3>1 DEF Expires
      <3>3. SeenAt(e, seq_list[e]) /\ seq_list[e] + time_backtrack < now
        BY <1>0, <3>2 DEF Old, EntriesInv, SEQ_EXPIRED, SEQ_UNSEEN
      <3>4. PICK q \in Accepted : q.time = recTime /\ q.id = recId - e /\ acceptedAt[q] = seq_list[e]
        BY <3>3 DEF SeenAt
      <3> QED
        BY <1>0, <3>1, <3>3, <3>4 DEF ExpiredBy
    <2> QED
      BY <2>1, <2>2
  <1>5. ASSUME NEW d \in 0 .. size - 1, NEW e \in 0 .. size - 1, e <= d, Reaped[e] = SEQ_EXPIRED
        PROVE  Reaped[d] = SEQ_EXPIRED
    <2>1. CASE seq_list[e] = SEQ_EXPIRED
      <3>1. seq_list[d] = SEQ_EXPIRED
        BY <1>5, <2>1 DEF ClosedInv
      <3> QED
        BY <1>2, <3>1
    <2>2. CASE seq_list[e] # SEQ_EXPIRED /\ seq_list[d] # SEQ_EXPIRED
      <3>1. ReapDue /\ time_backtrack # Unlimited /\ Expires(e)
        BY <1>0, <1>5, <2>2 DEF Reaped
      <3>2. Expires(d)
        BY <1>0, <1>5, <2>2, <3>1 DEF Expires, ClosedInv
      <3> QED
        BY <1>0, <3>1, <3>2 DEF Reaped
    <2>3. CASE seq_list[d] = SEQ_EXPIRED
      BY <1>2, <2>3
    <2> QED
      BY <2>1, <2>2, <2>3
  <1> QED
    BY <1>1, <1>2, <1>3, <1>4, <1>5
\* A packet that was accepted before is refused: its id is behind the highest
\* one and out of the window, or listed there as accepted or expired.
LEMMA AcceptedIsRefused ==
    ASSUME ReplayInv, NEW pin \in Accepted
    PROVE  ~ packet_id_test(pin)
  <1> USE ReplayAssumption DEF ReplayInv, ReceiverInv
  <1>1. /\ pin.id \in Ids /\ pin.time \in Nat /\ recId \in Nat /\ recTime \in Nat /\ size \in Nat
        /\ SentBefore(pin, recId, recTime) /\ acceptedAt[pin] >= FirstNow /\ acceptedAt[pin] \in Nat
    BY DEF TypeOK, Pins, AcceptedInv, FirstNow
  <1>2. ASSUME pin.time = recTime, recId - pin.id < size, pin.id <= recId
        PROVE  Reaped[recId - pin.id] # SEQ_UNSEEN
    <2>1. seq_list[recId - pin.id] \in {acceptedAt[pin], SEQ_EXPIRED}
      BY <1>2 DEF ListedInv
    <2>2. recId - pin.id \in 0 .. size - 1
      BY <1>1, <1>2 DEF Ids
    <2>3. Reaped[recId - pin.id] \in {acceptedAt[pin], SEQ_EXPIRED}
      BY <2>1, <2>2, ReapFacts
    <2> QED
      BY <1>1, <2>3 DEF SEQ_UNSEEN, SEQ_EXPIRED, FirstNow
  <1> QED
    BY <1>1, <1>2 DEF packet_id_test, SentBefore, Ids

\* A refused packet leaves the reaped list.
LEMMA RefuseInv ==
    ASSUME ReplayInv, NEW pin \in wire, Refuse(pin), last_reap' = NewReap,
           UNCHANGED <<config, now, sender, wire, reused>>
    PROVE  ReplayInv'
  <1> USE ReplayAssumption DEF ReplayInv, config, sender, history
  <1>0. /\ UNCHANGED <<recTime, recId, size, acceptedAt, again, seq_backtrack, time_backtrack, long_form, now>>
        /\ Accepted' = Accepted
        /\ seq_list' = Reaped
        /\ last_reap' = NewReap /\ last_reap' \in Nat /\ last_reap' <= now
        /\ seq_list \in [0 .. size - 1 -> Nat] /\ size \in Nat /\ recId \in Nat
    BY DEF Refuse, Accepted, NewReap, TypeOK, ReceiverInv, WindowInv
  <1>1. TypeOK'
    BY <1>0, ReapFacts DEF TypeOK, Accepted
  <1>2. SenderInv'
    BY DEF SenderInv, SentBefore
  <1>3. (WindowInv /\ AcceptedInv)'
    BY <1>0 DEF ReceiverInv, WindowInv, AcceptedInv, SentBefore
  <1>4. ListedInv'
    <2> SUFFICES ASSUME NEW p \in Accepted, p.time = recTime, recId - p.id < size
                 PROVE  Reaped[recId - p.id] \in {acceptedAt[p], SEQ_EXPIRED}
      BY <1>0 DEF ListedInv
    <2>1. recId - p.id \in 0 .. size - 1
      BY <1>0, SMTT(60) DEF ReceiverInv, AcceptedInv, SentBefore, TypeOK, Pins, Ids
    <2>2. seq_list[recId - p.id] \in {acceptedAt[p], SEQ_EXPIRED}
      BY DEF ReceiverInv, ListedInv
    <2> QED
      BY <2>1, <2>2, ReapFacts
  <1>5. EntriesInv'
    <2> SUFFICES ASSUME NEW d \in 0 .. size - 1
                 PROVE  /\ seq_list'[d] > SEQ_EXPIRED => SeenAt(d, seq_list[d])'
                        /\ seq_list'[d] = SEQ_EXPIRED => ExpiredBy(d)'
      BY <1>0 DEF EntriesInv
    <2>1. ExpiredBy(d)' <=> ExpiredBy(d)
      BY <1>0 DEF ExpiredBy
    <2>2. ASSUME Reaped[d] > SEQ_EXPIRED
          PROVE  SeenAt(d, seq_list[d])'
      <3>1. Reaped[d] = seq_list[d] /\ SeenAt(d, seq_list[d])
        BY <1>0, <2>2, ReapFacts DEF ReceiverInv, EntriesInv, SEQ_EXPIRED
      <3>2. time_backtrack # Unlimited => Reaped[d] + time_backtrack >= NewReap
        BY <2>2, ReapFacts
      <3> QED
        BY <1>0, <3>1, <3>2 DEF SeenAt
    <2> QED
      BY <1>0, <2>1, <2>2, ReapFacts
  <1>6. ClosedInv'
    BY <1>0, ReapFacts DEF ClosedInv
  <1> QED
    BY <1>0, <1>1, <1>2, <1>3, <1>4, <1>5, <1>6 DEF ReceiverInv, NoReuse, NoReplay

\* What packet_id_add() makes of the window: after a packet that starts a new
\* list, and after one that moves or meets the present one.
LEMMA AddFacts ==
    ASSUME ReplayInv, NEW pin \in wire, packet_id_test(pin), seq_backtrack # 0
    PROVE  /\ Shift(pin) \in Nat /\ NewId(pin) \in pin.id .. PacketIdMax
           /\ NewSize(pin) = IF NewId(pin) < seq_backtrack THEN NewId(pin) ELSE seq_backtrack
           /\ NewSequence(pin) =>
                /\ NewId(pin) = pin.id
                /\ NewSize(pin) <= Shift(pin)
                /\ \A p \in Accepted : p.time < pin.time \/ (p.time = pin.time /\ p.id + NewSize(pin) <= pin.id)
           /\ ~ NewSequence(pin) =>
                /\ pin.time = recTime
                /\ NewId(pin) = recId + Shift(pin)
                /\ NewSize(pin) <= size + Shift(pin)
                /\ pin.id > recId => NewId(pin) = pin.id
                /\ pin.id <= recId =>
                     /\ Shift(pin) = 0
                     /\ recId - pin.id \in 0 .. size - 1
                     /\ Reaped[recId - pin.id] = SEQ_UNSEEN
  <1> USE ReplayAssumption DEF ReplayInv, ReceiverInv
  <1>1. /\ pin.id \in 1 .. PacketIdMax /\ pin.time \in Nat
        /\ seq_backtrack \in Nat \ {0} /\ recId \in 0 .. PacketIdMax /\ recTime \in Nat
        /\ size = IF recId < seq_backtrack THEN recId ELSE seq_backtrack
        /\ PacketIdMax \in Nat
    BY DEF TypeOK, Pins, Ids, WindowInv
  <1>2. ASSUME NewSequence(pin)
        PROVE  /\ Shift(pin) \in Nat /\ NewId(pin) = pin.id
               /\ NewSize(pin) <= Shift(pin)
               /\ NewSize(pin) = IF pin.id < seq_backtrack THEN pin.id ELSE seq_backtrack
    BY <1>1, <1>2 DEF Shift, NewId, NewSize, BaseId, BaseSize
  <1>3. ASSUME NewSequence(pin), NEW p \in Accepted
        PROVE  p.time < pin.time \/ (p.time = pin.time /\ p.id + NewSize(pin) <= pin.id)
    <2>1. p.id \in 1 .. PacketIdMax /\ p.time \in Nat /\ SentBefore(p, recId, recTime)
      BY DEF TypeOK, Pins, Ids, AcceptedInv
    <2>2. pin.time >= recTime
      BY <1>1 DEF packet_id_test
    <2>3. CASE pin.time > recTime
      BY <1>1, <2>1, <2>3 DEF SentBefore
    <2>4. CASE size = 0
      <3>1. recId = 0
        BY <1>1, <2>4
      <3> QED
        BY <1>1, <2>1, <2>2, <3>1 DEF SentBefore
    <2>5. CASE pin.id >= seq_backtrack /\ pin.id - seq_backtrack > recId
      BY <1>1, <1>2, <1>3, <2>1, <2>2, <2>5 DEF SentBefore
    <2> QED
      BY <1>1, <1>3, <2>2, <2>3, <2>4, <2>5 DEF NewSequence
  <1>4. ASSUME ~ NewSequence(pin)
        PROVE  /\ Shift(pin) = (IF recId < pin.id THEN pin.id - recId ELSE 0)
               /\ NewId(pin) = recId + Shift(pin)
               /\ NewSize(pin) = (IF size + Shift(pin) > seq_backtrack THEN seq_backtrack ELSE size + Shift(pin))
               /\ pin.time = recTime
    BY <1>1, <1>4 DEF Shift, NewId, NewSize, BaseId, BaseSize, NewSequence, packet_id_test
  <1>5. ASSUME ~ NewSequence(pin), pin.id <= recId
        PROVE  recId - pin.id \in 0 .. size - 1 /\ Reaped[recId - pin.id] = SEQ_UNSEEN
    BY <1>1, <1>4, <1>5 DEF packet_id_test
  <1>6. CASE NewSequence(pin)
    BY <1>1, <1>2, <1>3, <1>6
  <1>7. CASE ~ NewSequence(pin)
    BY <1>1, <1>4, <1>5, <1>7
  <1> QED
    BY <1>6, <1>7
\* The history records an accepted packet, which is new.
LEMMA HistoryFacts ==
    ASSUME ReplayInv, NEW pin \in wire, Accept(pin)
    PROVE  /\ pin \notin Accepted /\ again' = again
           /\ Accepted' = Accepted \cup {pin}
           /\ acceptedAt'[pin] = now
           /\ \A p \in Accepted : acceptedAt'[p] = acceptedAt[p]
           /\ acceptedAt' \in [Accepted' -> Nat]
  <1>1. pin \notin Accepted
    BY AcceptedIsRefused DEF Accept
  <1>2. /\ acceptedAt' = [p \in Accepted \cup {pin} |-> IF p = pin THEN now ELSE acceptedAt[p]]
        /\ now \in Nat /\ acceptedAt \in [Accepted -> Nat]
    BY DEF Accept, ReplayInv, TypeOK
  <1>3. again' = again
    BY <1>1 DEF Accept
  <1>4. Accepted' = Accepted \cup {pin}
    BY <1>2 DEF Accepted
  <1>5. ASSUME NEW p \in Accepted
        PROVE  acceptedAt'[p] = acceptedAt[p]
    BY <1>1, <1>2
  <1>6. acceptedAt' \in [Accepted' -> Nat]
    <2>1. \A p \in Accepted \cup {pin} : (IF p = pin THEN now ELSE acceptedAt[p]) \in Nat
      BY <1>2
    <2> QED
      BY <1>2, <1>4, <2>1, Zenon
  <1> QED
    BY <1>1, <1>2, <1>3, <1>4, <1>5, <1>6

\* An accepted packet takes its place in a window, new, moved or as it was.
LEMMA WindowAcceptInv ==
    ASSUME ReplayInv, NEW pin \in wire, Accept(pin), seq_backtrack # 0, last_reap' = NewReap,
           UNCHANGED <<config, now, sender, wire, reused>>
    PROVE  TypeOK' /\ ReceiverInv'
  <1> DEFINE N == NewId(pin)
             S == NewSize(pin)
             sh == Shift(pin)
             L == NewList(pin)
  <1> USE ReplayAssumption DEF ReplayInv
  <1>0. /\ recId' = N /\ size' = S /\ seq_list' = L
        /\ recTime' = IF NewSequence(pin) THEN pin.time ELSE recTime
        /\ UNCHANGED <<seq_backtrack, time_backtrack, long_form, now, sndId, sndTime, wire, reused>>
        /\ packet_id_test(pin)
    BY DEF Accept, packet_id_add, config, sender
  <1>1. /\ pin.id \in 1 .. PacketIdMax /\ pin.time \in Nat
        /\ seq_backtrack \in Nat \ {0} /\ recId \in 0 .. PacketIdMax /\ recTime \in Nat
        /\ size \in Nat /\ now \in Nat /\ now >= FirstNow /\ time_backtrack \in Nat
        /\ last_reap' \in Nat /\ last_reap' <= now
    BY DEF TypeOK, Pins, Ids, Unlimited, NewReap, ReceiverInv, WindowInv
  <1>2. /\ sh \in Nat /\ N \in pin.id .. PacketIdMax
        /\ S = (IF N < seq_backtrack THEN N ELSE seq_backtrack)
    BY <1>0, AddFacts
  <1>3. ASSUME NewSequence(pin)
        PROVE  /\ N = pin.id /\ S <= sh /\ recTime' = pin.time
               /\ \A p \in Accepted : p.time < pin.time \/ (p.time = pin.time /\ p.id + S <= pin.id)
    BY <1>0, <1>3, AddFacts
  <1>4. ASSUME ~ NewSequence(pin)
        PROVE  /\ pin.time = recTime /\ recTime' = recTime
               /\ N = recId + sh /\ S <= size + sh
               /\ pin.id > recId => N = pin.id
               /\ pin.id <= recId => /\ sh = 0 /\ recId - pin.id \in 0 .. size - 1
                                     /\ Reaped[recId - pin.id] = SEQ_UNSEEN
    BY <1>0, <1>4, AddFacts
  <1>5. \A d \in 0 .. S - 1 :
           L[d] = IF d = N - pin.id THEN now ELSE IF d < sh THEN SEQ_UNSEEN ELSE Reaped[d - sh]
    BY DEF NewList
  <1>6. ASSUME NEW d \in 0 .. S - 1, ~ (d < sh)
        PROVE  ~ NewSequence(pin) /\ d - sh \in 0 .. size - 1
    <2>1. ~ NewSequence(pin)
      BY <1>1, <1>2, <1>3, <1>6
    <2> QED
      BY <1>1, <1>2, <1>4, <1>6, <2>1
  <1>7. L \in [0 .. S - 1 -> Nat]
    <2>1. ASSUME NEW d \in 0 .. S - 1
          PROVE  (IF d = N - pin.id THEN now ELSE IF d < sh THEN SEQ_UNSEEN ELSE Reaped[d - sh]) \in Nat
      BY <1>1, <1>6, ReapFacts DEF SEQ_UNSEEN
    <2> QED
      BY <2>1 DEF NewList
  <1> HIDE DEF N, S, sh, L
  <1>8. TypeOK'
    <2>1. recTime' \in Nat
      BY <1>0, <1>1
    <2>2. size' \in 0 .. seq_backtrack' /\ recId' \in 0 .. PacketIdMax
      BY <1>0, <1>1, <1>2
    <2>3. seq_list' \in [0 .. size' - 1 -> Nat]
      BY <1>0, <1>7
    <2>4. (Accepted \subseteq wire)' /\ (again \subseteq Accepted)' /\ (acceptedAt \in [Accepted -> Nat])'
      BY <1>0, HistoryFacts DEF TypeOK
    <2> QED
      BY <1>0, <1>1, <2>1, <2>2, <2>3, <2>4 DEF TypeOK
  <1>9. WindowInv'
    BY <1>0, <1>1, <1>2 DEF WindowInv, ReceiverInv
  <1>10. AcceptedInv'
    <2>1. acceptedAt'[pin] \in FirstNow .. now
      BY <1>1, HistoryFacts DEF FirstNow
    <2>2. SentBefore(pin, N, recTime')
      BY <1>0, <1>1, <1>2, <1>3, <1>4 DEF SentBefore
    <2>3. ASSUME NEW p \in Accepted
          PROVE  SentBefore(p, N, recTime') /\ acceptedAt'[p] \in FirstNow .. now
      <3>1. SentBefore(p, recId, recTime) /\ acceptedAt[p] \in FirstNow .. now
        BY DEF ReceiverInv, AcceptedInv
      <3>2. p.id \in 1 .. PacketIdMax /\ p.time \in Nat
        BY DEF TypeOK, Pins, Ids
      <3>3. S \in Nat
        BY <1>1, <1>2
      <3> QED
        BY <1>1, <1>2, <1>3, <1>4, <3>1, <3>2, <3>3, HistoryFacts DEF SentBefore
    <2> QED
      BY <1>0, <2>1, <2>2, <2>3, HistoryFacts DEF AcceptedInv, SentBefore
  <1>11. ListedInv'
    <2> SUFFICES ASSUME NEW p \in Accepted \cup {pin}, p.time = recTime', N - p.id < S
                 PROVE  L[N - p.id] \in {acceptedAt'[p], SEQ_EXPIRED}
      BY <1>0, HistoryFacts DEF ListedInv
    <2>1. CASE p = pin
      <3>1. N - pin.id \in 0 .. S - 1
        BY <1>1, <1>2, <2>1
      <3> QED
        BY <1>5, <2>1, <3>1, HistoryFacts
    <2>2. CASE p # pin
      <3>1. p \in Accepted /\ p.id \in 1 .. PacketIdMax /\ SentBefore(p, recId, recTime) /\ p \in Pins
        BY <2>2 DEF TypeOK, Pins, Ids, ReceiverInv, AcceptedInv
      <3>2. ~ NewSequence(pin)
        BY <1>1, <1>2, <1>3, <3>1
      <3>3. recId - p.id \in 0 .. size - 1 /\ N - p.id = recId - p.id + sh /\ N - p.id \in 0 .. S - 1
        BY <1>1, <1>2, <1>4, <3>1, <3>2 DEF SentBefore
      <3>4. p.id # pin.id
        BY <1>4, <2>2, <3>1, <3>2, SMTT(60) DEF Pins, TypeOK
      <3>5. L[N - p.id] = Reaped[recId - p.id]
        BY <1>1, <1>2, <1>5, <3>1, <3>3, <3>4
      <3>6. seq_list[recId - p.id] \in {acceptedAt[p], SEQ_EXPIRED}
        BY <1>1, <1>4, <3>1, <3>2, <3>3 DEF ReceiverInv, ListedInv
      <3> QED
        BY <3>1, <3>3, <3>5, <3>6, ReapFacts, HistoryFacts
    <2> QED
      BY <2>1, <2>2
  <1>12. EntriesInv'
    <2> SUFFICES ASSUME NEW d \in 0 .. S - 1
                 PROVE  /\ L[d] > SEQ_EXPIRED => SeenAt(d, seq_list[d])'
                        /\ L[d] = SEQ_EXPIRED => ExpiredBy(d)'
      BY <1>0 DEF EntriesInv
    <2>1. CASE d = N - pin.id
      <3>1. L[d] = now /\ pin.id = N - d /\ pin.time = recTime'
        BY <1>1, <1>2, <1>3, <1>4, <1>5, <2>1
      <3>2. now # SEQ_EXPIRED
        BY <1>1 DEF FirstNow, SEQ_EXPIRED
      <3>3. pin \in Accepted' /\ acceptedAt'[pin] = seq_list'[d] /\ pin.id = recId' - d
        BY <1>0, <3>1, HistoryFacts
      <3>4. seq_list'[d] + time_backtrack' >= last_reap'
        BY <1>0, <1>1, <3>1
      <3> QED
        BY <1>0, <3>1, <3>2, <3>3, <3>4 DEF SeenAt
    <2>2. CASE d # N - pin.id /\ d < sh
      BY <1>5, <2>2 DEF SEQ_UNSEEN, SEQ_EXPIRED
    <2>3. CASE d # N - pin.id /\ ~ (d < sh)
      <3>1. L[d] = Reaped[d - sh] /\ d - sh \in 0 .. size - 1 /\ recTime' = recTime /\ N = recId + sh
        BY <1>4, <1>5, <1>6, <2>3
      <3>2. ASSUME L[d] > SEQ_EXPIRED
            PROVE  SeenAt(d, seq_list[d])'
        <4>1. L[d] = seq_list[d - sh] /\ SeenAt(d - sh, seq_list[d - sh])
          BY <3>1, <3>2, ReapFacts DEF ReceiverInv, EntriesInv, SEQ_EXPIRED
        <4>2. PICK p \in Accepted : p.time = recTime /\ p.id = recId - (d - sh) /\ acceptedAt[p] = L[d]
          BY <4>1 DEF SeenAt
        <4>3. p.id = N - d
          BY <1>1, <1>2, <3>1, <4>2
        <4>4. time_backtrack # Unlimited => L[d] + time_backtrack >= NewReap
          BY <3>1, <3>2, ReapFacts
        <4> QED
          BY <1>0, <3>1, <4>2, <4>3, <4>4, HistoryFacts DEF SeenAt
      <3>3. ASSUME L[d] = SEQ_EXPIRED
            PROVE  ExpiredBy(d)'
        <4>1. ExpiredBy(d - sh)
          BY <3>1, <3>3, ReapFacts
        <4>2. PICK q \in Accepted : /\ q.time = recTime /\ q.id >= recId - (d - sh)
                                    /\ acceptedAt[q] + time_backtrack < now
          BY <4>1 DEF ExpiredBy
        <4>3. q.id >= N - d
          BY <1>1, <1>2, <3>1, <4>2
        <4> QED
          BY <1>0, <3>1, <4>1, <4>2, <4>3, HistoryFacts DEF ExpiredBy
      <3> QED
        BY <3>2, <3>3
    <2> QED
      BY <2>1, <2>2, <2>3
  <1>13. ClosedInv'
    <2> SUFFICES ASSUME NEW d \in 0 .. S - 1, NEW e \in 0 .. S - 1, e <= d, L[e] = SEQ_EXPIRED
                 PROVE  L[d] = SEQ_EXPIRED
      BY <1>0 DEF ClosedInv
    <2>1. e # N - pin.id /\ ~ (e < sh)
      BY <1>1, <1>5 DEF FirstNow, SEQ_UNSEEN, SEQ_EXPIRED
    <2>2. Reaped[e - sh] = SEQ_EXPIRED /\ e - sh \in 0 .. size - 1 /\ ~ (d < sh) /\ d - sh \in 0 .. size - 1
      BY <1>2, <1>5, <1>6, <2>1
    <2>3. ~ NewSequence(pin)
      BY <1>6, <2>1
    <2>4. Reaped[d - sh] = SEQ_EXPIRED
      BY <1>2, <2>2, ReapFacts
    <2>5. d # N - pin.id
      <3>1. CASE pin.id > recId
        BY <1>1, <1>2, <1>4, <2>2, <2>3, <3>1, <2>1
      <3>2. CASE pin.id <= recId
        <4>1. sh = 0 /\ N = recId /\ Reaped[recId - pin.id] = SEQ_UNSEEN
          BY <1>1, <1>4, <2>3, <3>2
        <4> QED
          BY <1>1, <2>4, <4>1 DEF SEQ_UNSEEN, SEQ_EXPIRED
      <3> QED
        BY <1>1, <3>1, <3>2
    <2> QED
      BY <1>5, <2>2, <2>4, <2>5
  <1> QED
    BY <1>8, <1>9, <1>10, <1>11, <1>12, <1>13 DEF ReceiverInv
\* Without a window (TCP) only the next id in sequence is accepted.
LEMMA SequenceAcceptInv ==
    ASSUME ReplayInv, NEW pin \in wire, Accept(pin), seq_backtrack = 0, last_reap' = NewReap,
           UNCHANGED <<config, now, sender, wire, reused>>
    PROVE  TypeOK' /\ ReceiverInv'
  <1> USE ReplayAssumption DEF ReplayInv
  <1>0. /\ recId' = pin.id /\ recTime' = pin.time
        /\ UNCHANGED <<size, seq_list, seq_backtrack, time_backtrack, long_form, now, sndId, sndTime, wire, reused>>
        /\ packet_id_test(pin)
    BY DEF Accept, packet_id_add, config, sender
  <1>1. /\ pin.id \in 1 .. PacketIdMax /\ pin.time \in Nat /\ size = 0
        /\ recId \in 0 .. PacketIdMax /\ recTime \in Nat /\ now \in Nat /\ now >= FirstNow
        /\ last_reap' \in Nat /\ last_reap' <= now
        /\ recTime <= pin.time /\ (recTime = pin.time => recId < pin.id)
    BY <1>0 DEF TypeOK, Pins, Ids, NewReap, ReceiverInv, WindowInv, packet_id_test
  <1>2. TypeOK'
    BY <1>0, <1>1, HistoryFacts DEF TypeOK
  <1>3. WindowInv'
    BY <1>0, <1>1 DEF WindowInv, ReceiverInv
  <1>4. AcceptedInv'
    <2>1. acceptedAt'[pin] \in FirstNow .. now /\ SentBefore(pin, pin.id, pin.time)
      BY <1>1, HistoryFacts DEF FirstNow, SentBefore
    <2>2. ASSUME NEW p \in Accepted
          PROVE  SentBefore(p, pin.id, pin.time) /\ acceptedAt'[p] \in FirstNow .. now
      BY <1>1, HistoryFacts, SMTT(60) DEF ReceiverInv, AcceptedInv, SentBefore, TypeOK, Pins, Ids
    <2> QED
      BY <1>0, <2>1, <2>2, HistoryFacts DEF AcceptedInv, SentBefore
  <1>5. EntriesInv' /\ ClosedInv'
    BY <1>0, <1>1 DEF EntriesInv, ClosedInv
  <1>6. ListedInv'
    <2>1. \A p \in Accepted' : p.time = recTime' => p.id <= recId'
      BY <1>0, <1>1, <1>4 DEF AcceptedInv, SentBefore
    <2>2. \A p \in Accepted' : p.id \in Nat
      BY <1>0, <1>1, <1>2 DEF TypeOK, Pins, Ids
    <2> QED
      BY <1>0, <1>1, <2>1, <2>2 DEF ListedInv
  <1> QED
    BY <1>2, <1>3, <1>4, <1>5, <1>6 DEF ReceiverInv

\* Every step keeps the invariant.
LEMMA NextInv == ReplayInv /\ [Next]_vars => ReplayInv'
  <1> SUFFICES ASSUME ReplayInv, [Next]_vars PROVE ReplayInv'
    OBVIOUS
  <1>1. CASE Tick
    BY <1>1, TickInv
  <1>2. CASE packet_id_send_update
    BY <1>2, SendInv
  <1>3. ASSUME NEW pin \in wire, crypto_check_replay(pin)
        PROVE  ReplayInv'
    <2>1. last_reap' = NewReap /\ UNCHANGED <<config, now, sender, wire, reused>>
      BY <1>3 DEF crypto_check_replay, NewReap
    <2>2. CASE Refuse(pin)
      BY <2>1, <2>2, RefuseInv
    <2>3. CASE Accept(pin)
      <3>1. TypeOK' /\ ReceiverInv'
        BY <2>1, <2>3, WindowAcceptInv, SequenceAcceptInv
      <3>2. SenderInv'
        BY <2>1 DEF ReplayInv, SenderInv, SentBefore, sender, config
      <3>3. again' = again /\ reused' = reused
        BY <2>1, <2>3, HistoryFacts
      <3> QED
        BY <3>1, <3>2, <3>3 DEF ReplayInv, NoReplay, NoReuse
    <2> QED
      BY <1>3, <2>2, <2>3 DEF crypto_check_replay
  <1>4. CASE UNCHANGED vars
    BY <1>4 DEF vars, config, sender, receiver, history, ReplayInv, TypeOK, Accepted, SenderInv,
                SentBefore, ReceiverInv, WindowInv, AcceptedInv, ListedInv, EntriesInv, SeenAt,
                ExpiredBy, ClosedInv, NoReuse, NoReplay
  <1> QED
    BY <1>1, <1>2, <1>3, <1>4 DEF Next

\* The invariant holds in every reachable state.
LEMMA Invariance == Spec => []ReplayInv
  BY InitInv, NextInv, PTL DEF Spec

\* A packet that the window still covers and that was not overtaken too long
\* ago passes packet_id_test().
LEMMA OpenFromInv == ReplayInv => WindowIsOpen
  <1> SUFFICES ASSUME ReplayInv, seq_backtrack # 0, NEW pin \in wire \ Accepted,
                      pin.time = recTime, pin.id + seq_backtrack > recId,
                      \A q \in Accepted : Overtakes(q, pin) /\ time_backtrack # Unlimited =>
                                             acceptedAt[q] + time_backtrack >= now
               PROVE  packet_id_test(pin)
    BY DEF WindowIsOpen
  <1> USE ReplayAssumption DEF ReplayInv, ReceiverInv
  <1>1. /\ pin.id \in 1 .. PacketIdMax /\ pin.time \in Nat /\ pin \in Pins
        /\ seq_backtrack \in Nat \ {0} /\ recId \in 0 .. PacketIdMax /\ recTime \in Nat
        /\ size = IF recId < seq_backtrack THEN recId ELSE seq_backtrack
        /\ time_backtrack \in Nat /\ now \in Nat
    BY DEF TypeOK, Pins, Ids, WindowInv, Unlimited
  <1>2. CASE pin.id > recId
    BY <1>1, <1>2 DEF packet_id_test
  <1>3. CASE pin.id <= recId
    <2> DEFINE d == recId - pin.id
    <2>1. d \in 0 .. size - 1
      BY <1>1, <1>3
    <2>2. Reaped[d] # SEQ_EXPIRED
      <3> SUFFICES ASSUME ExpiredBy(d) PROVE FALSE
        BY <2>1, ReapFacts
      <3>1. PICK q \in Accepted : /\ q.time = recTime /\ q.id >= recId - d
                                  /\ acceptedAt[q] + time_backtrack < now
        BY DEF ExpiredBy
      <3>2. q \in Pins /\ q # pin /\ acceptedAt[q] \in Nat
        BY DEF TypeOK, AcceptedInv, FirstNow
      <3>3. q.id # pin.id
        BY <1>1, <3>1, <3>2 DEF Pins
      <3>4. Overtakes(q, pin)
        BY <1>1, <3>1, <3>2, <3>3 DEF Overtakes, Pins, Ids
      <3> QED
        BY <1>1, <3>1, <3>2, <3>4 DEF ExpiredBy
    <2>3. ~ (Reaped[d] > SEQ_EXPIRED)
      <3> SUFFICES ASSUME Reaped[d] > SEQ_EXPIRED PROVE FALSE
        OBVIOUS
      <3>1. SeenAt(d, seq_list[d])
        BY <2>1, ReapFacts DEF EntriesInv, SEQ_EXPIRED
      <3>2. PICK q \in Accepted : q.time = recTime /\ q.id = recId - d
        BY <3>1 DEF SeenAt
      <3>3. q \in Pins /\ q.id = pin.id
        BY <1>1, <3>2 DEF TypeOK
      <3> QED
        BY <1>1, <3>2, <3>3 DEF Pins
    <2>4. Reaped[d] = SEQ_UNSEEN
      BY <2>1, <2>2, <2>3, ReapFacts DEF SEQ_UNSEEN, SEQ_EXPIRED
    <2> QED
      BY <1>1, <1>3, <2>1, <2>4 DEF packet_id_test
  <1> QED
    BY <1>1, <1>2, <1>3

\* A packet that passes was not overtaken longer ago than the time limit and
\* one reap interval.
LEMMA LateFromInv == ReplayInv => LateIsRefused
  <1> SUFFICES ASSUME ReplayInv, time_backtrack # Unlimited, NEW pin \in wire, packet_id_test(pin),
                      pin.time = recTime, NEW q \in Accepted, Overtakes(q, pin)
               PROVE  acceptedAt[q] + time_backtrack + ReapInterval > now
    BY DEF LateIsRefused
  <1> USE ReplayAssumption DEF ReplayInv, ReceiverInv
  <1>1. /\ pin.id \in 1 .. PacketIdMax /\ pin.time \in Nat /\ q.id \in 1 .. PacketIdMax
        /\ q.time = recTime /\ q.id > pin.id /\ q.id <= recId
        /\ seq_backtrack # 0 /\ recId \in 0 .. PacketIdMax /\ size \in Nat
        /\ acceptedAt[q] \in Nat /\ acceptedAt[q] >= FirstNow
        /\ time_backtrack \in Nat /\ now \in Nat /\ last_reap \in Nat /\ ReapInterval \in Nat \ {0}
    BY DEF TypeOK, Pins, Ids, WindowInv, AcceptedInv, Unlimited, Overtakes, SentBefore, FirstNow
  <1>2. recId - pin.id \in 0 .. size - 1 /\ Reaped[recId - pin.id] = SEQ_UNSEEN
    BY <1>1 DEF packet_id_test
  <1>3. recId - q.id \in 0 .. size - 1 /\ recId - q.id <= recId - pin.id
    BY <1>1, <1>2
  <1>4. Reaped[recId - q.id] # SEQ_EXPIRED
    BY <1>2, <1>3, ReapFacts DEF SEQ_UNSEEN, SEQ_EXPIRED
  <1>5. Reaped[recId - q.id] = acceptedAt[q]
    <2>1. seq_list[recId - q.id] \in {acceptedAt[q], SEQ_EXPIRED}
      BY <1>1, <1>3 DEF ListedInv
    <2> QED
      BY <1>3, <1>4, <2>1, ReapFacts
  <1>6. acceptedAt[q] + time_backtrack >= NewReap
    BY <1>1, <1>3, <1>5, ReapFacts, SMTT(60) DEF FirstNow, SEQ_EXPIRED
  <1> QED
    BY <1>1, <1>6 DEF NewReap, ReapDue
-----------------------------------------------------------------------------
\* Type correctness: over sequences, jumps and rollovers the window stays
\* within the list packet_id_init() allocates and the ids within their range.
THEOREM TypeCorrect == Spec => []TypeOK
  <1>1. ReplayInv => TypeOK
    BY DEF ReplayInv
  <1> QED
    BY <1>1, Invariance, PTL

\* packet_id_send_update() gives out no id twice under one key, in long or
\* short form, also where the id range ends.
THEOREM IdsAreNeverReused == Spec => []NoReuse
  <1>1. ReplayInv => NoReuse
    BY DEF ReplayInv
  <1> QED
    BY <1>1, Invariance, PTL

\* crypto_check_replay() accepts no packet twice, whatever the network
\* repeats and reorders and whatever is reaped, with and without a window.
THEOREM NothingIsReplayed == Spec => []NoReplay
  <1>1. ReplayInv => NoReplay
    BY DEF ReplayInv
  <1> QED
    BY <1>1, Invariance, PTL

\* Reordering within the window never costs a packet.
THEOREM WindowStaysOpen == Spec => []WindowIsOpen
  BY OpenFromInv, Invariance, PTL

\* The time limit of the window is kept to within one reap interval.
THEOREM LatePacketsAreRefused == Spec => []LateIsRefused
  BY LateFromInv, Invariance, PTL
=============================================================================
