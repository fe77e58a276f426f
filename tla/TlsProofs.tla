------------------------------ MODULE TlsProofs ------------------------------
(***************************************************************************)
(* Theorems about the sessions and keys of a client, for every length of   *)
(* the negotiation, transition and renegotiation times.                    *)
(***************************************************************************)
EXTENDS TlsSessions, TLAPS

USE DEF S_ERROR, S_UNDEF, S_INITIAL, S_PRE_START, S_SENT_KEY, S_GOT_KEY, S_ACTIVE,
        S_GENERATED_KEYS, NotSet

(* A session to which a packet can be routed is initialised.               *)
Routable ==
    \A i \in {"TM_ACTIVE", "TM_UNTRUSTED"} :
       i = "TM_ACTIVE" \/ ~ single_session => session[i].primary.state >= S_INITIAL

(* A lame duck key was a working key and has an end.                       *)
LameDuckInv(s) ==
    /\ s.lame.state \in {S_UNDEF, S_GENERATED_KEYS}
    /\ s.lame.state >= S_INITIAL => s.lame.die # NotSet

(* Data channel keys are only made once the tunnel is up.                  *)
KeysNeedTunnel ==
    multi_state # "CAS_CONNECT_DONE" =>
       \A i \in TM : ~ Usable(session[i].primary) /\ ~ Usable(session[i].lame)

(* An untrusted session without a peer has not begun to negotiate.         *)
UntrustedInv(s) == s.linked \/ s.primary.state <= S_INITIAL

TlsInv ==
    /\ TypeOK
    /\ ~ ExpansionMayFail => Routable
    /\ session["TM_LAME_DUCK"].primary.state < S_INITIAL
    /\ \A i \in TM : LameDuckInv(session[i])
    /\ KeysNeedTunnel
    /\ UntrustedInv(session["TM_UNTRUSTED"])
    /\ NoNeedlessRestart
-----------------------------------------------------------------------------
(* Keys.                                                                   *)

\* The constructors of a key.
LEMMA NewKeys == UndefKey \in KeyState /\ key_state_init \in KeyState /\ key_state_init.state = S_INITIAL
                 /\ UndefKey.state = S_UNDEF
  BY WindowsAssumption DEF UndefKey, key_state_init, KeyState

\* Setting several fields of a key.
LEMMA FieldFacts ==
    ASSUME NEW S, NEW N, NEW R, NEW D, NEW k \in [state : S, negotiate : N, renegotiate : R, die : D],
           NEW s \in S, NEW n \in N, NEW r \in R
    PROVE  /\ LET x == [k EXCEPT !.state = s, !.negotiate = n]
              IN  /\ x \in [state : S, negotiate : N, renegotiate : R, die : D]
                  /\ x.state = s /\ x.negotiate = n
           /\ LET x == [k EXCEPT !.state = s, !.negotiate = n, !.renegotiate = r]
              IN  /\ x \in [state : S, negotiate : N, renegotiate : R, die : D]
                  /\ x.state = s
  OBVIOUS

\* What may be done to a key.
LEMMA KeyTypes ==
    ASSUME NEW k \in KeyState
    PROVE  /\ \A x \in S_ERROR .. S_GENERATED_KEYS :
                 [k EXCEPT !.state = x] \in KeyState /\ [k EXCEPT !.state = x].state = x
           /\ /\ [k EXCEPT !.die = TransitionWindow] \in KeyState
              /\ [k EXCEPT !.die = TransitionWindow].state = k.state
              /\ [k EXCEPT !.die = TransitionWindow].die = TransitionWindow
           /\ /\ session_move_pre_start(k) \in KeyState
              /\ session_move_pre_start(k).state = S_PRE_START
              /\ session_move_pre_start(k).negotiate = HandshakeWindow
           /\ session_move_active(k) \in KeyState /\ session_move_active(k).state = S_ACTIVE
           /\ Failed(k) \in KeyState /\ Failed(k).state = S_ERROR
           /\ k.state \in S_ERROR .. S_GENERATED_KEYS
  <1>1. /\ k.state \in S_ERROR .. S_GENERATED_KEYS
        /\ \A x \in S_ERROR .. S_GENERATED_KEYS :
              [k EXCEPT !.state = x] \in KeyState /\ [k EXCEPT !.state = x].state = x
    BY DEF KeyState
  <1>2. /\ [k EXCEPT !.die = TransitionWindow] \in KeyState
        /\ [k EXCEPT !.die = TransitionWindow].state = k.state
        /\ [k EXCEPT !.die = TransitionWindow].die = TransitionWindow
    BY WindowsAssumption DEF KeyState
  <1>3. /\ session_move_pre_start(k) \in KeyState
        /\ session_move_pre_start(k).state = S_PRE_START
        /\ session_move_pre_start(k).negotiate = HandshakeWindow
    <2>1. /\ S_PRE_START \in S_ERROR .. S_GENERATED_KEYS
          /\ HandshakeWindow \in NotSet .. HandshakeWindow /\ NotSet \in NotSet .. RenegSeconds
      BY WindowsAssumption
    <2> QED
      BY <2>1, FieldFacts, Zenon DEF KeyState, session_move_pre_start
  <1>4. session_move_active(k) \in KeyState /\ session_move_active(k).state = S_ACTIVE
    <2> DEFINE g == IF RenegSeconds = 0 THEN NotSet ELSE RenegSeconds
    <2>1. /\ S_ACTIVE \in S_ERROR .. S_GENERATED_KEYS
          /\ g \in NotSet .. RenegSeconds /\ NotSet \in NotSet .. HandshakeWindow
      BY WindowsAssumption
    <2> QED
      BY <2>1, FieldFacts, Zenon DEF KeyState, session_move_active
  <1>5. Failed(k) \in KeyState /\ Failed(k).state = S_ERROR
    BY DEF KeyState, Failed
  <1> QED
    BY <1>1, <1>2, <1>3, <1>4, <1>5

\* Time leaves the state of a key, and an end that is set stays set.
LEMMA TimeFacts ==
    ASSUME NEW k \in KeyState
    PROVE  /\ LessTime(k) \in KeyState /\ LessTime(k).state = k.state
           /\ LessTime(k).die = Off(k.die)
           /\ k.die # NotSet => LessTime(k).die # NotSet
  <1>1. \A n \in Nat : \A t \in NotSet .. n : Off(t) \in NotSet .. n /\ (t # NotSet => Off(t) # NotSet)
    BY DEF Off
  <1>2. /\ k.negotiate \in NotSet .. HandshakeWindow /\ k.renegotiate \in NotSet .. RenegSeconds
        /\ k.die \in NotSet .. TransitionWindow
    BY DEF KeyState
  <1>3. /\ Off(k.negotiate) \in NotSet .. HandshakeWindow
        /\ Off(k.renegotiate) \in NotSet .. RenegSeconds
        /\ Off(k.die) \in NotSet .. TransitionWindow
        /\ k.die # NotSet => Off(k.die) # NotSet
    BY <1>1, <1>2, WindowsAssumption
  <1>4. LessTime(k) \in KeyState /\ LessTime(k).state = k.state /\ LessTime(k).die = Off(k.die)
    BY <1>3 DEF KeyState, LessTime
  <1> QED
    BY <1>3, <1>4

\* How far tls_process_state() takes a key: never to a data channel key, and
\* a key that has one is kept or fails.
LEMMA ProcessStateFacts ==
    ASSUME NEW k \in KeyState, NEW heard \in BOOLEAN, NEW x \in tls_process_state(k, heard)
    PROVE  /\ x \in KeyState
           /\ Usable(x) => Usable(k)
           /\ Usable(k) => Usable(x) \/ x.state = S_ERROR
           /\ k.state >= S_INITIAL => x.state = S_ERROR \/ x.state >= S_PRE_START
  <1> DEFINE k1 == IF k.state = S_INITIAL THEN session_move_pre_start(k) ELSE k
  <1>1. k1 \in KeyState /\ k1.state \in S_ERROR .. S_GENERATED_KEYS
    BY KeyTypes
  <1>2. /\ k1.state = (IF k.state = S_INITIAL THEN S_PRE_START ELSE k.state)
        /\ k.state \in S_ERROR .. S_GENERATED_KEYS
    BY KeyTypes
  <1>3. tls_process_state(k, heard) =
          IF TimedOut(k1) THEN {Failed(k1)} ELSE IF heard THEN Reachable(k1) \cup {Failed(k1)} ELSE {k1}
    BY DEF tls_process_state
  <1> HIDE DEF k1
  <1>4. CASE x = Failed(k1)
    <2>1. x \in KeyState /\ x.state = S_ERROR
      BY <1>1, <1>4, KeyTypes
    <2> QED
      BY <2>1 DEF Usable
  <1>5. CASE x \in Reachable(k1) \/ x = k1
    <2>1. \/ x = k1
          \/ k1.state = S_PRE_START /\ x = [k1 EXCEPT !.state = S_SENT_KEY]
          \/ k1.state = S_SENT_KEY /\ x \in {[k1 EXCEPT !.state = S_GOT_KEY], session_move_active(k1)}
          \/ k1.state = S_GOT_KEY /\ x = session_move_active(k1)
      <3>1. CASE k1.state = S_PRE_START
        BY <1>5, <3>1 DEF Reachable
      <3>2. CASE k1.state = S_SENT_KEY
        BY <1>5, <3>2 DEF Reachable
      <3>3. CASE k1.state = S_GOT_KEY
        BY <1>5, <3>3 DEF Reachable
      <3>4. CASE k1.state \notin {S_PRE_START, S_SENT_KEY, S_GOT_KEY}
        BY <1>5, <3>4 DEF Reachable
      <3> QED
        BY <3>1, <3>2, <3>3, <3>4
    <2>2. /\ [k1 EXCEPT !.state = S_SENT_KEY] \in KeyState
          /\ [k1 EXCEPT !.state = S_SENT_KEY].state = S_SENT_KEY
          /\ [k1 EXCEPT !.state = S_GOT_KEY] \in KeyState
          /\ [k1 EXCEPT !.state = S_GOT_KEY].state = S_GOT_KEY
          /\ session_move_active(k1) \in KeyState /\ session_move_active(k1).state = S_ACTIVE
      <3>1. S_SENT_KEY \in S_ERROR .. S_GENERATED_KEYS /\ S_GOT_KEY \in S_ERROR .. S_GENERATED_KEYS
        OBVIOUS
      <3> QED
        BY <1>1, <3>1, KeyTypes, Zenon
    <2>3. /\ x \in KeyState
          /\ \/ x.state = k1.state
             \/ k1.state \in S_PRE_START .. S_GOT_KEY /\ x.state \in S_SENT_KEY .. S_ACTIVE
      <3>1. CASE x = k1
        BY <1>1, <3>1
      <3>2. CASE k1.state = S_PRE_START /\ x = [k1 EXCEPT !.state = S_SENT_KEY]
        <4>1. x \in KeyState /\ x.state = S_SENT_KEY
          BY <2>2, <3>2, Zenon
        <4> QED
          BY <3>2, <4>1
      <3>3. CASE k1.state \in {S_SENT_KEY, S_GOT_KEY} /\ x = session_move_active(k1)
        <4>1. x \in KeyState /\ x.state = S_ACTIVE
          BY <2>2, <3>3, Zenon
        <4> QED
          BY <3>3, <4>1
      <3>4. CASE k1.state = S_SENT_KEY /\ x = [k1 EXCEPT !.state = S_GOT_KEY]
        <4>1. x \in KeyState /\ x.state = S_GOT_KEY
          BY <2>2, <3>4, Zenon
        <4> QED
          BY <3>4, <4>1
      <3> QED
        BY <2>1, <3>1, <3>2, <3>3, <3>4
    <2> QED
      BY <1>2, <2>3 DEF Usable
  <1> QED
    BY <1>3, <1>4, <1>5
-----------------------------------------------------------------------------
(* Sessions.                                                               *)

\* A session with another key, or another peer, is a session.
LEMMA RecordFacts ==
    ASSUME NEW K, NEW D, NEW s \in [primary : K, lame : K, linked : D], NEW k \in K, NEW j \in K,
           NEW d \in D
    PROVE  /\ s.primary \in K /\ s.lame \in K /\ s.linked \in D
           /\ /\ [s EXCEPT !.primary = k] \in [primary : K, lame : K, linked : D]
              /\ [s EXCEPT !.primary = k].primary = k /\ [s EXCEPT !.primary = k].lame = s.lame
              /\ [s EXCEPT !.primary = k].linked = s.linked
           /\ /\ [s EXCEPT !.lame = k] \in [primary : K, lame : K, linked : D]
              /\ [s EXCEPT !.lame = k].lame = k /\ [s EXCEPT !.lame = k].primary = s.primary
              /\ [s EXCEPT !.lame = k].linked = s.linked
           /\ LET x == [s EXCEPT !.lame = k, !.primary = j]
              IN  /\ x \in [primary : K, lame : K, linked : D]
                  /\ x.lame = k /\ x.primary = j /\ x.linked = s.linked
           /\ /\ [s EXCEPT !.linked = d] \in [primary : K, lame : K, linked : D]
              /\ [s EXCEPT !.linked = d].primary = s.primary /\ [s EXCEPT !.linked = d].lame = s.lame
              /\ [s EXCEPT !.linked = d].linked = d
  OBVIOUS

LEMMA SessionFacts ==
    \A s \in Session : s.primary \in KeyState /\ s.lame \in KeyState /\ s.linked \in BOOLEAN
  BY DEF Session

\* Setting the primary key.
LEMMA SetPrimary ==
    ASSUME NEW s \in Session, NEW k \in KeyState
    PROVE  /\ [s EXCEPT !.primary = k] \in Session
           /\ [s EXCEPT !.primary = k].primary = k
           /\ [s EXCEPT !.primary = k].lame = s.lame
           /\ [s EXCEPT !.primary = k].linked = s.linked
  <1>1. TRUE \in BOOLEAN
    OBVIOUS
  <1> QED
    BY <1>1, RecordFacts, Zenon DEF Session

\* Setting the lame duck key.
LEMMA SetLame ==
    ASSUME NEW s \in Session, NEW k \in KeyState
    PROVE  /\ [s EXCEPT !.lame = k] \in Session
           /\ [s EXCEPT !.lame = k].lame = k
           /\ [s EXCEPT !.lame = k].primary = s.primary
           /\ [s EXCEPT !.lame = k].linked = s.linked
  <1>1. TRUE \in BOOLEAN
    OBVIOUS
  <1> QED
    BY <1>1, RecordFacts, Zenon DEF Session

\* Linking a session to its peer.
LEMMA SetLinked ==
    ASSUME NEW s \in Session
    PROVE  /\ [s EXCEPT !.linked = TRUE] \in Session
           /\ [s EXCEPT !.linked = TRUE].primary = s.primary
           /\ [s EXCEPT !.linked = TRUE].lame = s.lame
           /\ [s EXCEPT !.linked = TRUE].linked
  <1>1. TRUE \in BOOLEAN /\ UndefKey \in KeyState
    BY NewKeys
  <1> QED
    BY <1>1, RecordFacts, Zenon DEF Session

\* The constructors of a session.
LEMMA NewSessions ==
    /\ UndefSession \in Session /\ tls_session_init \in Session
    /\ UndefSession.primary = UndefKey /\ UndefSession.lame = UndefKey
    /\ tls_session_init.primary = key_state_init /\ tls_session_init.lame = UndefKey
    /\ ~ UndefSession.linked /\ ~ tls_session_init.linked
  <1>1. UndefSession \in Session
    BY NewKeys, Zenon DEF UndefSession, Session
  <1>2. UndefSession.primary = UndefKey /\ UndefSession.lame = UndefKey /\ UndefSession.linked = FALSE
    BY DEF UndefSession
  <1>3. /\ tls_session_init \in Session
        /\ tls_session_init.primary = key_state_init
        /\ tls_session_init.lame = UndefSession.lame
        /\ tls_session_init.linked = UndefSession.linked
    BY <1>1, NewKeys, SetPrimary, Zenon DEF tls_session_init
  <1> QED
    BY <1>1, <1>2, <1>3, Zenon

\* key_state_soft_reset() keeps the primary key as the lame duck.
LEMMA SoftResetFacts ==
    ASSUME NEW s \in Session
    PROVE  LET r == key_state_soft_reset(s)
           IN  /\ r \in Session /\ r.linked = s.linked /\ r.primary = key_state_init
               /\ r.lame \in KeyState
               /\ r.lame.state = s.primary.state /\ r.lame.die = TransitionWindow
  <1> DEFINE k == [s.primary EXCEPT !.die = TransitionWindow]
             r == [s EXCEPT !.lame = k, !.primary = key_state_init]
  <1>1. s.primary \in KeyState /\ s.linked \in BOOLEAN
    BY DEF Session
  <1>2. k \in KeyState /\ k.state = s.primary.state /\ k.die = TransitionWindow
    BY <1>1, KeyTypes
  <1> HIDE DEF k
  <1>3. r \in Session /\ r.lame = k /\ r.linked = s.linked /\ r.primary = key_state_init
    BY <1>1, <1>2, NewKeys, RecordFacts, Zenon DEF Session
  <1>4. key_state_soft_reset(s) = r
    BY DEF key_state_soft_reset, k
  <1> QED
    BY <1>2, <1>3, <1>4

(* What a session may hold: its lame duck key worked and has an end.       *)
Sound(s) == s \in Session /\ LameDuckInv(s)

LEMMA SoundStates == \A s : Sound(s) => s.primary.state \in Int /\ s.lame.state \in Int
  BY DEF Sound, Session, KeyState

LEMMA NewIsSound == Sound(tls_session_init) /\ Sound(UndefSession)
  BY NewSessions, NewKeys DEF Sound, LameDuckInv

\* What tls_process() leaves of the keys of a session.
LEMMA ProcessFacts ==
    ASSUME NEW s, Sound(s), NEW worn \in BOOLEAN, NEW a \in tls_process(s, worn)
    PROVE  /\ Sound(a)
           /\ a.linked = s.linked
           /\ Usable(a.primary) => Usable(s.primary)
           /\ Usable(a.lame) => Usable(s.primary) \/ Usable(s.lame)
           /\ Usable(s.primary) => Usable(a.primary) \/ Usable(a.lame) \/ a.primary.state = S_ERROR
           /\ Usable(s.lame) /\ s.lame.die # 0 => Usable(a.lame)
           /\ s.primary.state >= S_INITIAL => a.primary.state = S_ERROR \/ a.primary.state >= S_PRE_START
  <1> DEFINE s1 == IF SoftResetDue(s.primary, worn) THEN key_state_soft_reset(s) ELSE s
             s2 == IF lame_duck_must_die(s1) THEN [s1 EXCEPT !.lame = UndefKey] ELSE s1
             h == s2.linked /\ peer = "talking"
  <1>1. /\ s \in Session /\ s.primary \in KeyState /\ s.lame \in KeyState
        /\ s.primary.state \in S_ERROR .. S_GENERATED_KEYS
        /\ s.lame.state \in S_ERROR .. S_GENERATED_KEYS
        /\ s.lame.die \in NotSet .. TransitionWindow
    BY SessionFacts, KeyTypes DEF Sound, KeyState
  <1>2. /\ s1 \in Session /\ s1.linked = s.linked
        /\ \/ /\ SoftResetDue(s.primary, worn)
              /\ s1.primary = key_state_init /\ s1.lame.state = s.primary.state
              /\ s1.lame.die = TransitionWindow
           \/ s1.primary = s.primary /\ s1.lame = s.lame
    <2>1. CASE SoftResetDue(s.primary, worn)
      BY <1>1, <2>1, SoftResetFacts, Zenon
    <2>2. CASE ~ SoftResetDue(s.primary, worn)
      BY <1>1, <2>2, Zenon
    <2> QED
      BY <2>1, <2>2
  <1> HIDE DEF s1
  <1>3. /\ s2 \in Session /\ s2.linked = s1.linked /\ s2.primary = s1.primary
        /\ s2.lame = IF lame_duck_must_die(s1) THEN UndefKey ELSE s1.lame
    <2>1. CASE lame_duck_must_die(s1)
      BY <1>2, <2>1, NewKeys, SetLame, ZenonT(60)
    <2>2. CASE ~ lame_duck_must_die(s1)
      BY <1>2, <2>2, Zenon
    <2> QED
      BY <2>1, <2>2
  <1>4. PICK k \in tls_process_state(s2.primary, h) : a = [s2 EXCEPT !.primary = k]
    BY Zenon DEF tls_process, s1
  <1> HIDE DEF s2
  <1>5. h \in BOOLEAN
    OBVIOUS
  <1> HIDE DEF h
  <1>6. /\ k \in KeyState
        /\ Usable(k) => Usable(s2.primary)
        /\ Usable(s2.primary) => Usable(k) \/ k.state = S_ERROR
        /\ s2.primary.state >= S_INITIAL => k.state = S_ERROR \/ k.state >= S_PRE_START
    BY <1>3, <1>4, <1>5, SessionFacts, ProcessStateFacts, Zenon
  <1>7. a \in Session /\ a.primary = k /\ a.lame = s2.lame /\ a.linked = s2.linked
    BY <1>3, <1>4, <1>6, SetPrimary, Zenon
  <1>8. a.linked = s.linked
    BY <1>2, <1>3, <1>7, Zenon
  <1>9. CASE /\ SoftResetDue(s.primary, worn)
             /\ s1.primary = key_state_init /\ s1.lame.state = s.primary.state
             /\ s1.lame.die = TransitionWindow
    <2>1. s.primary.state = S_GENERATED_KEYS
      BY <1>1, <1>9 DEF SoftResetDue
    <2>2. ~ lame_duck_must_die(s1)
      BY <1>9, <2>1, WindowsAssumption DEF lame_duck_must_die
    <2>3. a.lame = s1.lame
      BY <1>3, <1>7, <2>2, Zenon
    <2>4. Sound(a)
      BY <1>7, <1>9, <2>1, <2>3, WindowsAssumption DEF Sound, LameDuckInv
    <2>5. k.state = S_ERROR \/ k.state >= S_PRE_START
      BY <1>3, <1>6, <1>9, NewKeys
    <2>6. Usable(a.lame) /\ Usable(s.primary)
      BY <1>9, <2>1, <2>3 DEF Usable
    <2> QED
      BY <1>7, <1>8, <2>4, <2>5, <2>6, Zenon
  <1>10. CASE s1.primary = s.primary /\ s1.lame = s.lame
    <2>1. s.lame.state \in {S_UNDEF, S_GENERATED_KEYS} /\ (s.lame.state >= S_INITIAL => s.lame.die # NotSet)
      BY DEF Sound, LameDuckInv
    <2>2. /\ a.lame = UndefKey \/ a.lame = s.lame
          /\ Usable(s.lame) /\ s.lame.die # 0 => a.lame = s.lame
      BY <1>3, <1>7, <1>10, <2>1 DEF Usable, lame_duck_must_die
    <2>3. Sound(a) /\ (Usable(a.lame) => Usable(s.lame))
      BY <1>7, <2>1, <2>2, NewKeys DEF Sound, LameDuckInv, Usable
    <2>4. /\ Usable(a.primary) => Usable(s.primary)
          /\ Usable(s.primary) => Usable(a.primary) \/ a.primary.state = S_ERROR
          /\ s.primary.state >= S_INITIAL => a.primary.state = S_ERROR \/ a.primary.state >= S_PRE_START
      BY <1>3, <1>6, <1>7, <1>10, Zenon
    <2> QED
      BY <1>8, <2>2, <2>3, <2>4, Zenon
  <1> QED
    BY <1>2, <1>9, <1>10

\* What the making of data channel keys does to a session.
LEMMA GenerateFacts ==
    ASSUME NEW s, Sound(s), NEW f \in BOOLEAN
    PROVE  LET g == tls_session_generate_data_channel_keys(s, f)
           IN  /\ Sound(g) /\ g.linked = s.linked /\ g.lame = s.lame
               /\ s.primary.state # S_ACTIVE => g = s
               /\ s.primary.state = S_ACTIVE /\ ~ f => g.primary.state = S_GENERATED_KEYS
               /\ s.primary.state = S_ACTIVE /\ f => g.primary.state = S_ERROR
  <1> DEFINE x == IF f THEN S_ERROR ELSE S_GENERATED_KEYS
             k == [s.primary EXCEPT !.state = x]
             g == tls_session_generate_data_channel_keys(s, f)
  <1>1. s \in Session /\ s.primary \in KeyState /\ LameDuckInv(s)
    BY SessionFacts DEF Sound
  <1>2. x \in S_ERROR .. S_GENERATED_KEYS /\ (f => x = S_ERROR) /\ (~ f => x = S_GENERATED_KEYS)
    OBVIOUS
  <1>3. k \in KeyState /\ k.state = x
    BY <1>1, <1>2, KeyTypes, Zenon
  <1>4. CASE s.primary.state = S_ACTIVE
    <2>1. g = [s EXCEPT !.primary = k]
      BY <1>4, Zenon DEF tls_session_generate_data_channel_keys
    <2> HIDE DEF k, x, g
    <2>2. g \in Session /\ g.primary = k /\ g.lame = s.lame /\ g.linked = s.linked
      BY <1>1, <1>3, <2>1, SetPrimary, Zenon
    <2>3. Sound(g)
      BY <1>1, <2>2 DEF Sound, LameDuckInv
    <2> QED
      BY <1>2, <1>3, <1>4, <2>2, <2>3 DEF g
  <1>5. CASE s.primary.state # S_ACTIVE
    BY <1>5, Zenon DEF tls_session_generate_data_channel_keys
  <1> QED
    BY <1>4, <1>5
-----------------------------------------------------------------------------
(* The keys data packets may use.                                          *)

LEMMA KeyScanFacts ==
    ASSUME NEW ss
    PROVE  /\ HasKey(ss) <=> \/ Usable(ss["TM_ACTIVE"].primary) \/ Usable(ss["TM_ACTIVE"].lame)
                             \/ Usable(ss["TM_LAME_DUCK"].lame)
           /\ NoKeyLeft(ss) <=> /\ ss["TM_ACTIVE"].primary.state < S_ACTIVE
                                /\ ss["TM_ACTIVE"].lame.state < S_ACTIVE
                                /\ ss["TM_LAME_DUCK"].lame.state < S_ACTIVE
  <1>1. /\ KeyScan(ss)[1] = ss["TM_ACTIVE"].primary /\ KeyScan(ss)[2] = ss["TM_ACTIVE"].lame
        /\ KeyScan(ss)[3] = ss["TM_LAME_DUCK"].lame
    BY DEF KeyScan
  <1>2. \A i \in 1 .. 3 : i = 1 \/ i = 2 \/ i = 3
    OBVIOUS
  <1>3. 1 \in 1 .. 3 /\ 2 \in 1 .. 3 /\ 3 \in 1 .. 3
    OBVIOUS
  <1> QED
    BY <1>1, <1>2, <1>3 DEF HasKey, NoKeyLeft

\* A fatal error over UDP leaves no key behind.
LEMMA NoKeyLeftFacts ==
    ASSUME NEW ss \in [TM -> Session], NoKeyLeft(ss)
    PROVE  ~ HasKey(ss)
  <1>1. /\ ss["TM_ACTIVE"].primary.state \in Int /\ ss["TM_ACTIVE"].lame.state \in Int
        /\ ss["TM_LAME_DUCK"].lame.state \in Int
    <2>1. ss["TM_ACTIVE"] \in Session /\ ss["TM_LAME_DUCK"] \in Session
      BY DEF TM
    <2>2. \A k \in KeyState : k.state \in Int
      BY DEF KeyState
    <2> QED
      BY <2>1, <2>2, SessionFacts, Zenon
  <1> QED
    BY <1>1, KeyScanFacts DEF Usable
-----------------------------------------------------------------------------
(* One turn of tls_multi_process(): what is in the three slots at the end, *)
(* a and u being what tls_process() made of the first two.                 *)

\* Data channel keys are made once the tunnel is up.
Made(s, fails) ==
    IF multi_state = "CAS_CONNECT_DONE" THEN tls_session_generate_data_channel_keys(s, fails) ELSE s

ActiveMade(a, fails) == Made(IF HitError("TM_ACTIVE", a) THEN tls_session_init ELSE a, fails)

UntrustedMade(u, fails) == Made(IF HitError("TM_UNTRUSTED", u) THEN tls_session_init ELSE u, fails)

LameMade(a, fails) == Made(IF KeepsLameDuck(a) THEN a ELSE session["TM_LAME_DUCK"], fails)

LEMMA Slots ==
    ASSUME session \in [TM -> Session], NEW a, NEW u, NEW fails
    PROVE  LET ss == Promoted(Expired(Generated(Recovered(a, u), fails)))
               moved == UntrustedMade(u, fails).primary.state >= S_GOT_KEY
           IN  /\ ss = [i \in TM |-> ss[i]]
               /\ ss["TM_ACTIVE"] = IF moved THEN UntrustedMade(u, fails) ELSE ActiveMade(a, fails)
               /\ ss["TM_UNTRUSTED"] = IF moved THEN tls_session_init ELSE UntrustedMade(u, fails)
               /\ ss["TM_LAME_DUCK"] = IF lame_duck_must_die(LameMade(a, fails)) THEN UndefSession
                                       ELSE LameMade(a, fails)
  <1> DEFINE r == Recovered(a, u)
             g == Generated(r, fails)
             e == Expired(g)
             p == Promoted(e)
             Names(f) == f = [i \in TM |-> f[i]]
  <1>1. /\ Names(r)
        /\ r["TM_ACTIVE"] = IF HitError("TM_ACTIVE", a) THEN tls_session_init ELSE a
        /\ r["TM_UNTRUSTED"] = IF HitError("TM_UNTRUSTED", u) THEN tls_session_init ELSE u
        /\ r["TM_LAME_DUCK"] = IF KeepsLameDuck(a) THEN a ELSE session["TM_LAME_DUCK"]
    BY DEF Recovered, TM
  <1> HIDE DEF r
  <1>2. /\ Names(g)
        /\ g["TM_ACTIVE"] = ActiveMade(a, fails)
        /\ g["TM_UNTRUSTED"] = UntrustedMade(u, fails)
        /\ g["TM_LAME_DUCK"] = LameMade(a, fails)
    BY <1>1 DEF Generated, Made, ActiveMade, UntrustedMade, LameMade, TM
  <1> HIDE DEF g
  <1>3. /\ Names(e)
        /\ e["TM_ACTIVE"] = g["TM_ACTIVE"] /\ e["TM_UNTRUSTED"] = g["TM_UNTRUSTED"]
        /\ e["TM_LAME_DUCK"] = IF lame_duck_must_die(g["TM_LAME_DUCK"]) THEN UndefSession
                               ELSE g["TM_LAME_DUCK"]
    BY <1>2 DEF Expired, TM
  <1> HIDE DEF e
  <1>4. /\ Names(p)
        /\ p["TM_ACTIVE"] = IF e["TM_UNTRUSTED"].primary.state >= S_GOT_KEY
                            THEN e["TM_UNTRUSTED"] ELSE e["TM_ACTIVE"]
        /\ p["TM_UNTRUSTED"] = IF e["TM_UNTRUSTED"].primary.state >= S_GOT_KEY
                               THEN tls_session_init ELSE e["TM_UNTRUSTED"]
        /\ p["TM_LAME_DUCK"] = e["TM_LAME_DUCK"]
    BY <1>3 DEF Promoted, TM
  <1> QED
    BY <1>2, <1>3, <1>4, Zenon DEF p, e, g, r

\* A session that is processed, or left alone.
LEMMA ProcessedFacts ==
    ASSUME TypeOK, NEW i \in TM, LameDuckInv(session[i]), NEW worn \in BOOLEAN,
           NEW a \in Processed(i, worn)
    PROVE  /\ Sound(a)
           /\ a.linked = session[i].linked
           /\ Usable(a.primary) => Usable(session[i].primary)
           /\ Usable(a.lame) => Usable(session[i].primary) \/ Usable(session[i].lame)
           /\ Usable(session[i].primary) =>
                 Usable(a.primary) \/ Usable(a.lame) \/ (IsProcessed(i) /\ a.primary.state = S_ERROR)
           /\ Usable(session[i].lame) /\ session[i].lame.die # 0 => Usable(a.lame)
           /\ IsProcessed(i) => a.primary.state = S_ERROR \/ a.primary.state >= S_PRE_START
           /\ ~ IsProcessed(i) => a = session[i]
  <1>1. Sound(session[i])
    BY DEF TypeOK, Sound
  <1>2. CASE IsProcessed(i)
    <2>1. a \in tls_process(session[i], worn) /\ session[i].primary.state >= S_INITIAL
      BY <1>2, Zenon DEF Processed, IsProcessed
    <2> QED
      BY <1>1, <1>2, <2>1, ProcessFacts, Zenon
  <1>3. CASE ~ IsProcessed(i)
    BY <1>1, <1>3, Zenon DEF Processed
  <1> QED
    BY <1>2, <1>3

\* Keys that are made spoil nothing.
LEMMA MadeFacts ==
    ASSUME NEW s, Sound(s), NEW f \in BOOLEAN
    PROVE  /\ Sound(Made(s, f)) /\ Made(s, f).linked = s.linked /\ Made(s, f).lame = s.lame
           /\ s.primary.state # S_ACTIVE => Made(s, f) = s
           /\ multi_state # "CAS_CONNECT_DONE" => Made(s, f) = s
           /\ s.primary.state = S_ACTIVE /\ multi_state = "CAS_CONNECT_DONE" =>
                 Made(s, f).primary.state = IF f THEN S_ERROR ELSE S_GENERATED_KEYS
  <1>1. CASE multi_state = "CAS_CONNECT_DONE"
    BY <1>1, GenerateFacts, Zenon DEF Made
  <1>2. CASE multi_state # "CAS_CONNECT_DONE"
    BY <1>2, Zenon DEF Made
  <1> QED
    BY <1>1, <1>2
-----------------------------------------------------------------------------
(* tls_multi_process() keeps the invariant.                                *)

\* The turn that tls_multi_process() takes.
Turn(a, u, fails, worn) ==
    /\ phase = "running"
    /\ a \in Processed("TM_ACTIVE", worn) /\ u \in Processed("TM_UNTRUSTED", worn)
    /\ fails \in {FALSE, ExpansionMayFail}
    /\ session' = Promoted(Expired(Generated(Recovered(a, u), fails)))
    /\ multi_state' = StateAfter(a, u)
    /\ push_timeout' = IF multi_state' # multi_state THEN HandshakeWindow ELSE push_timeout
    /\ phase' = IF IsFatal(a, u, session') THEN "restarting" ELSE phase
    /\ UNCHANGED <<config, peer>>

\* What is known of the three slots after a turn.
LEMMA TurnFacts ==
    ASSUME TlsInv, NEW worn \in BOOLEAN, NEW a, NEW u, NEW fails, Turn(a, u, fails, worn)
    PROVE  LET A2 == ActiveMade(a, fails)
               U2 == UntrustedMade(u, fails)
               L2 == LameMade(a, fails)
               moved == U2.primary.state >= S_GOT_KEY
           IN  /\ fails \in BOOLEAN
               /\ Sound(a) /\ Sound(u) /\ Sound(A2) /\ Sound(U2) /\ Sound(L2)
               /\ session' = [i \in TM |-> session'[i]]
               /\ session'["TM_ACTIVE"] = IF moved THEN U2 ELSE A2
               /\ session'["TM_UNTRUSTED"] = IF moved THEN tls_session_init ELSE U2
               /\ session'["TM_LAME_DUCK"] = IF lame_duck_must_die(L2) THEN UndefSession ELSE L2
  <1>1. fails \in BOOLEAN
    BY WindowsAssumption, Zenon DEF Turn
  <1>2. TypeOK /\ \A i \in TM : LameDuckInv(session[i]) /\ Sound(session[i])
    BY DEF TlsInv, TypeOK, Sound
  <1>3. "TM_ACTIVE" \in TM /\ "TM_UNTRUSTED" \in TM /\ "TM_LAME_DUCK" \in TM
    BY DEF TM
  <1>4. Sound(a) /\ Sound(u)
    BY <1>2, <1>3, ProcessedFacts, Zenon DEF Turn
  <1>5. Sound(ActiveMade(a, fails)) /\ Sound(UntrustedMade(u, fails)) /\ Sound(LameMade(a, fails))
    <2>1. Sound(IF HitError("TM_ACTIVE", a) THEN tls_session_init ELSE a)
      BY <1>4, NewIsSound, Zenon
    <2>2. Sound(IF HitError("TM_UNTRUSTED", u) THEN tls_session_init ELSE u)
      BY <1>4, NewIsSound, Zenon
    <2>3. Sound(IF KeepsLameDuck(a) THEN a ELSE session["TM_LAME_DUCK"])
      BY <1>2, <1>3, <1>4, Zenon
    <2> QED
      BY <1>1, <2>1, <2>2, <2>3, MadeFacts, Zenon DEF ActiveMade, UntrustedMade, LameMade
  <1>6. session \in [TM -> Session]
    BY DEF TlsInv, TypeOK
  <1> DEFINE ss == Promoted(Expired(Generated(Recovered(a, u), fails)))
             moved == UntrustedMade(u, fails).primary.state >= S_GOT_KEY
  <1>7. /\ ss = [i \in TM |-> ss[i]]
        /\ ss["TM_ACTIVE"] = IF moved THEN UntrustedMade(u, fails) ELSE ActiveMade(a, fails)
        /\ ss["TM_UNTRUSTED"] = IF moved THEN tls_session_init ELSE UntrustedMade(u, fails)
        /\ ss["TM_LAME_DUCK"] = IF lame_duck_must_die(LameMade(a, fails)) THEN UndefSession
                                ELSE LameMade(a, fails)
    BY <1>6, Slots, Zenon
  <1>8. session' = ss
    BY DEF Turn
  <1> HIDE DEF ss
  <1> QED
    BY <1>1, <1>4, <1>5, <1>7, <1>8

\* Every slot is sound after the turn.
LEMMA TurnTypes ==
    ASSUME TlsInv, NEW worn \in BOOLEAN, NEW a, NEW u, NEW fails, Turn(a, u, fails, worn)
    PROVE  TypeOK' /\ \A i \in TM : LameDuckInv(session'[i])
  <1>1. \A i \in TM : Sound(session'[i])
    <2>1. /\ Sound(session'["TM_ACTIVE"]) /\ Sound(session'["TM_UNTRUSTED"])
          /\ Sound(session'["TM_LAME_DUCK"])
      BY TurnFacts, NewIsSound, ZenonT(60)
    <2> QED
      BY <2>1, Zenon DEF TM
  <1>2. session' \in [TM -> Session]
    <2>1. session' = [i \in TM |-> session'[i]]
      BY TurnFacts, Zenon
    <2>2. \A i \in TM : session'[i] \in Session
      BY <1>1, Zenon DEF Sound
    <2> QED
      BY <2>1, <2>2, Zenon
  <1>3. /\ multi_state' \in {"CAS_NOT_CONNECTED", "CAS_WAITING_OPTIONS_IMPORT", "CAS_CONNECT_DONE"}
        /\ phase' \in {"running", "restarting"}
    BY DEF TlsInv, TypeOK, Turn, StateAfter
  <1>4. push_timeout' \in 0 .. HandshakeWindow
    BY WindowsAssumption DEF TlsInv, TypeOK, Turn
  <1>5. /\ single_session' \in SingleSession /\ connection_oriented' \in Tcp
        /\ peer' \in {"talking", "silent"}
    BY Zenon DEF TlsInv, TypeOK, Turn, config
  <1> QED
    BY <1>1, <1>2, <1>3, <1>4, <1>5, Zenon DEF TypeOK, Sound

\* A session that can be routed to can be routed to after the turn.
LEMMA TurnRoutes ==
    ASSUME TlsInv, NEW worn \in BOOLEAN, NEW a, NEW u, NEW fails, Turn(a, u, fails, worn),
           ~ ExpansionMayFail
    PROVE  Routable'
  <1> DEFINE A2 == ActiveMade(a, fails)
             U2 == UntrustedMade(u, fails)
             A1 == IF HitError("TM_ACTIVE", a) THEN tls_session_init ELSE a
             U1 == IF HitError("TM_UNTRUSTED", u) THEN tls_session_init ELSE u
  <1>1. ~ fails /\ fails \in BOOLEAN /\ Routable /\ TypeOK /\ \A i \in TM : LameDuckInv(session[i])
    <2>1. fails = FALSE \/ fails = ExpansionMayFail
      BY Zenon DEF Turn
    <2>2. ~ fails
      BY <2>1, Zenon
    <2> QED
      BY <2>2, TurnFacts, Zenon DEF TlsInv
  <1>2. "TM_ACTIVE" \in TM /\ "TM_UNTRUSTED" \in TM /\ tls_session_init.primary.state = S_INITIAL
    BY NewSessions, NewKeys DEF TM
  <1>3. \A i \in TM : IsProcessed(i) =>
           \A x \in Processed(i, worn) : x.primary.state = S_ERROR \/ x.primary.state >= S_PRE_START
    BY <1>1, ProcessedFacts, Zenon
  <1>4. \A i \in TM : ~ IsProcessed(i) => \A x \in Processed(i, worn) : x = session[i]
    BY <1>1, ProcessedFacts, Zenon
  <1>5. A1.primary.state >= S_INITIAL
    <2>1. session["TM_ACTIVE"].primary.state >= S_INITIAL /\ IsProcessed("TM_ACTIVE")
      BY <1>1, Zenon DEF Routable, IsProcessed
    <2>2. a.primary.state = S_ERROR \/ a.primary.state >= S_PRE_START
      BY <1>2, <1>3, <2>1, Zenon DEF Turn
    <2>3. a.primary.state # S_ERROR => a.primary.state >= S_INITIAL
      <3>1. a.primary.state \in Int
        BY TurnFacts, SoundStates, Zenon
      <3> QED
        BY <2>2, <3>1
    <2> QED
      BY <1>2, <2>1, <2>3 DEF HitError
  <1>6. ~ single_session => U1.primary.state >= S_INITIAL
    <2> SUFFICES ASSUME ~ single_session PROVE U1.primary.state >= S_INITIAL
      OBVIOUS
    <2>1. session["TM_UNTRUSTED"].primary.state >= S_INITIAL
      BY <1>1, Zenon DEF Routable
    <2>2. CASE IsProcessed("TM_UNTRUSTED")
      <3>1. u.primary.state = S_ERROR \/ u.primary.state >= S_PRE_START
        BY <1>2, <1>3, <2>2, Zenon DEF Turn
      <3>2. u.primary.state # S_ERROR => u.primary.state >= S_INITIAL
        <4>1. u.primary.state \in Int
          BY TurnFacts, SoundStates, Zenon
        <4> QED
          BY <3>1, <4>1
      <3> QED
        BY <1>2, <2>2, <3>2 DEF HitError
    <2>3. CASE ~ IsProcessed("TM_UNTRUSTED")
      BY <1>2, <1>4, <2>1, <2>3, Zenon DEF HitError, Turn
    <2> QED
      BY <2>2, <2>3
  <1>7. Sound(A1) /\ Sound(U1)
    BY TurnFacts, NewIsSound, Zenon
  <1>8. \A s : Sound(s) /\ s.primary.state >= S_INITIAL => Made(s, fails).primary.state >= S_INITIAL
    <2> SUFFICES ASSUME NEW s, Sound(s), s.primary.state >= S_INITIAL
                 PROVE  Made(s, fails).primary.state >= S_INITIAL
      OBVIOUS
    <2>1. \/ Made(s, fails) = s
          \/ Made(s, fails).primary.state = S_GENERATED_KEYS
      BY <1>1, MadeFacts, Zenon
    <2> QED
      BY <2>1
  <1>9. A2 = Made(A1, fails) /\ U2 = Made(U1, fails)
    BY Zenon DEF ActiveMade, UntrustedMade
  <1>10. /\ A2.primary.state >= S_INITIAL
         /\ ~ single_session => U2.primary.state >= S_INITIAL
    BY <1>5, <1>6, <1>7, <1>8, <1>9, Zenon
  <1>11. U2.primary.state >= S_GOT_KEY => U2.primary.state >= S_INITIAL
    <2>1. U2.primary.state \in Int
      BY TurnFacts, SoundStates, Zenon
    <2> QED
      BY <2>1
  <1>12. session'["TM_ACTIVE"].primary.state >= S_INITIAL
    <2>1. session'["TM_ACTIVE"] = IF U2.primary.state >= S_GOT_KEY THEN U2 ELSE A2
      BY TurnFacts, Zenon
    <2> QED
      BY <1>10, <1>11, <2>1, Zenon
  <1>13. ~ single_session' => session'["TM_UNTRUSTED"].primary.state >= S_INITIAL
    <2>1. single_session' = single_session /\ tls_session_init.primary.state >= S_INITIAL
      BY <1>2 DEF Turn, config
    <2> QED
      BY <1>10, <2>1, TurnFacts, Zenon
  <1> QED
    BY <1>12, <1>13, Zenon DEF Routable

\* The lame duck session is never negotiated, an untrusted one without a peer
\* has not begun.
LEMMA TurnSlots ==
    ASSUME TlsInv, NEW worn \in BOOLEAN, NEW a, NEW u, NEW fails, Turn(a, u, fails, worn)
    PROVE  /\ session'["TM_LAME_DUCK"].primary.state < S_INITIAL
           /\ UntrustedInv(session'["TM_UNTRUSTED"])
  <1> DEFINE U2 == UntrustedMade(u, fails)
             U1 == IF HitError("TM_UNTRUSTED", u) THEN tls_session_init ELSE u
             L2 == LameMade(a, fails)
             L1 == IF KeepsLameDuck(a) THEN a ELSE session["TM_LAME_DUCK"]
  <1>1. /\ TypeOK /\ fails \in BOOLEAN /\ Sound(a) /\ Sound(u)
        /\ \A i \in TM : LameDuckInv(session[i]) /\ Sound(session[i])
    BY TurnFacts, Zenon DEF TlsInv, TypeOK, Sound
  <1>2. /\ "TM_LAME_DUCK" \in TM /\ "TM_UNTRUSTED" \in TM
        /\ tls_session_init.primary.state = S_INITIAL /\ UndefSession.primary.state = S_UNDEF
    BY NewSessions, NewKeys DEF TM
  <1>3. session'["TM_LAME_DUCK"].primary.state < S_INITIAL
    <2>1. Sound(L1)
      BY <1>1, <1>2, Zenon
    <2>2. L1.primary.state < S_INITIAL
      <3>1. CASE KeepsLameDuck(a)
        BY <3>1 DEF KeepsLameDuck, HitError
      <3>2. CASE ~ KeepsLameDuck(a)
        BY <3>2 DEF TlsInv
      <3> QED
        BY <3>1, <3>2
    <2>3. L1.primary.state # S_ACTIVE
      BY <2>1, <2>2, SoundStates
    <2>4. L2 = L1
      BY <1>1, <2>1, <2>3, MadeFacts, Zenon DEF LameMade
    <2>5. session'["TM_LAME_DUCK"] = IF lame_duck_must_die(L2) THEN UndefSession ELSE L2
      BY TurnFacts, Zenon
    <2> HIDE DEF L1, L2
    <2> QED
      BY <1>2, <2>2, <2>4, <2>5
  <1>4. UntrustedInv(session'["TM_UNTRUSTED"])
    <2>1. UntrustedInv(tls_session_init)
      BY <1>2 DEF UntrustedInv
    <2>2. UntrustedInv(u)
      <3>1. u.linked = session["TM_UNTRUSTED"].linked /\ (IsProcessed("TM_UNTRUSTED") \/ u = session["TM_UNTRUSTED"])
        BY <1>1, <1>2, ProcessedFacts, Zenon DEF Turn
      <3>2. IsProcessed("TM_UNTRUSTED") => session["TM_UNTRUSTED"].linked
        BY DEF IsProcessed
      <3> QED
        BY <3>1, <3>2, Zenon DEF UntrustedInv, TlsInv
    <2>3. UntrustedInv(U1) /\ Sound(U1)
      BY <1>1, <2>1, <2>2, NewIsSound, Zenon
    <2> HIDE DEF U1
    <2>4. U2.linked = U1.linked /\ (U1.primary.state # S_ACTIVE => U2 = U1)
      BY <1>1, <2>3, MadeFacts, Zenon DEF UntrustedMade, U1
    <2>5. UntrustedInv(U2)
      <3>1. U1.primary.state <= S_INITIAL => U1.primary.state # S_ACTIVE
        BY <2>3, SoundStates
      <3> QED
        BY <2>3, <2>4, <3>1, Zenon DEF UntrustedInv
    <2> HIDE DEF U2
    <2>6. session'["TM_UNTRUSTED"] = IF U2.primary.state >= S_GOT_KEY THEN tls_session_init ELSE U2
      BY TurnFacts, Zenon DEF U2
    <2> QED
      BY <2>1, <2>5, <2>6, Zenon
  <1> QED
    BY <1>3, <1>4

\* A session without a data channel key.
Keyless(s) == ~ Usable(s.primary) /\ ~ Usable(s.lame)

\* No data channel key appears before the tunnel is up.
LEMMA TurnTunnel ==
    ASSUME TlsInv, NEW worn \in BOOLEAN, NEW a, NEW u, NEW fails, Turn(a, u, fails, worn)
    PROVE  KeysNeedTunnel'
  <1> SUFFICES ASSUME multi_state' # "CAS_CONNECT_DONE" PROVE \A i \in TM : Keyless(session'[i])
    BY Zenon DEF KeysNeedTunnel, Keyless
  <1>1. multi_state # "CAS_CONNECT_DONE"
    BY DEF Turn, StateAfter
  <1>2. /\ TypeOK /\ fails \in BOOLEAN /\ Sound(a) /\ Sound(u)
        /\ \A i \in TM : LameDuckInv(session[i]) /\ Sound(session[i]) /\ Keyless(session[i])
    BY <1>1, TurnFacts, Zenon DEF TlsInv, TypeOK, Sound, KeysNeedTunnel, Keyless
  <1>3. "TM_ACTIVE" \in TM /\ "TM_UNTRUSTED" \in TM /\ "TM_LAME_DUCK" \in TM
    BY DEF TM
  <1>4. Keyless(a) /\ Keyless(u)
    BY <1>2, <1>3, ProcessedFacts, Zenon DEF Turn, Keyless
  <1>5. Keyless(tls_session_init) /\ Keyless(UndefSession)
    BY NewSessions, NewKeys DEF Keyless, Usable
  <1>6. \A s : Made(s, fails) = s
    BY <1>1, Zenon DEF Made
  <1>7. /\ Keyless(ActiveMade(a, fails)) /\ Keyless(UntrustedMade(u, fails))
        /\ Keyless(LameMade(a, fails))
    <2>1. /\ Keyless(IF HitError("TM_ACTIVE", a) THEN tls_session_init ELSE a)
          /\ Keyless(IF HitError("TM_UNTRUSTED", u) THEN tls_session_init ELSE u)
          /\ Keyless(IF KeepsLameDuck(a) THEN a ELSE session["TM_LAME_DUCK"])
      BY <1>2, <1>3, <1>4, <1>5, Zenon
    <2> QED
      BY <1>6, <2>1, Zenon DEF ActiveMade, UntrustedMade, LameMade
  <1>8. /\ Keyless(session'["TM_ACTIVE"]) /\ Keyless(session'["TM_UNTRUSTED"])
        /\ Keyless(session'["TM_LAME_DUCK"])
    <2> DEFINE moved == UntrustedMade(u, fails).primary.state >= S_GOT_KEY
    <2>1. /\ session'["TM_ACTIVE"] = IF moved THEN UntrustedMade(u, fails) ELSE ActiveMade(a, fails)
          /\ session'["TM_UNTRUSTED"] = IF moved THEN tls_session_init ELSE UntrustedMade(u, fails)
          /\ session'["TM_LAME_DUCK"] = IF lame_duck_must_die(LameMade(a, fails)) THEN UndefSession
                                        ELSE LameMade(a, fails)
      BY TurnFacts, Zenon
    <2> HIDE DEF moved
    <2> QED
      BY <1>5, <1>7, <2>1, Zenon
  <1> QED
    BY <1>8, Zenon DEF TM

\* Over UDP an error is fatal only when no key is left.
LEMMA TurnRestarts ==
    ASSUME TlsInv, NEW worn \in BOOLEAN, NEW a, NEW u, NEW fails, Turn(a, u, fails, worn)
    PROVE  NoNeedlessRestart'
  <1> SUFFICES ASSUME phase' = "restarting", ~ connection_oriented' PROVE ~ HasKey(session')
    BY Zenon DEF NoNeedlessRestart
  <1>1. session' \in [TM -> Session]
    BY TurnTypes, Zenon DEF TypeOK
  <1>2. IsFatal(a, u, session') /\ ~ connection_oriented
    BY DEF Turn, config
  <1>3. NoKeyLeft(session')
    BY <1>2, Zenon DEF IsFatal
  <1> QED
    BY <1>1, <1>3, NoKeyLeftFacts, Zenon

LEMMA TurnKeepsInv ==
    ASSUME TlsInv, NEW worn \in BOOLEAN, tls_multi_process(worn)
    PROVE  TlsInv'
  <1>1. PICK a \in Processed("TM_ACTIVE", worn), u \in Processed("TM_UNTRUSTED", worn),
             fails \in {FALSE, ExpansionMayFail} : Turn(a, u, fails, worn)
    BY Zenon DEF tls_multi_process, Turn
  <1>2. TypeOK' /\ \A i \in TM : LameDuckInv(session'[i])
    BY <1>1, TurnTypes, Zenon
  <1>3. ~ ExpansionMayFail => Routable'
    BY <1>1, TurnRoutes, Zenon
  <1>4. /\ session'["TM_LAME_DUCK"].primary.state < S_INITIAL
        /\ UntrustedInv(session'["TM_UNTRUSTED"])
    BY <1>1, TurnSlots, Zenon
  <1>5. KeysNeedTunnel' /\ NoNeedlessRestart'
    BY <1>1, TurnTunnel, TurnRestarts, Zenon
  <1> QED
    BY <1>2, <1>3, <1>4, <1>5, Zenon DEF TlsInv, LameDuckInv, UntrustedInv
-----------------------------------------------------------------------------
(* The other actions.                                                      *)

\* An action that gives one slot another session.
LEMMA OneSlot ==
    ASSUME NEW i \in TM, NEW s \in Session, session \in [TM -> Session],
           session' = [session EXCEPT ![i] = s]
    PROVE  /\ session' \in [TM -> Session] /\ session'[i] = s
           /\ \A j \in TM : j # i => session'[j] = session[j]
  BY Zenon

\* What the slots of the invariant come down to.
LEMMA InvBySlots ==
    ASSUME TypeOK', \A i \in TM : LameDuckInv(session'[i]),
           ~ ExpansionMayFail => Routable', session'["TM_LAME_DUCK"].primary.state < S_INITIAL,
           KeysNeedTunnel', UntrustedInv(session'["TM_UNTRUSTED"]), NoNeedlessRestart'
    PROVE  TlsInv'
  BY Zenon DEF TlsInv, LameDuckInv, UntrustedInv

LEMMA HardResetKeepsInv == TlsInv /\ HardReset => TlsInv' /\ (HasKey(session) => HasKey(session'))
  <1> SUFFICES ASSUME TlsInv, HardReset PROVE TlsInv' /\ (HasKey(session) => HasKey(session'))
    OBVIOUS
  <1>1. PICK i \in {"TM_ACTIVE", "TM_UNTRUSTED"} : session' = [session EXCEPT ![i].linked = TRUE]
    BY Zenon DEF HardReset
  <1>2. session \in [TM -> Session] /\ TypeOK /\ phase = "running"
    BY Zenon DEF TlsInv, TypeOK, HardReset, Arrives
  <1>3. i \in TM /\ i # "TM_LAME_DUCK" /\ "TM_LAME_DUCK" \in TM /\ "TM_UNTRUSTED" \in TM /\ "TM_ACTIVE" \in TM
    BY DEF TM
  <1> DEFINE s == [session[i] EXCEPT !.linked = TRUE]
  <1>4. s \in Session /\ s.primary = session[i].primary /\ s.lame = session[i].lame /\ s.linked
    BY <1>2, <1>3, SetLinked, Zenon
  <1>5. session' = [session EXCEPT ![i] = s]
    BY <1>1, Zenon
  <1> HIDE DEF s
  <1>6. /\ session' \in [TM -> Session] /\ session'[i] = s
        /\ \A j \in TM : j # i => session'[j] = session[j]
    BY <1>2, <1>3, <1>4, <1>5, OneSlot, Zenon
  <1>7. \A j \in TM : session'[j].primary = session[j].primary /\ session'[j].lame = session[j].lame
    BY <1>4, <1>6, Zenon
  <1>8. TypeOK'
    BY <1>6, Zenon DEF TypeOK, TlsInv, HardReset, config
  <1>9. \A j \in TM : LameDuckInv(session'[j])
    BY <1>7, Zenon DEF TlsInv, LameDuckInv
  <1>10. ~ ExpansionMayFail => Routable'
    BY <1>3, <1>7, Zenon DEF TlsInv, Routable, HardReset, config
  <1>11. session'["TM_LAME_DUCK"].primary.state < S_INITIAL
    BY <1>3, <1>7, Zenon DEF TlsInv
  <1>12. KeysNeedTunnel'
    BY <1>7, Zenon DEF TlsInv, KeysNeedTunnel, HardReset
  <1>13. UntrustedInv(session'["TM_UNTRUSTED"])
    <2>1. CASE i = "TM_UNTRUSTED"
      BY <1>4, <1>6, <2>1, Zenon DEF UntrustedInv
    <2>2. CASE i # "TM_UNTRUSTED"
      BY <1>3, <1>6, <2>2, Zenon DEF TlsInv
    <2> QED
      BY <2>1, <2>2
  <1>14. NoNeedlessRestart'
    BY <1>2, Zenon DEF NoNeedlessRestart, HardReset
  <1>15. HasKey(session) => HasKey(session')
    BY <1>3, <1>7, KeyScanFacts, Zenon
  <1> QED
    BY <1>8, <1>9, <1>10, <1>11, <1>12, <1>13, <1>14, <1>15, InvBySlots, Zenon

LEMMA SoftResetKeepsInv ==
    ASSUME TlsInv, NEW i \in {"TM_ACTIVE", "TM_UNTRUSTED"}, SoftReset(i)
    PROVE  TlsInv' /\ (HasKey(session) => HasKey(session'))
  <1>1. session' = [session EXCEPT ![i] = key_state_soft_reset(session[i])]
    BY Zenon DEF SoftReset
  <1>2. session \in [TM -> Session] /\ TypeOK /\ phase = "running"
    BY Zenon DEF TlsInv, TypeOK, SoftReset, Arrives
  <1>3. i \in TM /\ i # "TM_LAME_DUCK" /\ "TM_LAME_DUCK" \in TM /\ "TM_UNTRUSTED" \in TM /\ "TM_ACTIVE" \in TM
    BY DEF TM
  <1> DEFINE s == key_state_soft_reset(session[i])
  <1>4. /\ s \in Session /\ s.linked = session[i].linked /\ s.primary = key_state_init
        /\ s.lame.state = session[i].primary.state /\ s.lame.die = TransitionWindow
    BY <1>2, <1>3, SoftResetFacts, Zenon
  <1>5. session' = [session EXCEPT ![i] = s]
    BY <1>1, Zenon
  <1> HIDE DEF s
  <1>6. /\ session' \in [TM -> Session] /\ session'[i] = s
        /\ \A j \in TM : j # i => session'[j] = session[j]
    BY <1>2, <1>3, <1>4, <1>5, OneSlot, Zenon
  <1>7. /\ session[i].primary.state = S_GENERATED_KEYS /\ s.lame.state = S_GENERATED_KEYS
        /\ s.primary.state = S_INITIAL
    <2>1. session[i].primary.state \in S_ERROR .. S_GENERATED_KEYS
      <3>1. session[i].primary \in KeyState
        BY <1>2, <1>3, SessionFacts, Zenon
      <3> QED
        BY <3>1, KeyTypes, Zenon
    <2>2. session[i].primary.state >= S_GENERATED_KEYS
      BY DEF SoftReset
    <2> QED
      BY <1>4, <2>1, <2>2, NewKeys
  <1>8. TypeOK'
    BY <1>6, Zenon DEF TypeOK, TlsInv, SoftReset, config
  <1>9. \A j \in TM : LameDuckInv(session'[j])
    <2>1. LameDuckInv(s)
      BY <1>4, <1>7, WindowsAssumption DEF LameDuckInv
    <2> QED
      BY <1>6, <2>1, Zenon DEF TlsInv
  <1>10. ~ ExpansionMayFail => Routable'
    <2>1. session'[i].primary.state >= S_INITIAL
      BY <1>6, <1>7
    <2> QED
      BY <1>3, <1>6, <2>1, Zenon DEF TlsInv, Routable, SoftReset, config
  <1>11. session'["TM_LAME_DUCK"].primary.state < S_INITIAL
    BY <1>3, <1>6, Zenon DEF TlsInv
  <1>12. KeysNeedTunnel'
    <2>1. Usable(session[i].primary)
      BY <1>7 DEF Usable
    <2>2. multi_state' = "CAS_CONNECT_DONE"
      BY <1>3, <2>1, Zenon DEF TlsInv, KeysNeedTunnel, SoftReset
    <2> QED
      BY <2>2, Zenon DEF KeysNeedTunnel
  <1>13. UntrustedInv(session'["TM_UNTRUSTED"])
    <2>1. UntrustedInv(s)
      BY <1>7 DEF UntrustedInv
    <2> QED
      BY <1>3, <1>6, <2>1, Zenon DEF TlsInv
  <1>14. NoNeedlessRestart'
    BY <1>2, Zenon DEF NoNeedlessRestart, SoftReset
  <1>15. HasKey(session) => HasKey(session')
    <2>1. Usable(s.lame)
      BY <1>7 DEF Usable
    <2>2. CASE i = "TM_ACTIVE"
      BY <1>6, <2>1, <2>2, KeyScanFacts, Zenon
    <2>3. CASE i # "TM_ACTIVE"
      BY <1>3, <1>6, <2>3, KeyScanFacts, Zenon
    <2> QED
      BY <2>2, <2>3
  <1> QED
    BY <1>8, <1>9, <1>10, <1>11, <1>12, <1>13, <1>14, <1>15, InvBySlots, Zenon

LEMMA DoUpKeepsInv == TlsInv /\ do_up => TlsInv' /\ (HasKey(session) => HasKey(session'))
  <1> SUFFICES ASSUME TlsInv, do_up PROVE TlsInv' /\ (HasKey(session) => HasKey(session'))
    OBVIOUS
  <1> DEFINE s == tls_session_generate_data_channel_keys(session["TM_ACTIVE"], FALSE)
  <1>1. session' = [session EXCEPT !["TM_ACTIVE"] = s]
    BY Zenon DEF do_up
  <1>2. session \in [TM -> Session] /\ TypeOK /\ phase = "running"
    BY Zenon DEF TlsInv, TypeOK, do_up, Arrives
  <1>3. "TM_LAME_DUCK" \in TM /\ "TM_UNTRUSTED" \in TM /\ "TM_ACTIVE" \in TM
    BY DEF TM
  <1>4. Sound(session["TM_ACTIVE"]) /\ FALSE \in BOOLEAN
    BY <1>2, <1>3 DEF Sound, TlsInv
  <1>5. /\ Sound(s) /\ s.linked = session["TM_ACTIVE"].linked /\ s.lame = session["TM_ACTIVE"].lame
        /\ s = session["TM_ACTIVE"] \/ s.primary.state = S_GENERATED_KEYS
    BY <1>4, GenerateFacts, Zenon
  <1> HIDE DEF s
  <1>6. /\ session' \in [TM -> Session] /\ session'["TM_ACTIVE"] = s
        /\ \A j \in TM : j # "TM_ACTIVE" => session'[j] = session[j]
    BY <1>1, <1>2, <1>3, <1>5, OneSlot, Zenon DEF Sound
  <1>7. s.primary.state >= S_INITIAL
    <2>1. session["TM_ACTIVE"].primary.state >= S_ACTIVE
      BY DEF do_up
    <2>2. session["TM_ACTIVE"].primary.state \in Int
      BY <1>4, SoundStates, Zenon
    <2> QED
      BY <1>5, <2>1, <2>2
  <1>8. TypeOK'
    <2>1. multi_state' \in {"CAS_NOT_CONNECTED", "CAS_WAITING_OPTIONS_IMPORT", "CAS_CONNECT_DONE"}
      BY DEF do_up
    <2> QED
      BY <1>6, <2>1, Zenon DEF TypeOK, TlsInv, do_up, config
  <1>9. \A j \in TM : LameDuckInv(session'[j])
    BY <1>5, <1>6, Zenon DEF TlsInv, Sound
  <1>10. ~ ExpansionMayFail => Routable'
    BY <1>3, <1>6, <1>7, Zenon DEF TlsInv, Routable, do_up, config
  <1>11. session'["TM_LAME_DUCK"].primary.state < S_INITIAL /\ UntrustedInv(session'["TM_UNTRUSTED"])
    BY <1>3, <1>6, Zenon DEF TlsInv
  <1>12. KeysNeedTunnel'
    BY Zenon DEF KeysNeedTunnel, do_up
  <1>13. NoNeedlessRestart'
    BY <1>2, Zenon DEF NoNeedlessRestart, do_up
  <1>14. HasKey(session) => HasKey(session')
    <2>1. Usable(session["TM_ACTIVE"].primary) => Usable(s.primary)
      BY <1>5 DEF Usable
    <2> QED
      BY <1>3, <1>5, <1>6, <2>1, KeyScanFacts, Zenon
  <1> QED
    BY <1>8, <1>9, <1>10, <1>11, <1>12, <1>13, <1>14, InvBySlots, Zenon

\* The steps that leave the sessions alone.
LEMMA QuietStepsKeepInv ==
    ASSUME TlsInv, \/ BadPacket \/ send_push_request_fails \/ PeerFallsSilent \/ UNCHANGED vars
    PROVE  TlsInv' /\ session' = session
  <1>1. session' = session /\ multi_state' = multi_state /\ UNCHANGED config /\ push_timeout' = push_timeout
    BY Zenon DEF BadPacket, send_push_request_fails, PeerFallsSilent, vars, config
  <1>2. phase' \in {"running", "restarting"} /\ peer' \in {"talking", "silent"}
    BY DEF TlsInv, TypeOK, BadPacket, send_push_request_fails, PeerFallsSilent, vars
  <1>3. TypeOK'
    BY <1>1, <1>2, Zenon DEF TlsInv, TypeOK, config
  <1>4. NoNeedlessRestart'
    <2>1. CASE BadPacket
      <3>1. connection_oriented' = connection_oriented
        BY <1>1 DEF config
      <3> QED
        BY <2>1, <3>1, Zenon DEF NoNeedlessRestart, BadPacket
    <2>2. CASE send_push_request_fails
      <3>1. multi_state # "CAS_CONNECT_DONE"
        BY <2>2 DEF send_push_request_fails
      <3>2. "TM_ACTIVE" \in TM /\ "TM_LAME_DUCK" \in TM
        BY DEF TM
      <3>3. ~ HasKey(session)
        BY <3>1, <3>2, KeyScanFacts, Zenon DEF TlsInv, KeysNeedTunnel
      <3> QED
        BY <1>1, <3>3, Zenon DEF NoNeedlessRestart
    <2>3. CASE PeerFallsSilent \/ UNCHANGED vars
      <3>1. phase' = phase
        BY <2>3, Zenon DEF PeerFallsSilent, vars
      <3> QED
        BY <1>1, <3>1, Zenon DEF NoNeedlessRestart, TlsInv, config
    <2> QED
      BY <2>1, <2>2, <2>3
  <1>5. /\ \A i \in TM : LameDuckInv(session'[i])
        /\ ~ ExpansionMayFail => Routable'
        /\ session'["TM_LAME_DUCK"].primary.state < S_INITIAL
        /\ UntrustedInv(session'["TM_UNTRUSTED"])
        /\ KeysNeedTunnel'
    BY <1>1, Zenon DEF TlsInv, Routable, KeysNeedTunnel, config
  <1> QED
    BY <1>1, <1>3, <1>4, <1>5, InvBySlots, Zenon

\* A tls_multi that is set up is sound.
LEMMA FinalizeFacts ==
    LET ss == tls_multi_init_finalize
    IN  /\ ss \in [TM -> Session] /\ \A i \in TM : ss[i] = tls_session_init \/ ss[i] = UndefSession
        /\ ss["TM_ACTIVE"] = tls_session_init /\ ss["TM_LAME_DUCK"] = UndefSession
        /\ ~ single_session => ss["TM_UNTRUSTED"] = tls_session_init
  <1>1. \A i \in TM : tls_multi_init_finalize[i] = tls_session_init \/ tls_multi_init_finalize[i] = UndefSession
    BY DEF tls_multi_init_finalize
  <1>2. tls_multi_init_finalize = [i \in TM |-> tls_multi_init_finalize[i]]
    BY DEF tls_multi_init_finalize
  <1>3. tls_multi_init_finalize \in [TM -> Session]
    BY <1>1, <1>2, NewSessions, Zenon
  <1>4. /\ tls_multi_init_finalize["TM_ACTIVE"] = tls_session_init
        /\ tls_multi_init_finalize["TM_LAME_DUCK"] = UndefSession
        /\ ~ single_session => tls_multi_init_finalize["TM_UNTRUSTED"] = tls_session_init
    BY DEF tls_multi_init_finalize, TM
  <1> QED
    BY <1>1, <1>3, <1>4, Zenon

\* Sessions that are all new satisfy the invariant's parts.
LEMMA NewMulti ==
    ASSUME session = tls_multi_init_finalize
    PROVE  /\ \A i \in TM : LameDuckInv(session[i])
           /\ Routable /\ KeysNeedTunnel
           /\ session["TM_LAME_DUCK"].primary.state < S_INITIAL
           /\ UntrustedInv(session["TM_UNTRUSTED"])
  <1>1. /\ LameDuckInv(tls_session_init) /\ LameDuckInv(UndefSession)
        /\ UntrustedInv(tls_session_init) /\ UntrustedInv(UndefSession)
        /\ Keyless(tls_session_init) /\ Keyless(UndefSession)
        /\ tls_session_init.primary.state >= S_INITIAL /\ UndefSession.primary.state < S_INITIAL
    BY NewSessions, NewKeys DEF LameDuckInv, UntrustedInv, Keyless, Usable
  <1>2. "TM_UNTRUSTED" \in TM
    BY DEF TM
  <1> QED
    BY <1>1, <1>2, FinalizeFacts, Zenon DEF Routable, KeysNeedTunnel, Keyless

LEMMA InitHasInv == Init => TlsInv
  <1> SUFFICES ASSUME Init PROVE TlsInv
    OBVIOUS
  <1>1. TypeOK
    <2>1. session \in [TM -> Session]
      BY FinalizeFacts, Zenon DEF Init
    <2>2. push_timeout \in 0 .. HandshakeWindow
      BY WindowsAssumption DEF Init
    <2>3. /\ multi_state \in {"CAS_NOT_CONNECTED", "CAS_WAITING_OPTIONS_IMPORT", "CAS_CONNECT_DONE"}
          /\ phase \in {"running", "restarting"} /\ peer \in {"talking", "silent"}
      BY DEF Init
    <2> QED
      BY <2>1, <2>2, <2>3, Zenon DEF Init, TypeOK
  <1>2. NoNeedlessRestart
    BY DEF NoNeedlessRestart, Init
  <1> QED
    BY <1>1, <1>2, NewMulti, Zenon DEF Init, TlsInv

LEMMA RestartKeepsInv == TlsInv /\ Restart => TlsInv'
  <1> SUFFICES ASSUME TlsInv, Restart PROVE TlsInv'
    OBVIOUS
  <1>1. session' = tls_multi_init_finalize /\ tls_multi_init_finalize' = tls_multi_init_finalize
    BY DEF Restart, tls_multi_init_finalize, config
  <1>2. TypeOK'
    <2>1. session' \in [TM -> Session]
      BY <1>1, FinalizeFacts, Zenon
    <2>2. push_timeout' \in 0 .. HandshakeWindow
      BY WindowsAssumption DEF Restart
    <2>3. /\ multi_state' \in {"CAS_NOT_CONNECTED", "CAS_WAITING_OPTIONS_IMPORT", "CAS_CONNECT_DONE"}
          /\ phase' \in {"running", "restarting"}
      BY DEF Restart
    <2> QED
      BY <2>1, <2>2, <2>3, Zenon DEF Restart, TypeOK, TlsInv, config
  <1>3. NoNeedlessRestart'
    BY DEF NoNeedlessRestart, Restart
  <1>4. /\ LameDuckInv(tls_session_init) /\ LameDuckInv(UndefSession)
        /\ UntrustedInv(tls_session_init) /\ UntrustedInv(UndefSession)
        /\ Keyless(tls_session_init) /\ Keyless(UndefSession)
        /\ tls_session_init.primary.state >= S_INITIAL /\ UndefSession.primary.state < S_INITIAL
    BY NewSessions, NewKeys DEF LameDuckInv, UntrustedInv, Keyless, Usable
  <1>5. /\ \A i \in TM : session'[i] = tls_session_init \/ session'[i] = UndefSession
        /\ session'["TM_ACTIVE"] = tls_session_init /\ session'["TM_LAME_DUCK"] = UndefSession
        /\ ~ single_session' => session'["TM_UNTRUSTED"] = tls_session_init
    BY <1>1, FinalizeFacts, Zenon DEF Restart, config
  <1>6. "TM_UNTRUSTED" \in TM
    BY DEF TM
  <1>7. Routable' /\ KeysNeedTunnel'
    BY <1>4, <1>5, Zenon DEF Routable, KeysNeedTunnel, Keyless
  <1> QED
    BY <1>2, <1>3, <1>4, <1>5, <1>6, <1>7, InvBySlots, Zenon

\* Time takes no key away and gives no session anything.
LEMMA TickKeepsInv == TlsInv /\ Tick => TlsInv' /\ (HasKey(session) => HasKey(session'))
  <1> SUFFICES ASSUME TlsInv, Tick PROVE TlsInv' /\ (HasKey(session) => HasKey(session'))
    OBVIOUS
  <1>1. session \in [TM -> Session]
    BY DEF TlsInv, TypeOK
  <1> DEFINE Older(s) == [s EXCEPT !.primary = LessTime(@), !.lame = LessTime(@)]
  <1>2. \A s \in Session : /\ Older(s) \in Session /\ Older(s).linked = s.linked
                           /\ Older(s).primary.state = s.primary.state /\ Older(s).lame.state = s.lame.state
                           /\ s.lame.die # NotSet => Older(s).lame.die # NotSet
    <2> TAKE s \in Session
    <2>1. /\ LessTime(s.primary) \in KeyState /\ LessTime(s.lame) \in KeyState
          /\ LessTime(s.primary).state = s.primary.state /\ LessTime(s.lame).state = s.lame.state
          /\ s.lame.die # NotSet => LessTime(s.lame).die # NotSet
      BY SessionFacts, TimeFacts, Zenon
    <2> DEFINE p == [s EXCEPT !.primary = LessTime(s.primary)]
    <2>2. p \in Session /\ p.primary = LessTime(s.primary) /\ p.lame = s.lame /\ p.linked = s.linked
      BY <2>1, SetPrimary, Zenon
    <2> DEFINE q == [p EXCEPT !.lame = LessTime(s.lame)]
    <2>3. Older(s) = q
      BY DEF Session
    <2> HIDE DEF p, Older
    <2>4. q \in Session /\ q.primary = p.primary /\ q.lame = LessTime(s.lame) /\ q.linked = p.linked
      BY <2>1, <2>2, SetLame, Zenon
    <2> HIDE DEF q
    <2> QED
      BY <2>1, <2>2, <2>3, <2>4, Zenon
  <1>3. session' = [i \in TM |-> Older(session[i])]
    BY Zenon DEF Tick
  <1> HIDE DEF Older
  <1>4. \A i \in TM : session'[i] = Older(session[i]) /\ session[i] \in Session
    BY <1>1, <1>3, Zenon
  <1>5. session' \in [TM -> Session]
    BY <1>1, <1>2, <1>3, Zenon
  <1>6. \A i \in TM : /\ session'[i].linked = session[i].linked
                      /\ session'[i].primary.state = session[i].primary.state
                      /\ session'[i].lame.state = session[i].lame.state
                      /\ session[i].lame.die # NotSet => session'[i].lame.die # NotSet
    BY <1>2, <1>4, Zenon
  <1>7. "TM_LAME_DUCK" \in TM /\ "TM_UNTRUSTED" \in TM /\ "TM_ACTIVE" \in TM
    BY DEF TM
  <1>8. TypeOK'
    <2>1. push_timeout' \in 0 .. HandshakeWindow
      <3>1. push_timeout \in 0 .. HandshakeWindow /\ push_timeout' = Off(push_timeout)
        BY Zenon DEF Tick, TlsInv, TypeOK
      <3> QED
        BY <3>1, WindowsAssumption DEF Off
    <2> QED
      BY <1>5, <2>1, Zenon DEF Tick, TlsInv, TypeOK, config
  <1>9. \A i \in TM : LameDuckInv(session'[i])
    BY <1>6, Zenon DEF TlsInv, LameDuckInv
  <1>10. ~ ExpansionMayFail => Routable'
    BY <1>6, <1>7, Zenon DEF TlsInv, Routable, Tick, config
  <1>11. session'["TM_LAME_DUCK"].primary.state < S_INITIAL
    BY <1>6, <1>7, Zenon DEF TlsInv
  <1>12. UntrustedInv(session'["TM_UNTRUSTED"])
    BY <1>6, <1>7, Zenon DEF TlsInv, UntrustedInv
  <1>13. KeysNeedTunnel'
    BY <1>6, Zenon DEF TlsInv, KeysNeedTunnel, Usable, Tick
  <1>14. HasKey(session) <=> HasKey(session')
    BY <1>6, <1>7, KeyScanFacts, Zenon DEF Usable
  <1>15. NoNeedlessRestart'
    BY <1>14, Zenon DEF TlsInv, NoNeedlessRestart, Tick, config
  <1> QED
    BY <1>8, <1>9, <1>10, <1>11, <1>12, <1>13, <1>14, <1>15, InvBySlots, Zenon
-----------------------------------------------------------------------------
(* The invariant of the specification, and the last key.                   *)

LEMMA NextKeepsInv == TlsInv /\ [Next]_vars => TlsInv'
  <1> SUFFICES ASSUME TlsInv, [Next]_vars PROVE TlsInv'
    OBVIOUS
  <1>1. CASE \E worn \in BOOLEAN : tls_multi_process(worn)
    BY <1>1, TurnKeepsInv, Zenon
  <1>2. CASE HardReset
    BY <1>2, HardResetKeepsInv, Zenon
  <1>3. CASE \E i \in {"TM_ACTIVE", "TM_UNTRUSTED"} : SoftReset(i)
    BY <1>3, SoftResetKeepsInv, Zenon
  <1>4. CASE BadPacket \/ send_push_request_fails \/ PeerFallsSilent \/ UNCHANGED vars
    BY <1>4, QuietStepsKeepInv, Zenon
  <1>5. CASE do_up
    BY <1>5, DoUpKeepsInv, Zenon
  <1>6. CASE Restart
    BY <1>6, RestartKeepsInv, Zenon
  <1>7. CASE Tick
    BY <1>7, TickKeepsInv, Zenon
  <1> QED
    BY <1>1, <1>2, <1>3, <1>4, <1>5, <1>6, <1>7, Zenon DEF Next

LEMMA Invariance == Spec => []TlsInv
  BY InitHasInv, NextKeepsInv, PTL DEF Spec

\* One turn of tls_multi_process() takes the last key only with a restart, at
\* the end of its time, or for another session.
LEMMA TurnKeepsKey ==
    ASSUME TlsInv, NEW worn \in BOOLEAN, NEW a, NEW u, NEW fails, Turn(a, u, fails, worn),
           HasKey(session), ~ HasKey(session'), phase' # "restarting"
    PROVE  KeysRanOut \/ Usurped
  <1> DEFINE A2 == ActiveMade(a, fails)
             U2 == UntrustedMade(u, fails)
             L2 == LameMade(a, fails)
             U1 == IF HitError("TM_UNTRUSTED", u) THEN tls_session_init ELSE u
             moved == U2.primary.state >= S_GOT_KEY
             A == session["TM_ACTIVE"]
             L == session["TM_LAME_DUCK"]
  <1>1. /\ TypeOK /\ fails \in BOOLEAN /\ Sound(a) /\ Sound(u) /\ Sound(A2) /\ Sound(U2) /\ Sound(L2)
        /\ \A i \in TM : LameDuckInv(session[i]) /\ Sound(session[i])
    BY TurnFacts, Zenon DEF TlsInv, TypeOK, Sound
  <1>2. "TM_ACTIVE" \in TM /\ "TM_LAME_DUCK" \in TM /\ "TM_UNTRUSTED" \in TM
    BY DEF TM
  <1>3. multi_state = "CAS_CONNECT_DONE"
    BY <1>2, KeyScanFacts, Zenon DEF TlsInv, KeysNeedTunnel
  <1>4. /\ session'["TM_ACTIVE"] = IF moved THEN U2 ELSE A2
        /\ session'["TM_UNTRUSTED"] = IF moved THEN tls_session_init ELSE U2
        /\ session'["TM_LAME_DUCK"] = IF lame_duck_must_die(L2) THEN UndefSession ELSE L2
    BY TurnFacts, Zenon
  <1>5. /\ ~ Usable(session'["TM_ACTIVE"].primary) /\ ~ Usable(session'["TM_ACTIVE"].lame)
        /\ ~ Usable(session'["TM_LAME_DUCK"].lame)
    BY KeyScanFacts, Zenon
  <1>6. ~ IsFatal(a, u, session')
    BY Zenon DEF Turn
  <1>7. CASE moved
    <2>1. Sound(U1)
      BY <1>1, NewIsSound, Zenon
    <2>2. /\ U2.linked = U1.linked
          /\ U1.primary.state # S_ACTIVE => U2 = U1
          /\ U1.primary.state = S_ACTIVE => U2.primary.state = IF fails THEN S_ERROR ELSE S_GENERATED_KEYS
      BY <1>1, <1>3, <2>1, MadeFacts, Zenon DEF UntrustedMade
    <2>3. ~ Usable(U2.primary) /\ session'["TM_ACTIVE"] = U2 /\ session'["TM_UNTRUSTED"] = tls_session_init
      BY <1>4, <1>5, <1>7, Zenon
    <2>4. U1.primary.state \in Int /\ U2.primary.state \in S_ERROR .. S_GENERATED_KEYS
      <3>1. U2.primary \in KeyState
        BY <1>1, SessionFacts, Zenon DEF Sound
      <3> QED
        BY <2>1, <3>1, SoundStates, KeyTypes, Zenon
    <2> HIDE DEF U1, U2
    <2>5. U1.primary.state # S_ACTIVE /\ U2 = U1 /\ U1.primary.state \in {S_GOT_KEY, S_ACTIVE}
      BY <1>7, <2>2, <2>3, <2>4 DEF Usable
    <2>6. session'["TM_ACTIVE"].primary.state = S_GOT_KEY
      BY <2>3, <2>5
    <2>7. U1 = u
      <3>1. tls_session_init.primary.state = S_INITIAL
        BY NewSessions, NewKeys
      <3>2. U1 # tls_session_init
        BY <2>3, <2>5, <2>6, <3>1
      <3> QED
        BY <3>2, Zenon DEF U1
    <2>8. session["TM_UNTRUSTED"].linked
      <3>1. CASE IsProcessed("TM_UNTRUSTED")
        BY <3>1 DEF IsProcessed
      <3>2. CASE ~ IsProcessed("TM_UNTRUSTED")
        <4>1. u = session["TM_UNTRUSTED"]
          BY <1>1, <1>2, <3>2, ProcessedFacts, Zenon DEF Turn
        <4>2. ~ (u.primary.state <= S_INITIAL)
          BY <2>3, <2>5, <2>6, <2>7
        <4> QED
          BY <4>1, <4>2, Zenon DEF TlsInv, UntrustedInv
      <3> QED
        BY <3>1, <3>2
    <2>9. ~ session'["TM_UNTRUSTED"].linked
      BY <2>3, NewSessions, Zenon
    <2> QED
      BY <2>6, <2>8, <2>9, Zenon DEF Usurped
  <1>8. CASE ~ moved
    <2>1. session'["TM_ACTIVE"] = A2
      BY <1>4, <1>8, Zenon
    <2>2. LameDuckInv(session'["TM_LAME_DUCK"])
      BY <1>1, <1>4, NewIsSound, Zenon DEF Sound
    <2>3. session'["TM_LAME_DUCK"].lame.state < S_ACTIVE
      BY <1>5, <2>2 DEF LameDuckInv, Usable
    <2>4. ~ HitError("TM_ACTIVE", a)
      <3> SUFFICES ASSUME HitError("TM_ACTIVE", a) PROVE FALSE
        OBVIOUS
      <3>1. /\ tls_session_init.primary.state = S_INITIAL /\ tls_session_init.lame.state = S_UNDEF
            /\ tls_session_init.primary.state # S_ACTIVE
        BY NewSessions, NewKeys
      <3>2. A2 = tls_session_init
        BY <1>1, <3>1, MadeFacts, NewIsSound, Zenon DEF ActiveMade
      <3> HIDE DEF A2
      <3>3. session'["TM_ACTIVE"].primary.state < S_ACTIVE /\ session'["TM_ACTIVE"].lame.state < S_ACTIVE
        BY <2>1, <3>1, <3>2
      <3>4. NoKeyLeft(session')
        BY <2>3, <3>3, KeyScanFacts, Zenon
      <3> QED
        BY <1>6, <3>4, Zenon DEF IsFatal
    <2>5. A2 = Made(a, fails) /\ L2 = Made(L, fails)
      BY <2>4, Zenon DEF ActiveMade, LameMade, KeepsLameDuck
    <2>6. ~ Usable(a.lame) /\ ~ Usable(a.primary)
      <3>1. A2.lame = a.lame /\ (a.primary.state # S_ACTIVE => A2 = a)
        BY <1>1, <2>5, MadeFacts, Zenon
      <3>2. a.primary.state \in Int
        BY <1>1, SoundStates, Zenon
      <3>3. Usable(a.primary) => a.primary.state # S_ACTIVE
        BY <3>2 DEF Usable
      <3> QED
        BY <1>5, <2>1, <3>1, <3>3, Zenon
    <2>7. ~ Usable(A.primary) /\ (Usable(A.lame) => A.lame.die = 0)
      <3>1. /\ Usable(A.primary) =>
                  Usable(a.primary) \/ Usable(a.lame) \/ (IsProcessed("TM_ACTIVE") /\ a.primary.state = S_ERROR)
            /\ Usable(A.lame) /\ A.lame.die # 0 => Usable(a.lame)
        BY <1>1, <1>2, ProcessedFacts, Zenon DEF Turn
      <3> QED
        BY <2>4, <2>6, <3>1, Zenon DEF HitError
    <2>8. Usable(L.lame) => L.lame.die = 0
      <3> SUFFICES ASSUME Usable(L.lame), L.lame.die # 0 PROVE FALSE
        OBVIOUS
      <3>0. Sound(L)
        BY <1>1, <1>2, Zenon
      <3> HIDE DEF L2, L
      <3>1. L2.lame = L.lame
        BY <1>1, <2>5, <3>0, MadeFacts, Zenon
      <3>2. ~ lame_duck_must_die(L2)
        BY <3>1 DEF lame_duck_must_die, Usable
      <3> QED
        BY <1>4, <1>5, <3>1, <3>2, Zenon
    <2> QED
      BY <2>7, <2>8, Zenon DEF KeysRanOut
  <1> QED
    BY <1>7, <1>8

LEMMA NextKeepsKey ==
    ASSUME TlsInv, [Next]_vars, HasKey(session), ~ HasKey(session')
    PROVE  phase' = "restarting" \/ phase = "restarting" \/ KeysRanOut \/ Usurped
  <1>1. CASE \E worn \in BOOLEAN : tls_multi_process(worn)
    <2>1. PICK worn \in BOOLEAN : tls_multi_process(worn)
      BY <1>1
    <2>2. PICK a \in Processed("TM_ACTIVE", worn), u \in Processed("TM_UNTRUSTED", worn),
               fails \in {FALSE, ExpansionMayFail} : Turn(a, u, fails, worn)
      BY <2>1, Zenon DEF tls_multi_process, Turn
    <2> QED
      BY <2>1, <2>2, TurnKeepsKey, Zenon
  <1>2. CASE HardReset
    BY <1>2, HardResetKeepsInv, Zenon
  <1>3. CASE \E i \in {"TM_ACTIVE", "TM_UNTRUSTED"} : SoftReset(i)
    BY <1>3, SoftResetKeepsInv, Zenon
  <1>4. CASE BadPacket \/ send_push_request_fails \/ PeerFallsSilent \/ UNCHANGED vars
    <2>1. session' = session
      BY <1>4, QuietStepsKeepInv, Zenon
    <2> QED
      BY <2>1, Zenon
  <1>5. CASE do_up
    BY <1>5, DoUpKeepsInv, Zenon
  <1>6. CASE Restart
    BY <1>6, Zenon DEF Restart
  <1>7. CASE Tick
    BY <1>7, TickKeepsInv, Zenon
  <1> QED
    BY <1>1, <1>2, <1>3, <1>4, <1>5, <1>6, <1>7, Zenon DEF Next
-----------------------------------------------------------------------------
\* Whatever the peer sends, every key, timer and session of ssl.c keeps its
\* type.
THEOREM TypeCorrect == Spec => []TypeOK
  <1>1. TlsInv => TypeOK
    BY DEF TlsInv
  <1> QED
    BY <1>1, Invariance, PTL

\* The assertions of tls_pre_decrypt(), tls_process() and lame_duck_must_die()
\* hold, in every build in which generate_key_expansion() does not fail.
THEOREM NoAssertionFails == ASSUME ~ ExpansionMayFail PROVE Spec => []AssertionsHold
  <1>1. TlsInv => AssertionsHold
    BY Zenon DEF TlsInv, AssertionsHold, Routable, LameDuckInv
  <1> QED
    BY <1>1, Invariance, PTL

\* Over UDP a restart is decided only when no key could carry the traffic,
\* whether or not the expansion of a key may fail.
THEOREM RestartsAreNeeded == Spec => []NoNeedlessRestart
  <1>1. TlsInv => NoNeedlessRestart
    BY DEF TlsInv
  <1> QED
    BY <1>1, Invariance, PTL

\* No renegotiation, failed or repeated, takes the last data channel key away
\* (KEY_SCAN_SIZE in ssl_common.h), for every choice of the time windows.
THEOREM LastKeyIsKept == Spec => KeyIsKept
  <1>1. TlsInv /\ [Next]_vars =>
          [HasKey(session) /\ ~ HasKey(session') => \/ phase' = "restarting" \/ phase = "restarting"
                                                     \/ KeysRanOut \/ Usurped]_vars
    BY NextKeepsKey, Zenon
  <1> QED
    BY <1>1, Invariance, PTL DEF Spec, KeyIsKept
=============================================================================
