---------------------------- MODULE TlsSessions ----------------------------
(***************************************************************************)
(* The sessions and keys of ssl.c on a client: negotiating a key, retiring *)
(* it, renegotiating, surviving a failed negotiation on a lame duck key,   *)
(* giving way to another session, and restarting when no key is left.      *)
(*                                                                         *)
(* The peer and the network may do anything: how far the packets that have *)
(* arrived carry a handshake, whether the TLS library fails on them, and   *)
(* what resets the peer asks for are choices.  ReliableChannel has the     *)
(* packets.  Times are kept as the time left, so the clock has no bound.   *)
(***************************************************************************)
EXTENDS Integers

CONSTANTS
    HandshakeWindow,    \* --hand-window
    TransitionWindow,   \* --tran-window
    RenegSeconds,       \* --reneg-sec, 0 is never
    SingleSession,      \* --single-session: the values considered
    Tcp,                \* connection oriented link: the values considered
    ExpansionMayFail    \* generate_key_expansion() may fail

ASSUME WindowsAssumption ==
    /\ HandshakeWindow \in Nat \ {0}
    /\ TransitionWindow \in Nat \ {0}
    /\ RenegSeconds \in Nat
    /\ SingleSession \subseteq BOOLEAN
    /\ Tcp \subseteq BOOLEAN
    /\ ExpansionMayFail \in BOOLEAN

S_ERROR          == -1
S_UNDEF          == 0
S_INITIAL        == 1
S_PRE_START      == 2
S_SENT_KEY       == 4     \* S_START, 3, is left in the call that reaches it
S_GOT_KEY        == 5
S_ACTIVE         == 6
S_GENERATED_KEYS == 7

TM == {"TM_ACTIVE", "TM_UNTRUSTED", "TM_LAME_DUCK"}

VARIABLES
    session,          \* multi->session
    multi_state,      \* CAS_NOT_CONNECTED, CAS_WAITING_OPTIONS_IMPORT, CAS_CONNECT_DONE
    push_timeout,     \* time left of push_request_timeout
    phase,            \* running, or restarting on SIGUSR1
    single_session, connection_oriented,
    peer              \* talking or silent (external)

config == <<single_session, connection_oriented>>
vars == <<session, multi_state, push_timeout, phase, config, peer>>

NotSet == -1
Off(t) == IF t > 0 THEN t - 1 ELSE t      \* a second less

\* struct key_state: must_negotiate, established + renegotiate_seconds and
\* must_die.  Which of several keys data is sent with (auth_deferred_expire)
\* and the key ids are left out: the properties ask whether there is one.
KeyState == [state : S_ERROR .. S_GENERATED_KEYS,
             negotiate : NotSet .. HandshakeWindow, renegotiate : NotSet .. RenegSeconds,
             die : NotSet .. TransitionWindow]

UndefKey == [state |-> S_UNDEF, negotiate |-> NotSet, renegotiate |-> NotSet,
             die |-> NotSet]

\* struct tls_session; linked: session_id_remote is defined.
Session == [primary : KeyState, lame : KeyState, linked : BOOLEAN]

UndefSession == [primary |-> UndefKey, lame |-> UndefKey, linked |-> FALSE]
-----------------------------------------------------------------------------
\* Keys and sessions

key_state_init == [UndefKey EXCEPT !.state = S_INITIAL]

tls_session_init == [UndefSession EXCEPT !.primary = key_state_init]

\* The primary key retires, a new one takes its place and keeps the peer.
key_state_soft_reset(s) ==
    [s EXCEPT !.lame = [s.primary EXCEPT !.die = TransitionWindow], !.primary = key_state_init]

\* Mutant: a negotiation may last as long as a retired key.
SlowHandshake(k) == [k EXCEPT !.state = S_PRE_START, !.negotiate = TransitionWindow]

session_move_pre_start(k) == [k EXCEPT !.state = S_PRE_START, !.negotiate = HandshakeWindow]

session_move_active(k) ==
    [k EXCEPT !.state = S_ACTIVE, !.negotiate = NotSet,
              !.renegotiate = IF RenegSeconds = 0 THEN NotSet ELSE RenegSeconds]

lame_duck_must_die(s) ==
    \/ s.lame.state >= S_INITIAL /\ s.lame.die = 0
    \/ s.lame.state = S_ERROR

\* The keys data packets are encrypted and decrypted with, in this order.
KeyScan(ss) == <<ss["TM_ACTIVE"].primary, ss["TM_ACTIVE"].lame, ss["TM_LAME_DUCK"].lame>>

Usable(k) == k.state >= S_GENERATED_KEYS

\* Is there a key for tls_select_encryption_key() to choose?
HasKey(ss) == \E i \in 1 .. 3 : Usable(KeyScan(ss)[i])
-----------------------------------------------------------------------------
\* tls_process()

\* How far one call may take a handshake, with what the peer has sent.
Reachable(k) ==
    {k} \cup (CASE k.state = S_PRE_START -> {[k EXCEPT !.state = S_SENT_KEY]}
                [] k.state = S_SENT_KEY ->
                      {[k EXCEPT !.state = S_GOT_KEY], session_move_active(k)}
                [] k.state = S_GOT_KEY -> {session_move_active(k)}
                [] OTHER -> {})

Failed(k) == [k EXCEPT !.state = S_ERROR]

TimedOut(k) == k.negotiate = 0 /\ k.state < S_ACTIVE

\* A peer that is silent or not known yet brings neither progress nor errors.
tls_process_state(k, heard) ==
    LET k1 == IF k.state = S_INITIAL THEN session_move_pre_start(k) ELSE k
    IN  IF TimedOut(k1) THEN {Failed(k1)}
        ELSE IF heard THEN Reachable(k1) \cup {Failed(k1)}
        ELSE {k1}

\* Mutant: the age of a key does not count.
OnlyWornKeys(k, worn) == k.state >= S_GENERATED_KEYS /\ worn

SoftResetDue(k, worn) ==
    k.state >= S_GENERATED_KEYS /\ (k.renegotiate = 0 \/ worn)

\* What tls_process() may make of a session; worn: the key has served for
\* enough bytes or packets.
tls_process(s, worn) ==
    LET s1 == IF SoftResetDue(s.primary, worn) THEN key_state_soft_reset(s) ELSE s
        s2 == IF lame_duck_must_die(s1) THEN [s1 EXCEPT !.lame = UndefKey] ELSE s1
    IN  {[s2 EXCEPT !.primary = k] :
           k \in tls_process_state(s2.primary, s2.linked /\ peer = "talking")}

\* The active session knows its peer's address from the configuration.
IsProcessed(i) ==
    session[i].primary.state >= S_INITIAL /\ (i = "TM_ACTIVE" \/ session[i].linked)

Processed(i, worn) == IF IsProcessed(i) THEN tls_process(session[i], worn) ELSE {session[i]}
-----------------------------------------------------------------------------
\* tls_multi_process()

HitError(i, s) == IsProcessed(i) /\ s.primary.state = S_ERROR

\* A failed session with a good lame duck key retires with it, to be replaced
\* by a new one; any other failed session starts again.
KeepsLameDuck(a) ==
    HitError("TM_ACTIVE", a) /\ a.lame.state >= S_ACTIVE /\ ~ single_session

Recovered(a, u) ==
    [session EXCEPT
        !["TM_ACTIVE"] = IF HitError("TM_ACTIVE", a) THEN tls_session_init ELSE a,
        !["TM_UNTRUSTED"] = IF HitError("TM_UNTRUSTED", u) THEN tls_session_init ELSE u,
        !["TM_LAME_DUCK"] = IF KeepsLameDuck(a) THEN a ELSE @]

StateAfter(a, u) ==
    IF multi_state = "CAS_NOT_CONNECTED" /\ S_ACTIVE \in {a.primary.state, u.primary.state}
    THEN "CAS_WAITING_OPTIONS_IMPORT" ELSE multi_state

\* Data channel keys, for the keys negotiated while the tunnel is up.  A key
\* whose expansion fails is left in S_ERROR.
tls_session_generate_data_channel_keys(s, fails) ==
    IF s.primary.state = S_ACTIVE
    THEN [s EXCEPT !.primary.state = IF fails THEN S_ERROR ELSE S_GENERATED_KEYS]
    ELSE s

Generated(ss, fails) ==
    IF multi_state = "CAS_CONNECT_DONE"
    THEN [i \in TM |-> tls_session_generate_data_channel_keys(ss[i], fails)] ELSE ss

Expired(ss) ==
    IF lame_duck_must_die(ss["TM_LAME_DUCK"])
    THEN [ss EXCEPT !["TM_LAME_DUCK"] = UndefSession] ELSE ss

\* Mutant: the untrusted slot is left empty.
MovedAway(ss) ==
    IF ss["TM_UNTRUSTED"].primary.state >= S_GOT_KEY
    THEN [ss EXCEPT !["TM_ACTIVE"] = ss["TM_UNTRUSTED"], !["TM_UNTRUSTED"] = UndefSession]
    ELSE ss

\* An untrusted session that has the peer's key usurps the active one.
Promoted(ss) ==
    IF ss["TM_UNTRUSTED"].primary.state >= S_GOT_KEY
    THEN [ss EXCEPT !["TM_ACTIVE"] = ss["TM_UNTRUSTED"], !["TM_UNTRUSTED"] = tls_session_init]
    ELSE ss

\* Mutant: the detached lame duck is forgotten.
NoActiveKeyLeft(ss) == \A i \in 1 .. 2 : KeyScan(ss)[i].state < S_ACTIVE

\* No key that is S_ACTIVE or more is left to go on with.
NoKeyLeft(ss) == \A i \in 1 .. 3 : KeyScan(ss)[i].state < S_ACTIVE

\* With check_tls_errors(), which follows at once: errors that end the session.
IsFatal(a, u, ss) ==
    IF connection_oriented
    THEN HitError("TM_ACTIVE", a) \/ HitError("TM_UNTRUSTED", u)
    ELSE HitError("TM_ACTIVE", a) /\ NoKeyLeft(ss)

tls_multi_process(worn) ==
    /\ phase = "running"
    /\ \E a \in Processed("TM_ACTIVE", worn), u \in Processed("TM_UNTRUSTED", worn),
          fails \in {FALSE, ExpansionMayFail} :
         LET ss == Promoted(Expired(Generated(Recovered(a, u), fails)))
         IN  /\ session' = ss
             /\ multi_state' = StateAfter(a, u)
             /\ push_timeout' = IF multi_state' # multi_state THEN HandshakeWindow ELSE push_timeout
             /\ phase' = IF IsFatal(a, u, ss) THEN "restarting" ELSE phase
    /\ UNCHANGED <<config, peer>>
-----------------------------------------------------------------------------
\* tls_pre_decrypt(): control packets that do more than feed a handshake

Arrives == phase = "running" /\ peer = "talking"

\* Mutant: a hard reset starts its session from the beginning.
FreshHardReset ==
    /\ Arrives
    /\ \E i \in {"TM_ACTIVE", "TM_UNTRUSTED"} :
         /\ i = IF session["TM_ACTIVE"].linked THEN "TM_UNTRUSTED" ELSE "TM_ACTIVE"
         /\ single_session => i = "TM_ACTIVE"
         /\ session' = [session EXCEPT ![i] = [tls_session_init EXCEPT !.linked = TRUE]]
    /\ UNCHANGED <<multi_state, push_timeout, phase, config, peer>>

\* A hard reset with a session id that is not known opens a session: the
\* active one if it has no peer, else the untrusted one, whoever has that.
\* (--single-session also refuses to link the active one a second time; by
\* then it has restarted.)
HardReset ==
    /\ Arrives
    /\ \E i \in {"TM_ACTIVE", "TM_UNTRUSTED"} :
         /\ i = IF session["TM_ACTIVE"].linked THEN "TM_UNTRUSTED" ELSE "TM_ACTIVE"
         /\ single_session => i = "TM_ACTIVE"
         /\ session' = [session EXCEPT ![i].linked = TRUE]
    /\ UNCHANGED <<multi_state, push_timeout, phase, config, peer>>

\* Mutant: the peer may ask while the last negotiation is still going on.
SoftResetAnyTime(i) ==
    /\ Arrives
    /\ session[i].linked
    /\ session[i].primary.state >= S_INITIAL
    /\ session' = [session EXCEPT ![i] = key_state_soft_reset(@)]
    /\ UNCHANGED <<multi_state, push_timeout, phase, config, peer>>

\* The peer asks for a new key: heeded only when the last one is in place.
SoftReset(i) ==
    /\ Arrives
    /\ session[i].linked
    /\ session[i].primary.state >= S_GENERATED_KEYS
    /\ session' = [session EXCEPT ![i] = key_state_soft_reset(@)]
    /\ UNCHANGED <<multi_state, push_timeout, phase, config, peer>>

\* Any packet that is refused is a soft error, which ends a TCP session.
BadPacket ==
    /\ Arrives
    /\ connection_oriented
    /\ phase' = "restarting"
    /\ UNCHANGED <<session, multi_state, push_timeout, config, peer>>
-----------------------------------------------------------------------------
\* Around the sessions

\* The server's push reply brings up the tunnel and makes the first keys.
do_up ==
    /\ Arrives
    /\ multi_state = "CAS_WAITING_OPTIONS_IMPORT"
    /\ session["TM_ACTIVE"].primary.state >= S_ACTIVE
    /\ session' = [session EXCEPT !["TM_ACTIVE"] =
                     tls_session_generate_data_channel_keys(@, FALSE)]
    /\ multi_state' = "CAS_CONNECT_DONE"
    /\ UNCHANGED <<push_timeout, phase, config, peer>>

\* Push requests without a usable reply; nothing at all from the peer, or a
\* do_up() that fails, ends the wait before its timeout.
send_push_request_fails ==
    /\ phase = "running"
    /\ multi_state = "CAS_WAITING_OPTIONS_IMPORT"
    /\ phase' = "restarting"
    /\ UNCHANGED <<session, multi_state, push_timeout, config, peer>>

tls_multi_init_finalize ==
    [i \in TM |-> IF i = "TM_ACTIVE" \/ (i = "TM_UNTRUSTED" /\ ~ single_session)
                  THEN tls_session_init ELSE UndefSession]

Restart ==
    /\ phase = "restarting"
    /\ session' = tls_multi_init_finalize
    /\ multi_state' = "CAS_NOT_CONNECTED"
    /\ push_timeout' = 0
    /\ phase' = "running"
    /\ UNCHANGED <<config, peer>>

LessTime(k) ==
    [k EXCEPT !.negotiate = Off(@), !.renegotiate = Off(@), !.die = Off(@)]

Tick ==
    /\ session' = [i \in TM |-> [session[i] EXCEPT !.primary = LessTime(@), !.lame = LessTime(@)]]
    /\ push_timeout' = Off(push_timeout)
    /\ UNCHANGED <<multi_state, phase, config, peer>>

PeerFallsSilent ==
    /\ peer = "talking"
    /\ peer' = "silent"
    /\ UNCHANGED <<session, multi_state, push_timeout, phase, config>>

Init ==
    /\ single_session \in SingleSession
    /\ connection_oriented \in Tcp
    /\ session = tls_multi_init_finalize
    /\ multi_state = "CAS_NOT_CONNECTED"
    /\ push_timeout = 0
    /\ phase = "running"
    /\ peer = "talking"

Next ==
    \/ \E worn \in BOOLEAN : tls_multi_process(worn)
    \/ HardReset
    \/ \E i \in {"TM_ACTIVE", "TM_UNTRUSTED"} : SoftReset(i)
    \/ BadPacket
    \/ do_up
    \/ send_push_request_fails
    \/ Restart
    \/ Tick
    \/ PeerFallsSilent

Spec == Init /\ [][Next]_vars

\* Time passes, the event loop turns, a signal is acted upon; nothing obliges
\* a key to carry enough traffic to wear out.
Fairness ==
    /\ WF_vars(Tick)
    /\ WF_vars(tls_multi_process(FALSE))
    /\ WF_vars(push_timeout = 0 /\ send_push_request_fails)
    /\ WF_vars(Restart)

FairSpec == Spec /\ Fairness
-----------------------------------------------------------------------------
\* Every key, timer and session stays within what ssl.c gives it.
TypeOK ==
    /\ session \in [TM -> Session]
    /\ multi_state \in {"CAS_NOT_CONNECTED", "CAS_WAITING_OPTIONS_IMPORT", "CAS_CONNECT_DONE"}
    /\ push_timeout \in 0 .. HandshakeWindow
    /\ phase \in {"running", "restarting"}
    /\ single_session \in SingleSession /\ connection_oriented \in Tcp
    /\ peer \in {"talking", "silent"}

\* Whatever resets, errors and timeouts there were, the assertions of ssl.c
\* hold: a session that a control packet can be routed to is initialised and
\* not in S_ERROR (tls_pre_decrypt, tls_process), a lame duck key has an
\* expiration (lame_duck_must_die), and the lame duck session is only kept
\* for its lame duck key, never negotiated.
AssertionsHold ==
    /\ \A i \in {"TM_ACTIVE", "TM_UNTRUSTED"} :
          i = "TM_ACTIVE" \/ ~ single_session => session[i].primary.state >= S_INITIAL
    /\ session["TM_LAME_DUCK"].primary.state < S_INITIAL
    /\ \A i \in TM : session[i].lame.state >= S_INITIAL => session[i].lame.die # NotSet

\* "A hard error means that TM_ACTIVE hit an S_ERROR state and that no other
\* key state objects are S_ACTIVE or higher" (tls_multi_process): over UDP no
\* TLS error tears the connection down while a key could still carry the
\* traffic.  (ping-restart and restarts pushed by the server are left out.)
NoNeedlessRestart ==
    phase = "restarting" /\ ~ connection_oriented => ~ HasKey(session)

\* Every key there was had reached the end of its time as a lame duck.
KeysRanOut ==
    /\ ~ Usable(session["TM_ACTIVE"].primary)
    /\ \A i \in {"TM_ACTIVE", "TM_LAME_DUCK"} : Usable(session[i].lame) => session[i].lame.die = 0

\* The untrusted session took over.
Usurped ==
    /\ session["TM_UNTRUSTED"].linked /\ ~ session'["TM_UNTRUSTED"].linked
    /\ session'["TM_ACTIVE"].primary.state = S_GOT_KEY

\* "We can be assured of having a data channel key available even when network
\* conditions are so bad that we can't negotiate a new key within the time
\* allotted" (KEY_SCAN_SIZE in ssl_common.h): no renegotiation, failed or
\* repeated, takes the last key away.  It goes only with a restart, at the
\* end of its time as a lame duck, or when another session usurps this one.
KeyIsKept ==
    [][HasKey(session) /\ ~ HasKey(session') => \/ phase' = "restarting" \/ phase = "restarting"
                                                 \/ KeysRanOut \/ Usurped]_vars

\* A peer that no longer answers is noticed in every state of the sessions:
\* by the negotiation timeout, by the key's age, or by the push request's.
SilenceIsNoticed == peer = "silent" ~> phase = "restarting"

\* A half-open untrusted session ends, promoted or reset, however many hard
\* resets keep arriving for it: must_negotiate is not renewed by them.
UntrustedIsFreed == session["TM_UNTRUSTED"].linked ~> ~ session["TM_UNTRUSTED"].linked
=============================================================================
