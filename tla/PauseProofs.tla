----------------------------- MODULE PauseProofs -----------------------------
(***************************************************************************)
(* Theorems about the pause and hold protocol, for every set of networks,  *)
(* every preference and every bound.                                       *)
(***************************************************************************)
EXTENDS PauseProtocol, TLAPS

USE DEF Threads

-----------------------------------------------------------------------------
(* What Append and Tail do to the two sockets.                             *)

\* Appending a message keeps the earlier ones in place.
LEMMA AppendFacts ==
    ASSUME NEW S, NEW s \in Seq(S), NEW e \in S
    PROVE  /\ Append(s, e) \in Seq(S)
           /\ DOMAIN Append(s, e) = 1..(Len(s) + 1)
           /\ DOMAIN s = 1..Len(s)
           /\ Len(s) \in Nat
           /\ \A i \in 1..Len(s) : Append(s, e)[i] = s[i]
           /\ Append(s, e)[Len(s) + 1] = e
  OBVIOUS

\* Reading a message moves the others forward by one.
LEMMA TailFacts ==
    ASSUME NEW S, NEW s \in Seq(S), s # <<>>
    PROVE  /\ Tail(s) \in Seq(S)
           /\ DOMAIN Tail(s) = 1..(Len(s) - 1)
           /\ DOMAIN s = 1..Len(s)
           /\ Len(s) \in Nat \ {0}
           /\ \A i \in 1..(Len(s) - 1) : Tail(s)[i] = s[i + 1]
           /\ Head(s) = s[1]
  OBVIOUS

\* A thread that enters a method leaves the other threads where they are.
LEMMA EnterType ==
    ASSUME pc \in [Threads -> Ops], NEW t \in Threads, NEW o \in Ops, Enter(t, o)
    PROVE  pc' \in [Threads -> Ops] /\ pc'[t] = o /\ \A u \in Threads \ {t} : pc'[u] = pc[u]
  BY DEF Enter

\* The two steps of SCREEN_ON.
LEMMA ScreenOnEnters ==
    /\ ScreenOn => \E o \in {"screenOnConnected", "screenOnPaused"} :
                      Enter("main", o) /\ (o = "screenOnConnected" => shouldBeConnected)
    /\ ScreenOnGoesOn => \E o \in {"resume", "idle", "pause"} : Enter("main", o)
  <1>1. ASSUME ScreenOn
        PROVE  \E o \in {"screenOnConnected", "screenOnPaused"} :
                  Enter("main", o) /\ (o = "screenOnConnected" => shouldBeConnected)
    <2>1. CASE shouldBeConnected
      BY <1>1, <2>1 DEF ScreenOn
    <2>2. CASE ~shouldBeConnected
      BY <1>1, <2>2 DEF ScreenOn
    <2> QED
      BY <2>1, <2>2
  <1>2. ASSUME ScreenOnGoesOn PROVE \E o \in {"resume", "idle", "pause"} : Enter("main", o)
    BY <1>2, Zenon DEF ScreenOnGoesOn
  <1> QED
    BY <1>1, <1>2

-----------------------------------------------------------------------------
(* Type correctness.                                                       *)

\* A callback of the receiver keeps the types.
LEMMA ReceiverType ==
    TypeOK /\ ReceiverNext /\ UNCHANGED holdVars => TypeOK'
  <1> SUFFICES ASSUME TypeOK, ReceiverNext, UNCHANGED holdVars
               PROVE  ReceiverTypeOK'
    BY DEF TypeOK, HoldTypeOK, holdVars
  <1> USE ReceiverAssumption DEF TypeOK, ReceiverTypeOK, ConnectState
  <1>1. ASSUME networkStateChange, registered' \in BOOLEAN, netBroadcast' \in BOOLEAN
        PROVE  ReceiverTypeOK'
    <2>1. CASE SameNetworkReturns
      BY <1>1, <2>1, EnterType DEF networkStateChange, SameNetworkReturns, Ops
    <2>2. CASE NetworkConnects
      BY <1>1, <2>2, EnterType DEF networkStateChange, NetworkConnects, Ops
    <2>3. CASE NetworkLost
      BY <1>1, <2>3 DEF networkStateChange, NetworkLost
    <2> QED
      BY <1>1, <2>1, <2>2, <2>3 DEF networkStateChange
  <1>2. CASE ActiveNetworkChanges
    BY <1>2 DEF ActiveNetworkChanges
  <1>3. CASE registerDeviceStateReceiver
    BY <1>1, <1>3 DEF registerDeviceStateReceiver
  <1>4. CASE ConnectivityBroadcast
    BY <1>1, <1>4 DEF ConnectivityBroadcast
  <1>5. CASE mDelayDisconnectRunnable
    BY <1>5, EnterType DEF mDelayDisconnectRunnable, Ops
  <1>6. CASE ScreenOff
    BY <1>6 DEF ScreenOff
  <1>7. CASE ScreenOn \/ ScreenOnGoesOn
    <2>1. pc' \in [Threads -> Ops]
      <3>1. PICK o \in Ops : Enter("main", o)
        BY <1>7, ScreenOnEnters DEF Ops
      <3> QED
        BY <3>1, EnterType
    <2>2. CASE ScreenOn
      BY <2>1, <2>2, Zenon DEF ScreenOn
    <2>3. CASE ScreenOnGoesOn
      <3>1. screen' = "SHOULDBECONNECTED" /\ delayPosted' = 0
        BY <2>3, Zenon DEF ScreenOnGoesOn
      <3>2. UNCHANGED <<network, userpause, lastConnectedNetwork, registered, activeNet,
                        netBroadcast, screenOn>>
        BY <2>3, Zenon DEF ScreenOnGoesOn
      <3> QED
        BY <2>1, <3>1, <3>2
    <2> QED
      BY <1>7, <2>2, <2>3
  <1>8. CASE updateByteCount
    BY <1>8, EnterType DEF updateByteCount, Ops
  <1>9. CASE userPause
    BY <1>9, EnterType DEF userPause, UserPauses, UserResumes, UserResumeGoesOn, receiverVars, Ops
  <1> QED
    BY <1>2, <1>3, <1>4, <1>5, <1>6, <1>7, <1>8, <1>9 DEF ReceiverNext

\* A step of the management interface or of openvpn keeps the types.
LEMMA HoldType ==
    TypeOK /\ HoldNext /\ UNCHANGED receiverVars => TypeOK'
  <1> SUFFICES ASSUME TypeOK, HoldNext, UNCHANGED receiverVars
               PROVE  HoldTypeOK' /\ pc' \in [Threads -> Ops]
    BY DEF TypeOK, ReceiverTypeOK, receiverVars
  <1> DEFINE Typed == HoldTypeOK' /\ pc' \in [Threads -> Ops]
  <1> USE ReceiverAssumption, SocketAssumption DEF TypeOK, ReceiverTypeOK, HoldTypeOK
  <1>1. CASE management_hold
    BY <1>1, AppendFacts DEF management_hold, appVars
  <1>2. CASE HoldReturns \/ TunnelRestarts
    BY <1>2 DEF HoldReturns, TunnelRestarts, appVars
  <1>3. CASE man_bytecount_output_client
    BY <1>3, AppendFacts DEF man_bytecount_output_client, appVars
  <1>4. CASE man_signal \/ man_hold
    <2>1. cmds' \in Seq({"SIGUSR1", "holdRelease"})
      <3>1. cmds # <<>> /\ cmds' = Tail(cmds)
        BY <1>4, Zenon DEF man_signal, man_hold, ReadCommand
      <3> QED
        BY <3>1, TailFacts
    <2>2. msgs' \in Seq({"HOLD", "BYTECOUNT"})
      <3>1. msgs' = msgs \/ msgs' = Append(msgs, "HOLD")
        BY <1>4, Zenon DEF man_signal, man_hold
      <3> QED
        BY <3>1, AppendFacts
    <2>3. ovpn' \in {"restart", "hold", "released", "run"}
      BY <1>4 DEF man_signal, man_hold
    <2> QED
      BY <1>4, <2>1, <2>2, <2>3 DEF man_signal, man_hold, appVars
  <1>5. CASE handleHold
    BY <1>5, TailFacts, EnterType DEF handleHold, Ops
  <1>6. CASE processByteCount
    BY <1>6, TailFacts, EnterType DEF processByteCount, Ops
  <1>7. CASE handleHoldAsks
    BY <1>7, EnterType DEF handleHoldAsks, Ops
  <1>8. CASE handleHoldPosts
    BY <1>8, EnterType DEF handleHoldPosts, Ops
  <1>9. ASSUME NEW t \in Threads, releaseHoldCmd(t) PROVE Typed
    BY <1>9, EnterType DEF releaseHoldCmd, Ops
  <1>10. CASE mResumeHoldRunnable
    <2>1. CASE releaseHoldCmd("main")
      BY <1>9, <2>1
    <2>2. CASE ~releaseHoldCmd("main")
      BY <1>10, <2>2 DEF mResumeHoldRunnable
    <2> QED
      BY <2>1, <2>2
  <1>11. ASSUME NEW t \in Threads, pause(t) PROVE Typed
    <2>1. pc' \in [Threads -> Ops]
      BY <1>11, EnterType DEF pause, Ops
    <2>2. cmds' \in Seq({"SIGUSR1", "holdRelease"})
      <3>1. managmentCommand("SIGUSR1") \/ UNCHANGED cmds
        BY <1>11, Zenon DEF pause
      <3> QED
        BY <3>1, AppendFacts DEF managmentCommand
    <2>3. overtaken' \in BOOLEAN
      BY <1>11 DEF pause
    <2> QED
      BY <1>11, <2>1, <2>2, <2>3 DEF pause
  <1>12. ASSUME NEW t \in Threads, resume(t) PROVE Typed
    <2>1. CASE releaseHoldCmd(t)
      BY <1>9, <2>1
    <2>2. CASE ~releaseHoldCmd(t)
      BY <1>12, <2>2, EnterType DEF resume, holdVars, Ops
    <2> QED
      BY <2>1, <2>2
  <1>13. ASSUME NEW t \in Threads, ReleaseClearsFlag(t) PROVE Typed
    BY <1>13, EnterType DEF ReleaseClearsFlag, Ops
  <1>14. ASSUME NEW t \in Threads, ReleaseSends(t) PROVE Typed
    BY <1>14, AppendFacts, EnterType DEF ReleaseSends, managmentCommand, Ops
  <1> QED
    BY <1>1, <1>2, <1>3, <1>4, <1>5, <1>6, <1>7, <1>8, <1>10, <1>11, <1>12, <1>13, <1>14
       DEF HoldNext, OpenvpnNext, ManagementMethod

\* The fields keep the types the code declares, whatever the interleaving.
THEOREM TypeCorrect == Spec => []TypeOK
  <1>1. Init => TypeOK
    <2> SUFFICES ASSUME Init PROVE TypeOK
      OBVIOUS
    <2>1. ReceiverTypeOK
      <3>1. pc \in [Threads -> Ops]
        BY DEF Init, ReceiverInit, Ops
      <3>2. delayPosted \in Nat /\ lastConnectedNetwork \in Networks \cup {NoNetwork}
        BY DEF Init, ReceiverInit
      <3> QED
        BY <3>1, <3>2 DEF Init, ReceiverInit, ReceiverTypeOK, ConnectState
    <2>2. HoldTypeOK
      <3>1. msgs \in Seq({"HOLD", "BYTECOUNT"}) /\ cmds \in Seq({"SIGUSR1", "holdRelease"})
        BY DEF Init, HoldInit
      <3>2. resumePosted \in Nat
        BY DEF Init, HoldInit
      <3> QED
        BY <3>1, <3>2 DEF Init, HoldInit, HoldTypeOK
    <2> QED
      BY <2>1, <2>2 DEF TypeOK
  <1>2. TypeOK /\ [Next]_vars => TypeOK'
    <2>1. TypeOK /\ UNCHANGED vars => TypeOK'
      BY DEF TypeOK, ReceiverTypeOK, HoldTypeOK, vars
    <2> QED
      BY <2>1, ReceiverType, HoldType DEF Next
  <1> QED
    BY <1>1, <1>2, PTL DEF Spec

-----------------------------------------------------------------------------
(* HoldIsKnown.  The invariant is inductive given the types: a receiver    *)
(* callback touches none of its variables but pc, and never at "cleared".  *)

\* The two sockets are typed sequences, as the lemmas above want them.
LEMMA Sockets ==
    ASSUME TypeOK
    PROVE  msgs \in Seq({"HOLD", "BYTECOUNT"}) /\ cmds \in Seq({"SIGUSR1", "holdRelease"})
           /\ pc \in [Threads -> Ops]
  BY DEF TypeOK, HoldTypeOK, ReceiverTypeOK

\* No step of openvpn moves a thread of the app, and after none is openvpn in
\* a hold whose >HOLD has been read: SIGUSR1, which leaves it there, is
\* answered with another one.
LEMMA OpenvpnSteps ==
    ASSUME TypeOK, OpenvpnNext
    PROVE  UNCHANGED pc /\ ~Held'
  <1> USE Sockets
  <1>1. CASE management_hold
    <2>1. MessageQueued("HOLD")'
      BY <1>1, AppendFacts DEF management_hold, MessageQueued
    <2> QED
      BY <1>1, <2>1 DEF management_hold, appVars, Held
  <1>2. CASE man_signal
    <2>1. ovpn' = "hold" => MessageQueued("HOLD")'
      BY <1>2, AppendFacts DEF man_signal, MessageQueued
    <2> QED
      BY <1>2, <2>1 DEF man_signal, appVars, Held
  <1>3. CASE HoldReturns \/ TunnelRestarts \/ man_bytecount_output_client \/ man_hold
    BY <1>3 DEF HoldReturns, TunnelRestarts, man_bytecount_output_client, man_hold, appVars, Held
  <1> QED
    BY <1>1, <1>2, <1>3 DEF OpenvpnNext

\* What a command written to the socket does to the queue's contents.
LEMMA CommandQueued ==
    ASSUME TypeOK, NEW c \in {"SIGUSR1", "holdRelease"}, managmentCommand(c)
    PROVE  Queued(c)' /\ \A d : Queued(d) => Queued(d)'
  BY Sockets, AppendFacts, SMTT(60) DEF managmentCommand, Queued

\* Reading a byte count does not lose a queued >HOLD.
LEMMA HoldBehindBytes ==
    ASSUME TypeOK, msgs # <<>>, Head(msgs) = "BYTECOUNT", msgs' = Tail(msgs),
           MessageQueued("HOLD")
    PROVE  MessageQueued("HOLD")'
  <1>1. PICK i \in DOMAIN msgs : msgs[i] = "HOLD"
    BY DEF MessageQueued
  <1>2. /\ DOMAIN msgs = 1..Len(msgs) /\ Len(msgs) \in Nat /\ Head(msgs) = msgs[1]
        /\ DOMAIN Tail(msgs) = 1..(Len(msgs) - 1)
        /\ \A k \in 1..(Len(msgs) - 1) : Tail(msgs)[k] = msgs[k + 1]
    BY Sockets, TailFacts
  <1>3. i # 1
    BY <1>1, <1>2
  <1>4. i - 1 \in DOMAIN Tail(msgs) /\ Tail(msgs)[i - 1] = "HOLD"
    BY <1>1, <1>2, <1>3
  <1> QED
    BY <1>4 DEF MessageQueued

\* Thread t entering method o moves no other thread.
LEMMA OthersStay ==
    ASSUME TypeOK, NEW t \in Threads, NEW o \in Ops, Enter(t, o), NEW S
    PROVE  /\ o \in S => AtMethod(S)'
           /\ (AtMethod(S) /\ pc[t] \notin S) => AtMethod(S)'
  BY Sockets, EnterType DEF AtMethod

\* Callbacks of the receiver start from an idle thread or go on with themselves.
CallbackOps == {"idle", "screenOnConnected", "screenOnPaused", "resumeConnected",
                "resumePaused", "byteCount"}

LEMMA ReceiverEnters ==
    ASSUME TypeOK, ReceiverNext
    PROVE  \/ UNCHANGED pc
           \/ \E t \in Threads, o \in Ops : Enter(t, o) /\ pc[t] \in CallbackOps
  <1> USE DEF CallbackOps, Ops
  <1>1. CASE networkStateChange /\ pc["main"] = "idle"
    BY <1>1 DEF networkStateChange, SameNetworkReturns, NetworkConnects, NetworkLost
  <1>2. CASE ActiveNetworkChanges \/ ScreenOff
    BY <1>2 DEF ActiveNetworkChanges, ScreenOff
  <1>3. CASE mDelayDisconnectRunnable
    BY <1>3 DEF mDelayDisconnectRunnable
  <1>4. CASE ScreenOn \/ ScreenOnGoesOn
    BY <1>4 DEF ScreenOn, ScreenOnGoesOn
  <1>5. CASE updateByteCount
    BY <1>5 DEF updateByteCount
  <1>6. CASE userPause
    BY <1>6 DEF userPause, UserPauses, UserResumes, UserResumeGoesOn
  <1> QED
    BY <1>1, <1>2, <1>3, <1>4, <1>5, <1>6
       DEF ReceiverNext, registerDeviceStateReceiver, ConnectivityBroadcast

\* A callback of the receiver keeps HoldIsKnown.
LEMMA ReceiverKeepsHold ==
    TypeOK /\ HoldIsKnown /\ ReceiverNext /\ UNCHANGED holdVars => HoldIsKnown'
  <1> SUFFICES ASSUME TypeOK, HoldIsKnown, ReceiverNext, UNCHANGED holdVars
               PROVE  HoldIsKnown'
    OBVIOUS
  <1>1. AtMethod({"cleared"}) => AtMethod({"cleared"})'
    <2>1. CASE UNCHANGED pc
      BY <2>1 DEF AtMethod
    <2>2. CASE ~UNCHANGED pc
      <3>1. PICK t \in Threads, o \in Ops : Enter(t, o) /\ pc[t] \in CallbackOps
        BY <2>2, ReceiverEnters
      <3>2. pc[t] \notin {"cleared"}
        BY <3>1 DEF CallbackOps
      <3> QED
        BY <3>1, <3>2, OthersStay
    <2> QED
      BY <2>1, <2>2
  <1> QED
    BY <1>1 DEF HoldIsKnown, Held, Queued, MessageQueued, holdVars

\* A step of the management interface or of openvpn keeps HoldIsKnown.
LEMMA HoldKeepsHold ==
    TypeOK /\ HoldIsKnown /\ HoldNext /\ UNCHANGED receiverVars => HoldIsKnown'
  <1> SUFFICES ASSUME TypeOK, HoldIsKnown, HoldNext, UNCHANGED receiverVars, Held'
               PROVE  \/ mWaitingForRelease'
                      \/ Queued("holdRelease")' \/ Queued("SIGUSR1")'
                      \/ AtMethod({"cleared"})'
    BY DEF HoldIsKnown
  <1> USE Sockets
  <1>1. CASE OpenvpnNext
    BY <1>1, OpenvpnSteps
  <1>5. CASE handleHold
    BY <1>5 DEF handleHold
  <1>6. CASE processByteCount
    <2>1. MessageQueued("HOLD") => MessageQueued("HOLD")'
      BY <1>6, HoldBehindBytes DEF processByteCount
    <2>2. AtMethod({"cleared"}) => AtMethod({"cleared"})'
      <3>1. CASE UNCHANGED pc
        BY <3>1 DEF AtMethod
      <3>2. CASE Enter("mgmt", "byteCount")
        BY <1>6, <3>2, OthersStay DEF processByteCount, Ops
      <3> QED
        BY <1>6, <3>1, <3>2 DEF processByteCount
    <2> QED
      BY <1>6, <2>1, <2>2 DEF processByteCount, Held, HoldIsKnown, Queued
  <1>7. CASE handleHoldAsks \/ handleHoldPosts
    <2>1. Held
      BY <1>7 DEF handleHoldAsks, handleHoldPosts, Held, MessageQueued
    <2>2. AtMethod({"cleared"}) => AtMethod({"cleared"})'
      BY <1>7, OthersStay DEF handleHoldAsks, handleHoldPosts, Ops
    <2> QED
      BY <1>7, <2>1, <2>2 DEF handleHoldAsks, handleHoldPosts, HoldIsKnown, Queued
  <1>8. ASSUME NEW t \in Threads, releaseHoldCmd(t), pc[t] # "cleared"
        PROVE  HoldIsKnown'
    <2>1. AtMethod({"cleared"}) => AtMethod({"cleared"})'
      BY <1>8, OthersStay DEF releaseHoldCmd, Ops
    <2> QED
      BY <1>8, <2>1 DEF releaseHoldCmd, HoldIsKnown, Held, Queued, MessageQueued
  <1>9. CASE mResumeHoldRunnable
    <2>1. CASE releaseHoldCmd("main")
      BY <1>8, <1>9, <2>1 DEF mResumeHoldRunnable, HoldIsKnown
    <2>2. CASE ~releaseHoldCmd("main")
      BY <1>9, <2>2 DEF mResumeHoldRunnable, HoldIsKnown, Held, Queued, MessageQueued, AtMethod
    <2> QED
      BY <2>1, <2>2
  <1>10. ASSUME NEW t \in Threads, pause(t) PROVE HoldIsKnown'
    <2>1. AtMethod({"cleared"}) => AtMethod({"cleared"})'
      BY <1>10, OthersStay DEF pause, Ops
    <2>2. CASE managmentCommand("SIGUSR1")
      BY <2>2, CommandQueued DEF HoldIsKnown
    <2>3. CASE UNCHANGED cmds
      BY <1>10, <2>1, <2>3 DEF pause, HoldIsKnown, Held, Queued, MessageQueued
    <2> QED
      BY <1>10, <2>2, <2>3, Zenon DEF pause
  <1>11. ASSUME NEW t \in Threads, resume(t) PROVE HoldIsKnown'
    <2>1. CASE releaseHoldCmd(t)
      BY <1>8, <1>11, <2>1 DEF resume
    <2>2. CASE ~releaseHoldCmd(t)
      <3>1. AtMethod({"cleared"}) => AtMethod({"cleared"})'
        BY <1>11, <2>2, OthersStay DEF resume, Ops
      <3> QED
        BY <1>11, <2>2, <3>1 DEF resume, holdVars, HoldIsKnown, Held, Queued, MessageQueued
    <2> QED
      BY <2>1, <2>2
  <1>13. ASSUME NEW t \in Threads, ReleaseClearsFlag(t) PROVE AtMethod({"cleared"})'
    BY <1>13, OthersStay DEF ReleaseClearsFlag, Ops
  <1>14. ASSUME NEW t \in Threads, ReleaseSends(t) PROVE Queued("holdRelease")'
    BY <1>14, CommandQueued DEF ReleaseSends
  <1> QED
    BY <1>1, <1>5, <1>6, <1>7, <1>9, <1>10, <1>11, <1>13, <1>14
       DEF HoldNext, ManagementMethod, HoldIsKnown

\* handleHold and releaseHoldCmd keep mWaitingForRelease and the state of
\* the openvpn process together on every interleaving of the main, the
\* management and any binder thread: a held openvpn can always be released.
THEOREM HoldIsAlwaysKnown == Spec => []HoldIsKnown
  <1>1. Init => HoldIsKnown
    BY DEF Init, HoldInit, HoldIsKnown, Held
  <1>2. TypeOK /\ HoldIsKnown /\ [Next]_vars => HoldIsKnown'
    <2>1. HoldIsKnown /\ UNCHANGED vars => HoldIsKnown'
      BY DEF HoldIsKnown, Held, Queued, MessageQueued, AtMethod, vars
    <2> QED
      BY <2>1, ReceiverKeepsHold, HoldKeepsHold DEF Next
  <1> QED
    BY <1>1, <1>2, TypeCorrect, PTL DEF Spec

-----------------------------------------------------------------------------
(* NoLostWakeup, whatever clients call.  A byte count is no danger:        *)
(* openvpn announces a later hold behind it in the same socket, so the     *)
(* management thread is done with it when the hold has been read           *)
(* (HoldBehindCounts, PauseBeforeHold).  SCREEN_ON finds the VPN wanted    *)
(* only if that is due to the screen, which it then resumes, or if the     *)
(* preference is off and the screen state never changes (ScreenIsRead).    *)
HoldBehindCounts ==
    ovpn = "hold" => \A i \in DOMAIN msgs : msgs[i] = "BYTECOUNT" =>
                        \E j \in DOMAIN msgs : j > i /\ msgs[j] = "HOLD"
PauseBeforeHold == Held => pc["mgmt"] \notin {"byteCount", "pause"}
ScreenIsRead ==
    /\ pc["main"] \in {"screenOnConnected", "screenOnPaused"} => screenOn
    /\ ScreenOffPref => /\ screenOn \/ screen # "SHOULDBECONNECTED"
                       /\ pc["main"] # "screenOnConnected"
    /\ ~ScreenOffPref => screen = "SHOULDBECONNECTED" /\ pc["mgmt"] # "byteCount"
WakeupInv == HoldBehindCounts /\ PauseBeforeHold /\ ScreenIsRead /\ NoLostWakeup

\* Appending a byte count or a hold: a >HOLD stays behind every count.
LEMMA CountsKept ==
    ASSUME TypeOK, HoldBehindCounts, HoldNext, UNCHANGED receiverVars
    PROVE  HoldBehindCounts'
  <1> SUFFICES ASSUME ovpn' = "hold",
                      NEW i \in DOMAIN msgs', msgs'[i] = "BYTECOUNT"
               PROVE  \E j \in DOMAIN msgs' : j > i /\ msgs'[j] = "HOLD"
    BY DEF HoldBehindCounts
  <1>1. CASE msgs' = Append(msgs, "HOLD")
    <2>1. msgs' = Append(msgs, "HOLD")
      BY <1>1
    <2>2. /\ DOMAIN msgs' = 1..(Len(msgs) + 1) /\ Len(msgs) \in Nat
          /\ msgs'[Len(msgs) + 1] = "HOLD"
      BY <2>1, Sockets, AppendFacts
    <2> QED
      BY <2>2
  <1>2. CASE msgs' = Tail(msgs) /\ msgs # <<>> /\ ovpn = "hold"
    <2>1. /\ DOMAIN msgs' = 1..(Len(msgs) - 1) /\ Len(msgs) \in Nat /\ DOMAIN msgs = 1..Len(msgs)
          /\ \A k \in 1..(Len(msgs) - 1) : msgs'[k] = msgs[k + 1]
      BY <1>2, Sockets, TailFacts
    <2>2. i + 1 \in DOMAIN msgs /\ msgs[i + 1] = "BYTECOUNT"
      BY <2>1
    <2>3. PICK j \in DOMAIN msgs : j > i + 1 /\ msgs[j] = "HOLD"
      BY <1>2, <2>2 DEF HoldBehindCounts
    <2>4. j - 1 \in DOMAIN msgs' /\ j - 1 > i /\ msgs'[j - 1] = "HOLD"
      BY <2>1, <2>3
    <2> QED
      BY <2>4
  <1>3. CASE UNCHANGED msgs /\ ovpn = "hold"
    BY <1>3 DEF HoldBehindCounts
  <1>4. \/ msgs' = Append(msgs, "HOLD")
        \/ msgs' = Tail(msgs) /\ msgs # <<>> /\ ovpn = "hold"
        \/ UNCHANGED msgs /\ ovpn = "hold"
    BY DEF HoldNext, OpenvpnNext, management_hold, HoldReturns, TunnelRestarts,
           man_bytecount_output_client, man_signal, man_hold, handleHold, handleHoldAsks,
           handleHoldPosts, processByteCount, mResumeHoldRunnable, releaseHoldCmd,
           ManagementMethod, pause, resume, ReleaseClearsFlag, ReleaseSends, holdVars
  <1> QED
    BY <1>1, <1>2, <1>3, <1>4

\* A thread that is not inside pause() leaves the others there.
LEMMA PausesStay ==
    ASSUME TypeOK, NEW t \in Threads, NEW o \in Ops, Enter(t, o), pc[t] # "pause"
    PROVE  Overtaking => Overtaking'
  BY Sockets, EnterType DEF Overtaking

\* What a callback of the receiver does to the screen state it has read.
LEMMA ReceiverReadsScreen ==
    ASSUME TypeOK, WakeupInv, ReceiverNext
    PROVE  ScreenIsRead'
  <1> USE Sockets DEF WakeupInv, ScreenIsRead, Ops
  <1>1. "main" \in Threads /\ "mgmt" \in Threads /\ "main" # "mgmt"
    OBVIOUS
  <1>2. CASE networkStateChange /\ pc["main"] = "idle"
    <2>1. /\ screenOn' = screenOn /\ pc'["mgmt"] = pc["mgmt"]
          /\ pc'["main"] \in {"idle", "networkChange", "resume"}
          /\ screen' = screen \/ (screen = "PENDINGDISCONNECT" /\ screen' = "DISCONNECTED")
      <3>1. /\ screenOn' = screenOn
            /\ screen' = screen \/ (screen = "PENDINGDISCONNECT" /\ screen' = "DISCONNECTED")
        BY <1>2 DEF networkStateChange, SameNetworkReturns, NetworkConnects, NetworkLost
      <3>2. pc' = pc \/ \E o \in {"networkChange", "resume"} : Enter("main", o)
        BY <1>2, Zenon DEF networkStateChange, SameNetworkReturns, NetworkConnects, NetworkLost
      <3>3. ASSUME NEW o \in {"networkChange", "resume"}, Enter("main", o)
            PROVE  pc'["mgmt"] = pc["mgmt"] /\ pc'["main"] = o
        BY <1>1, <3>3, EnterType
      <3> QED
        BY <1>1, <1>2, <3>1, <3>2, <3>3
    <2> QED
      BY <2>1
  <1>3. CASE ActiveNetworkChanges
    BY <1>3 DEF ActiveNetworkChanges
  <1>4. CASE registerDeviceStateReceiver \/ ConnectivityBroadcast
    BY <1>2, <1>4 DEF registerDeviceStateReceiver, ConnectivityBroadcast
  <1>5. CASE mDelayDisconnectRunnable
    <2>1. /\ screenOn' = screenOn /\ pc'["mgmt"] = pc["mgmt"] /\ pc'["main"] \in {"idle", "pause"}
          /\ screen' = screen \/ (screen = "PENDINGDISCONNECT" /\ screen' = "DISCONNECTED")
      <3>1. /\ screenOn' = screenOn /\ pc["main"] = "idle"
            /\ screen' = screen \/ (screen = "PENDINGDISCONNECT" /\ screen' = "DISCONNECTED")
        BY <1>5 DEF mDelayDisconnectRunnable
      <3>2. pc' = pc \/ Enter("main", "pause")
        BY <1>5 DEF mDelayDisconnectRunnable
      <3> QED
        BY <1>1, <3>1, <3>2, EnterType
    <2> QED
      BY <2>1
  <1>6. CASE ScreenOff
    BY <1>6 DEF ScreenOff
  <1>7. CASE ScreenOn
    <2>1. /\ screenOn' /\ ~screenOn /\ screen' = screen /\ pc'["mgmt"] = pc["mgmt"]
          /\ pc'["main"] \in {"screenOnConnected", "screenOnPaused"}
          /\ pc'["main"] = "screenOnConnected" => shouldBeConnected
      <3>1. screenOn' /\ ~screenOn /\ screen' = screen
        BY <1>7 DEF ScreenOn
      <3>2. PICK o \in {"screenOnConnected", "screenOnPaused"} :
                 Enter("main", o) /\ (o = "screenOnConnected" => shouldBeConnected)
        BY <1>7, ScreenOnEnters
      <3>3. pc'["mgmt"] = pc["mgmt"] /\ pc'["main"] = o
        BY <1>1, <3>2, EnterType
      <3> QED
        BY <3>1, <3>2, <3>3
    <2> QED
      BY <2>1 DEF shouldBeConnected, Wanted
  <1>8. CASE ScreenOnGoesOn
    <2>1. /\ screenOn' = screenOn /\ screenOn /\ screen' = "SHOULDBECONNECTED"
          /\ pc'["mgmt"] = pc["mgmt"] /\ pc'["main"] \in {"resume", "idle", "pause"}
      <3>1. screenOn' = screenOn /\ screen' = "SHOULDBECONNECTED"
            /\ pc["main"] \in {"screenOnConnected", "screenOnPaused"}
        BY <1>8 DEF ScreenOnGoesOn
      <3>2. PICK o \in {"resume", "idle", "pause"} : Enter("main", o)
        BY <1>8, ScreenOnEnters
      <3>3. pc'["mgmt"] = pc["mgmt"] /\ pc'["main"] = o
        BY <1>1, <3>2, EnterType
      <3> QED
        BY <3>1, <3>2, <3>3
    <2> QED
      BY <2>1
  <1>9. CASE updateByteCount
    <2>1. /\ screenOn' = screenOn /\ pc["mgmt"] = "byteCount" /\ pc'["main"] = pc["main"]
          /\ screen' = screen \/ screen' = "DISCONNECTED"
      BY <1>9, EnterType DEF updateByteCount
    <2> QED
      BY <2>1
  <1>10. CASE userPause
    <2>1. screenOn' = screenOn /\ screen' = screen
          /\ pc'["main"] = pc["main"] /\ pc'["mgmt"] = pc["mgmt"]
      <3>1. PICK b \in Binders : UserPauses(b) \/ UserResumes(b) \/ UserResumeGoesOn(b)
        BY <1>10 DEF userPause
      <3>2. b \in Threads /\ b # "main" /\ b # "mgmt"
        BY ReceiverAssumption
      <3>3. screenOn' = screenOn /\ screen' = screen
        BY <3>1 DEF UserPauses, UserResumes, UserResumeGoesOn, receiverVars
      <3>4. \E o \in Ops : Enter(b, o)
        BY <3>1 DEF UserPauses, UserResumes, UserResumeGoesOn
      <3> QED
        BY <1>1, <3>2, <3>3, <3>4, EnterType
    <2> QED
      BY <2>1
  <1> QED
    BY <1>3, <1>4, <1>5, <1>6, <1>7, <1>8, <1>9, <1>10 DEF ReceiverNext

\* The receiver's callbacks, on any thread.
LEMMA ReceiverKeepsWakeup ==
    ASSUME TypeOK, WakeupInv, ReceiverNext, UNCHANGED holdVars
    PROVE  WakeupInv'
  <1> USE Sockets, ReceiverAssumption DEF Ops
  <1> DEFINE Kept == PauseBeforeHold' /\ NoLostWakeup'
  <1>1. /\ HoldBehindCounts' /\ Held' = Held /\ overtaken' = overtaken
        /\ (resumePosted > 0 \/ Queued("holdRelease") \/ Queued("SIGUSR1"))
              => (resumePosted > 0 \/ Queued("holdRelease") \/ Queued("SIGUSR1"))'
    BY DEF WakeupInv, HoldBehindCounts, Held, MessageQueued, Queued, holdVars
  <1> SUFFICES Kept
    BY <1>1, ReceiverReadsScreen DEF WakeupInv
  \* A step that leaves pc and what is wanted alone.
  <1>2. ASSUME UNCHANGED pc, shouldBeConnected' => shouldBeConnected PROVE Kept
    <2>1. AtMethod(WakeupMethods)' = AtMethod(WakeupMethods) /\ Overtaking' = Overtaking
      BY <1>2 DEF AtMethod, Overtaking
    <2> QED
      BY <1>1, <1>2, <2>1 DEF WakeupInv, PauseBeforeHold, NoLostWakeup, ReleaseUnderWay
  \* A thread other than the reader in a callback goes on to ...
  <1>3. ASSUME NEW t \in Threads \ {"mgmt"}, NEW o \in Ops, pc[t] \in CallbackOps, Enter(t, o),
               \/ ~shouldBeConnected'                                   \* a VPN not wanted
               \/ o \in {"resume", "networkChange", "pause"}            \* a method
               \/ shouldBeConnected' => shouldBeConnected               \* nothing new
        PROVE  Kept
    <2>1. PauseBeforeHold'
      BY <1>1, <1>3, EnterType DEF WakeupInv, PauseBeforeHold
    <2>2. o \in {"resume", "networkChange"} => AtMethod(WakeupMethods)'
      BY <1>3, OthersStay DEF WakeupMethods
    <2>3. o = "pause" => Overtaking'
      BY <1>3, EnterType DEF Overtaking
    <2>4. /\ AtMethod(WakeupMethods) => AtMethod(WakeupMethods)'
          /\ Overtaking => Overtaking'
      BY <1>3, OthersStay, PausesStay DEF CallbackOps, WakeupMethods
    <2> QED
      BY <1>1, <1>3, <2>1, <2>2, <2>3, <2>4 DEF WakeupInv, NoLostWakeup, ReleaseUnderWay
  <1>4. ASSUME networkStateChange, pc["main"] = "idle" PROVE Kept
    <2>1. CASE SameNetworkReturns
      BY <1>3, <1>4, <2>1 DEF SameNetworkReturns, CallbackOps
    <2>2. CASE NetworkConnects
      <3>1. CASE Wanted(network', screen', userpause)
        BY <1>3, <1>4, <2>2, <3>1 DEF NetworkConnects, CallbackOps
      <3>2. CASE ~Wanted(network', screen', userpause)
        BY <1>2, <1>4, <2>2, <3>2 DEF NetworkConnects, networkStateChange, shouldBeConnected
      <3> QED
        BY <3>1, <3>2
    <2>3. CASE NetworkLost
      BY <1>2, <1>4, <2>3 DEF NetworkLost, networkStateChange, shouldBeConnected, Wanted
    <2> QED
      BY <1>4, <2>1, <2>2, <2>3 DEF networkStateChange
  <1>5. CASE ActiveNetworkChanges
    BY <1>2, <1>5 DEF ActiveNetworkChanges, shouldBeConnected
  <1>6. CASE registerDeviceStateReceiver \/ ConnectivityBroadcast
    BY <1>4, <1>6 DEF registerDeviceStateReceiver, ConnectivityBroadcast
  <1>7. CASE mDelayDisconnectRunnable
    <2>1. CASE pendingDisconnect
      BY <1>3, <1>7, <2>1 DEF mDelayDisconnectRunnable, CallbackOps
    <2>2. CASE ~pendingDisconnect
      BY <1>2, <1>7, <2>2 DEF mDelayDisconnectRunnable, shouldBeConnected
    <2> QED
      BY <2>1, <2>2
  <1>8. CASE ScreenOff
    BY <1>2, <1>8 DEF ScreenOff, shouldBeConnected, Wanted
  <1>9. CASE ScreenOn
    <2>1. shouldBeConnected' = shouldBeConnected
      BY <1>9 DEF ScreenOn, shouldBeConnected
    <2>2. pc["main"] = "idle" /\ \E o \in Ops : Enter("main", o)
      BY <1>9 DEF ScreenOn
    <2> QED
      BY <1>3, <2>1, <2>2 DEF CallbackOps
  <1>10. CASE ScreenOnGoesOn
    <2> DEFINE wanted == Wanted(network, screen', userpause)
    <2>1. /\ shouldBeConnected' = wanted /\ pc["main"] \in {"screenOnConnected", "screenOnPaused"}
          /\ \/ wanted # (pc["main"] = "screenOnConnected") /\ Enter("main", "resume")
             \/ wanted = (pc["main"] = "screenOnConnected") /\ wanted /\ Enter("main", "idle")
             \/ ~wanted /\ Enter("main", "pause")
      BY <1>10 DEF ScreenOnGoesOn, shouldBeConnected
    <2>2. pc["main"] = "screenOnConnected" => (shouldBeConnected' => shouldBeConnected)
      BY <1>10 DEF ScreenOnGoesOn, WakeupInv, ScreenIsRead, shouldBeConnected
    <2> QED
      BY <1>3, <2>1, <2>2 DEF CallbackOps
  <1>11. CASE updateByteCount
    <2>1. pc["mgmt"] = "byteCount" /\ ~Held
      BY <1>11 DEF updateByteCount, WakeupInv, PauseBeforeHold
    <2> QED
      BY <1>1, <2>1 DEF PauseBeforeHold, NoLostWakeup
  <1>12. CASE userPause
    <2>1. PICK b \in Binders : UserPauses(b) \/ UserResumes(b) \/ UserResumeGoesOn(b)
      BY <1>12 DEF userPause
    <2>2. b \in Threads \ {"mgmt"}
      OBVIOUS
    <2>3. CASE UserPauses(b)
      BY <1>3, <2>2, <2>3 DEF UserPauses, CallbackOps
    <2>4. CASE UserResumes(b)
      <3>1. shouldBeConnected' = shouldBeConnected
        BY <2>4 DEF UserResumes, receiverVars, shouldBeConnected
      <3>2. pc[b] = "idle" /\ \E o \in Ops : Enter(b, o)
        BY <2>4 DEF UserResumes
      <3> QED
        BY <1>3, <2>2, <3>1, <3>2 DEF CallbackOps
    <2>5. CASE UserResumeGoesOn(b)
      <3>1. pc[b] \in CallbackOps /\ \E o \in {"resume", "pause"} : Enter(b, o)
        BY <2>5 DEF UserResumeGoesOn, CallbackOps
      <3> QED
        BY <1>3, <2>2, <3>1
    <2> QED
      BY <2>1, <2>3, <2>4, <2>5
  <1> QED
    BY <1>5, <1>6, <1>7, <1>8, <1>9, <1>10, <1>11, <1>12 DEF ReceiverNext

\* The management interface and openvpn.
LEMMA HoldKeepsWakeup ==
    ASSUME TypeOK, HoldIsKnown, WakeupInv, HoldNext, UNCHANGED receiverVars
    PROVE  WakeupInv'
  <1> USE Sockets, ReceiverAssumption DEF Ops
  <1> DEFINE Kept == PauseBeforeHold' /\ ScreenIsRead' /\ NoLostWakeup'
  <1>a. /\ HoldBehindCounts' /\ shouldBeConnected' = shouldBeConnected
        /\ screen' = screen /\ screenOn' = screenOn
    BY CountsKept DEF WakeupInv, shouldBeConnected, receiverVars
  <1> SUFFICES Kept
    BY <1>a DEF WakeupInv
  \* A thread goes to a method that is no callback and no pause.
  <1>b. ASSUME NEW t \in Threads, NEW o \in (Ops \ (CallbackOps \cup {"pause"})) \cup {"idle"},
               Enter(t, o)
        PROVE  /\ ScreenIsRead'
               /\ (Held' => Held) => PauseBeforeHold'
    <2>1. pc'[t] = o /\ \A u \in Threads \ {t} : pc'[u] = pc[u]
      BY <1>b, EnterType DEF CallbackOps
    <2> QED
      BY <1>a, <1>b, <2>1 DEF WakeupInv, ScreenIsRead, PauseBeforeHold, CallbackOps
  \* The same, when what is held, overtaken or under way stays so.
  <1>c. ASSUME NEW t \in Threads, NEW o \in (Ops \ (CallbackOps \cup {"pause"})) \cup {"idle"},
               Enter(t, o), Held' => Held, overtaken' = overtaken, pc[t] # "pause",
               ReleaseUnderWay => ReleaseUnderWay'
        PROVE  Kept
    <2>1. Overtaking => Overtaking'
      BY <1>c, PausesStay
    <2> QED
      BY <1>a, <1>b, <1>c, <2>1 DEF WakeupInv, NoLostWakeup
  <1>1. CASE OpenvpnNext
    <2>1. pc' = pc /\ ~Held'
      BY <1>1, OpenvpnSteps
    <2> QED
      BY <1>a, <2>1 DEF WakeupInv, ScreenIsRead, PauseBeforeHold, NoLostWakeup
  <1>2. CASE handleHold
    <2>1. Enter("mgmt", "flagged")
      BY <1>2 DEF handleHold
    <2>2. pc'["mgmt"] = "flagged" /\ pc'["main"] = pc["main"]
      BY <2>1, EnterType
    <2>3. AtMethod(WakeupMethods)'
      BY <2>1, OthersStay DEF WakeupMethods
    <2> QED
      BY <1>a, <2>2, <2>3
         DEF WakeupInv, ScreenIsRead, PauseBeforeHold, NoLostWakeup, ReleaseUnderWay
  <1>3. CASE processByteCount
    <2>1. HoldBehindCounts /\ msgs # <<>> /\ Head(msgs) = "BYTECOUNT" /\ msgs' = Tail(msgs)
      BY <1>3 DEF processByteCount, WakeupInv
    <2>2. ovpn = "hold" => MessageQueued("HOLD")
      BY <2>1, TailFacts DEF HoldBehindCounts, MessageQueued
    <2>3. ~Held'
      BY <1>3, <2>1, <2>2, HoldBehindBytes DEF processByteCount, Held
    <2>4. /\ pc'["main"] = pc["main"]
          /\ pc'["mgmt"] = "byteCount" => screen = "PENDINGDISCONNECT"
      <3>1. CASE UNCHANGED pc
        BY <1>3, <3>1 DEF processByteCount
      <3>2. CASE Enter("mgmt", "byteCount") /\ screen = "PENDINGDISCONNECT"
        BY <3>2, EnterType
      <3> QED
        BY <1>3, <3>1, <3>2 DEF processByteCount
    <2> QED
      BY <1>a, <2>3, <2>4 DEF WakeupInv, ScreenIsRead, PauseBeforeHold, NoLostWakeup
  <1>4. CASE handleHoldAsks
    <2>1. /\ Held' = Held /\ pc["mgmt"] = "flagged"
          /\ \/ shouldBeConnected /\ Enter("mgmt", "postResume")
             \/ ~shouldBeConnected /\ Enter("mgmt", "idle")
      BY <1>4 DEF handleHoldAsks, Held, MessageQueued
    <2>2. shouldBeConnected => AtMethod(WakeupMethods)'
      BY <2>1, OthersStay DEF WakeupMethods
    <2>3. ScreenIsRead' /\ PauseBeforeHold'
      BY <1>b, <2>1 DEF CallbackOps
    <2> QED
      BY <1>a, <2>2, <2>3 DEF NoLostWakeup, ReleaseUnderWay
  <1>5. CASE handleHoldPosts
    <2>1. Enter("mgmt", "idle") /\ Held' = Held
      BY <1>5 DEF handleHoldPosts, Held, MessageQueued
    <2>2. resumePosted' > 0
      BY <1>5 DEF handleHoldPosts, TypeOK, HoldTypeOK
    <2>3. ScreenIsRead' /\ PauseBeforeHold'
      BY <1>b, <2>1 DEF CallbackOps
    <2> QED
      BY <2>2, <2>3 DEF NoLostWakeup, ReleaseUnderWay
  <1>6. ASSUME NEW t \in Threads, releaseHoldCmd(t) PROVE Kept
    <2>1. Enter(t, "releasing") /\ Held' = Held
      BY <1>6 DEF releaseHoldCmd, Held, MessageQueued
    <2>2. AtMethod(WakeupMethods)'
      BY <2>1, OthersStay DEF WakeupMethods
    <2>3. ScreenIsRead' /\ PauseBeforeHold'
      BY <1>b, <2>1 DEF CallbackOps
    <2> QED
      BY <2>2, <2>3 DEF NoLostWakeup, ReleaseUnderWay
  <1>7. CASE mResumeHoldRunnable
    <2>1. CASE releaseHoldCmd("main")
      BY <1>6, <2>1
    <2>2. CASE ~releaseHoldCmd("main")
      <3>1. UNCHANGED pc /\ ~shouldBeConnected /\ Held' = Held
        BY <1>7, <2>2 DEF mResumeHoldRunnable, Held, MessageQueued
      <3> QED
        BY <1>a, <3>1 DEF WakeupInv, ScreenIsRead, PauseBeforeHold, NoLostWakeup
    <2> QED
      BY <2>1, <2>2
  <1>8. ASSUME NEW t \in Threads, pause(t) PROVE Kept
    <2>1. /\ Enter(t, "idle") /\ Held' = Held /\ pc[t] = "pause"
          /\ (t # "mgmt" /\ shouldBeConnected) => overtaken'
      BY <1>8 DEF pause, Held, MessageQueued
    <2>2. ScreenIsRead' /\ PauseBeforeHold'
      BY <1>b, <2>1 DEF CallbackOps
    <2>3. t = "mgmt" => ~Held
      BY <2>1 DEF WakeupInv, PauseBeforeHold
    <2> QED
      BY <1>a, <2>1, <2>2, <2>3 DEF NoLostWakeup
  \* A release that finds the flag down: HoldIsKnown says openvpn is not stuck.
  <1>9. ASSUME NEW t \in Threads, resume(t) PROVE Kept
    <2>1. CASE releaseHoldCmd(t)
      BY <1>6, <2>1
    <2>2. CASE ~releaseHoldCmd(t)
      <3>1. /\ ~mWaitingForRelease /\ Enter(t, "idle") /\ pc[t] \in {"resume", "networkChange"}
            /\ UNCHANGED <<ovpn, msgs, cmds, overtaken>>
        BY <1>9, <2>2 DEF resume, holdVars
      <3>2. Held' = Held
        BY <3>1 DEF Held, MessageQueued
      <3>3. Held => Queued("holdRelease") \/ Queued("SIGUSR1") \/ AtMethod({"cleared"})
        BY <3>1 DEF HoldIsKnown
      <3>4. AtMethod({"cleared"}) => AtMethod(WakeupMethods)'
        <4>1. AtMethod({"cleared"}) => AtMethod({"cleared"})'
          BY <3>1, OthersStay
        <4>2. AtMethod({"cleared"})' => AtMethod(WakeupMethods)'
          BY DEF AtMethod, WakeupMethods
        <4> QED
          BY <4>1, <4>2
      <3>5. \A c : Queued(c)' = Queued(c)
        BY <3>1 DEF Queued
      <3>6. ScreenIsRead' /\ PauseBeforeHold'
        BY <1>b, <3>1, <3>2 DEF CallbackOps
      <3> QED
        BY <3>2, <3>3, <3>4, <3>5, <3>6 DEF NoLostWakeup, ReleaseUnderWay
    <2> QED
      BY <2>1, <2>2
  <1>10. ASSUME NEW t \in Threads, ReleaseClearsFlag(t) PROVE Kept
    <2>1. Enter(t, "cleared") /\ Held' = Held
      BY <1>10 DEF ReleaseClearsFlag, Held, MessageQueued
    <2>2. AtMethod(WakeupMethods)'
      BY <2>1, OthersStay DEF WakeupMethods
    <2>3. ScreenIsRead' /\ PauseBeforeHold'
      BY <1>b, <2>1 DEF CallbackOps
    <2> QED
      BY <2>2, <2>3 DEF NoLostWakeup, ReleaseUnderWay
  <1>11. ASSUME NEW t \in Threads, ReleaseSends(t) PROVE Kept
    <2>1. Enter(t, "idle") /\ Held' = Held
      BY <1>11 DEF ReleaseSends, Held, MessageQueued
    <2>2. Queued("holdRelease")'
      BY <1>11, CommandQueued DEF ReleaseSends
    <2>3. ScreenIsRead' /\ PauseBeforeHold'
      BY <1>b, <2>1 DEF CallbackOps
    <2> QED
      BY <2>2, <2>3 DEF NoLostWakeup, ReleaseUnderWay
  <1> QED
    BY <1>1, <1>2, <1>3, <1>4, <1>5, <1>7, <1>8, <1>9, <1>10, <1>11
       DEF HoldNext, ManagementMethod

\* Whatever clients call on however many binder threads, and whatever the
\* interleaving: when the receiver wants the VPN and openvpn sits in a hold,
\* a release is under way, unless a pause() came after the VPN was wanted.
THEOREM NoWakeupIsLost == Spec => []NoLostWakeup
  <1>1. Init => WakeupInv
    <2> SUFFICES ASSUME Init PROVE WakeupInv
      OBVIOUS
    <2>1. \A t \in Threads : pc[t] = "idle"
      BY DEF Init, ReceiverInit
    <2>2. ~Held /\ ovpn # "hold" /\ screenOn /\ screen = "SHOULDBECONNECTED"
      BY DEF Init, ReceiverInit, HoldInit, Held
    <2> QED
      BY <2>1, <2>2 DEF WakeupInv, HoldBehindCounts, PauseBeforeHold, ScreenIsRead, NoLostWakeup
  <1>2. TypeOK /\ HoldIsKnown /\ WakeupInv /\ [Next]_vars => WakeupInv'
    <2>1. WakeupInv /\ UNCHANGED vars => WakeupInv'
      BY DEF WakeupInv, HoldBehindCounts, PauseBeforeHold, ScreenIsRead, NoLostWakeup,
             ReleaseUnderWay, Overtaking, shouldBeConnected, Held, Queued, MessageQueued,
             AtMethod, vars
    <2> QED
      BY <2>1, ReceiverKeepsWakeup, HoldKeepsWakeup DEF Next
  <1>3. WakeupInv => NoLostWakeup
    BY DEF WakeupInv
  <1> QED
    BY <1>1, <1>2, <1>3, TypeCorrect, HoldIsAlwaysKnown, PTL DEF Spec

=============================================================================
