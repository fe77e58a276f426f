--------------------------- MODULE DeliveryProofs ---------------------------
(***************************************************************************)
(* Theorems about the delivery of a status to the app, for any number of   *)
(* updates.                                                                *)
(***************************************************************************)
EXTENDS MCStatusDelivery, TLAPS

LastOf(s) == s[Len(s)]

\* What the app will have heard last when everything is delivered.
Newest ==
    IF handler # <<>> THEN LastOf(handler)
    ELSE IF toClient # <<>> THEN LastOf(toClient) ELSE heard

(* The callback is there once the registration is through, and from then   *)
(* on nothing overtakes the newest state on its way.                       *)
DeliveryInv ==
    /\ TypeOK
    /\ mCallbacks <=> registration = "done"
    /\ fresh => mCallbacks
    /\ fresh => Newest = mMostRecentState

\* How the end of a queue changes.
LEMMA QueueFacts ==
    ASSUME NEW S, NEW s \in Seq(S), NEW x \in S
    PROVE  /\ Append(s, x) \in Seq(S) /\ Append(s, x) # <<>> /\ LastOf(Append(s, x)) = x
           /\ s # <<>> => /\ Head(s) \in S /\ Tail(s) \in Seq(S)
                          /\ Tail(s) = <<>> => LastOf(s) = Head(s)
                          /\ Tail(s) # <<>> => LastOf(Tail(s)) = LastOf(s)
  BY DEF LastOf

LEMMA InitInv == Init => DeliveryInv
  <1> SUFFICES ASSUME Init PROVE DeliveryInv
    OBVIOUS
  <1>1. /\ mMostRecentState \in {"NOPROCESS", "CONNECTED"} /\ handler = <<mMostRecentState>>
        /\ toClient = <<>> /\ updates = 0
    BY Zenon DEF Init, DeliveryInit
  <1>2. /\ mMostRecentState \in VpnState /\ handler \in Seq(VpnState) /\ toClient \in Seq(Status)
        /\ updates \in 0 .. MaxUpdates
    BY <1>1, UpdatesAssumption DEF VpnState
  <1>3. /\ registration = "unbound" /\ mCallbacks = FALSE /\ fresh = FALSE /\ heard = ""
    BY Zenon DEF Init, DeliveryInit
  <1>4. TypeOK
    BY <1>2, <1>3, Zenon DEF TypeOK, DeliveryTypeOK
  <1> QED
    BY <1>3, <1>4, Zenon DEF DeliveryInv

\* updateStateString() puts the newest state at the end of the handler.
LEMMA PublishInv ==
    ASSUME DeliveryInv, Publish
    PROVE  DeliveryInv'
  <1>1. PICK s \in VpnState : updateStateString(s)
    BY DEF Publish
  <1>2. /\ handler \in Seq(VpnState) /\ toClient \in Seq(Status) /\ updates \in 0 .. MaxUpdates
        /\ mCallbacks \in BOOLEAN
    BY DEF DeliveryInv, TypeOK, DeliveryTypeOK
  <1>3. handler' \in Seq(VpnState) /\ handler' # <<>> /\ LastOf(handler') = s
    BY <1>1, <1>2, QueueFacts DEF updateStateString
  <1>4. /\ mMostRecentState' = s /\ UNCHANGED <<registration, mCallbacks, toClient, heard>>
        /\ fresh' = mCallbacks
    BY <1>1 DEF updateStateString, Publish
  <1>5. updates' \in 0 .. MaxUpdates
    BY <1>2, UpdatesAssumption DEF Publish
  <1>6. TypeOK'
    BY <1>2, <1>3, <1>4, <1>5 DEF DeliveryInv, TypeOK, DeliveryTypeOK
  <1>7. Newest' = s
    BY <1>3 DEF Newest
  <1> QED
    BY <1>4, <1>6, <1>7 DEF DeliveryInv

\* handleMessage() moves the oldest state on; a registered callback is
\* called with each.
LEMMA HandleInv ==
    ASSUME DeliveryInv, handleMessage, UNCHANGED <<updates, fresh, heard>>
    PROVE  DeliveryInv'
  <1>1. handler \in Seq(VpnState) /\ toClient \in Seq(Status) /\ handler # <<>>
    BY DEF DeliveryInv, TypeOK, DeliveryTypeOK, handleMessage
  <1>2. /\ Head(handler) \in VpnState /\ Tail(handler) \in Seq(VpnState)
        /\ Tail(handler) = <<>> => LastOf(handler) = Head(handler)
        /\ Tail(handler) # <<>> => LastOf(Tail(handler)) = LastOf(handler)
    BY <1>1, QueueFacts
  <1>3. Head(handler) \in Status
    BY <1>2 DEF Status
  <1>4. /\ Append(toClient, Head(handler)) \in Seq(Status)
        /\ Append(toClient, Head(handler)) # <<>>
        /\ LastOf(Append(toClient, Head(handler))) = Head(handler)
    BY <1>1, <1>3, QueueFacts
  <1>5. TypeOK'
    BY <1>1, <1>2, <1>4 DEF DeliveryInv, TypeOK, DeliveryTypeOK, handleMessage
  <1>6. mCallbacks => Newest' = Newest
    BY <1>1, <1>2, <1>4 DEF handleMessage, Newest
  <1> QED
    BY <1>5, <1>6 DEF DeliveryInv, handleMessage

\* Until the registration is through, no state counts as fresh.
LEMMA RegisterInv ==
    ASSUME DeliveryInv, registerStatusCallback \/ RegisterCalled, UNCHANGED <<updates, fresh, heard>>
    PROVE  DeliveryInv'
  <1>1. toClient \in Seq(Status) /\ "..." \in Status /\ ~ fresh
    BY DEF DeliveryInv, TypeOK, DeliveryTypeOK, Status, registerStatusCallback, RegisterCalled,
           RegisterTests, RegisterGreets, RegisterAdds
  <1>2. Append(toClient, "...") \in Seq(Status)
    BY <1>1, QueueFacts
  <1>3. CASE RegisterCalled
    BY <1>1, <1>3 DEF RegisterCalled, DeliveryInv, TypeOK, DeliveryTypeOK
  <1>4. CASE RegisterTests
    BY <1>1, <1>4 DEF RegisterTests, DeliveryInv, TypeOK, DeliveryTypeOK
  <1>5. CASE RegisterGreets
    BY <1>1, <1>2, <1>5 DEF RegisterGreets, DeliveryInv, TypeOK, DeliveryTypeOK
  <1>6. CASE RegisterAdds
    BY <1>1, <1>6 DEF RegisterAdds, DeliveryInv, TypeOK, DeliveryTypeOK
  <1> QED
    BY <1>3, <1>4, <1>5, <1>6 DEF registerStatusCallback

\* newStatus() calls arrive in order.
LEMMA HearInv ==
    ASSUME DeliveryInv, Hear
    PROVE  DeliveryInv'
  <1>1. toClient \in Seq(Status) /\ toClient # <<>>
    BY DEF DeliveryInv, TypeOK, DeliveryTypeOK, Hear, newStatusArrives
  <1>2. PICK x : x \in Status
    BY DEF Status
  <1>3. /\ Head(toClient) \in Status /\ Tail(toClient) \in Seq(Status)
        /\ Tail(toClient) = <<>> => LastOf(toClient) = Head(toClient)
        /\ Tail(toClient) # <<>> => LastOf(Tail(toClient)) = LastOf(toClient)
    BY <1>1, <1>2, QueueFacts
  <1>4. TypeOK'
    BY <1>3 DEF DeliveryInv, TypeOK, DeliveryTypeOK, Hear, newStatusArrives
  <1>5. Newest' = Newest
    BY <1>1, <1>3 DEF Hear, newStatusArrives, Newest
  <1> QED
    BY <1>4, <1>5 DEF DeliveryInv, Hear, newStatusArrives

LEMMA NextInv ==
    ASSUME DeliveryInv, [Next]_vars
    PROVE  DeliveryInv'
  <1>1. CASE Publish
    BY <1>1, PublishInv
  <1>2. CASE Hear
    BY <1>2, HearInv
  <1>3. CASE Deliver
    BY <1>3, HandleInv, RegisterInv DEF Deliver, DeliveryStep
  <1>4. CASE UNCHANGED vars
    BY <1>4 DEF vars, deliveryVars, DeliveryInv, TypeOK, DeliveryTypeOK, Newest
  <1> QED
    BY <1>1, <1>2, <1>3, <1>4 DEF Next

LEMMA Invariance == Spec => []DeliveryInv
  BY InitInv, NextInv, PTL DEF Spec

\* The handler, the one-way calls and the registration carry states and
\* nothing else: the greeting never gets into mMostRecentState.
THEOREM OnlyStatesTravel == Spec => []TypeOK
  <1>1. DeliveryInv => TypeOK
    BY DEF DeliveryInv
  <1> QED
    BY <1>1, Invariance, PTL

\* A state published after registerStatusCallback() has added the callback is
\* the last the app hears of, however the binder thread, the handler and the
\* one-way calls interleave.
THEOREM NothingOvertakes == Spec => []LatestIsHeardLast
  <1>1. DeliveryInv => LatestIsHeardLast
    BY DEF DeliveryInv, LatestIsHeardLast, Delivered, Newest
  <1> QED
    BY <1>1, Invariance, PTL
=============================================================================
