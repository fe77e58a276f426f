-------------------------- MODULE MCStatusDelivery --------------------------
(***************************************************************************)
(* StatusDelivery under an engine that publishes any sequence of states,   *)
(* with two history variables.                                             *)
(***************************************************************************)
EXTENDS StatusDelivery

CONSTANT MaxUpdates   \* bound on the states published

ASSUME UpdatesAssumption == MaxUpdates \in Nat

VARIABLES
    updates,   \* how many states have been published
    fresh,     \* the newest of them came after the registration
    heard      \* the last status the app has received

vars == <<deliveryVars, updates, fresh, heard>>

TypeOK ==
    /\ DeliveryTypeOK
    /\ updates \in 0..MaxUpdates
    /\ fresh \in BOOLEAN
    /\ heard \in Status \cup {""}

Init == DeliveryInit /\ updates = 0 /\ fresh = FALSE /\ heard = ""

Publish ==
    /\ updates < MaxUpdates
    /\ updates' = updates + 1
    /\ \E s \in VpnState : updateStateString(s)
    /\ fresh' = mCallbacks
    /\ UNCHANGED heard

Hear ==
    /\ newStatusArrives
    /\ heard' = Head(toClient)
    /\ UNCHANGED <<updates, fresh>>

Deliver == (DeliveryStep \/ RegisterCalled) /\ UNCHANGED <<updates, fresh, heard>>

Next == Publish \/ Hear \/ Deliver

Spec == Init /\ [][Next]_vars

-----------------------------------------------------------------------------
(* A state published after registerStatusCallback() has added the callback *)
(* is the last the app hears of, once everything is delivered: no greeting *)
(* and no older message of the handler arrives after it.                   *)
LatestIsHeardLast == (Delivered /\ fresh) => heard = mMostRecentState
=============================================================================
