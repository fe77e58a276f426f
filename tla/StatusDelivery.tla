--------------------------- MODULE StatusDelivery ---------------------------
(***************************************************************************)
(* core/VpnStatus.java and api/ExternalOpenVPNService.java: how a status   *)
(* of the engine reaches the app.  updateStateString() runs on whichever   *)
(* thread has news and posts to the main thread of the :openvpn process;   *)
(* that thread broadcasts to the registered callbacks with one-way binder  *)
(* calls.  registerStatusCallback() runs on a binder thread beside it.     *)
(***************************************************************************)
EXTENDS Naturals, Sequences

(* The states the receivers tell apart.  "WAIT" stands for WAIT and AUTH,  *)
(* "OTHER" for the states without a branch of their own in the app         *)
(* (CONNECTING, EXITING, VPN_GENERATE_CONFIG, USERPAUSE, ...).             *)
VpnState == {"NOPROCESS", "CONNECTED", "RECONNECTING", "WAIT", "OTHER"}

VARIABLES
    mMostRecentState,  \* the state of the newest update
    handler,           \* SEND_TOALL messages of the main thread
    registration,      \* where the app's registerStatusCallback() call is
    mCallbacks,        \* the app's callback is registered
    toClient           \* newStatus() calls on their way to the app

deliveryVars == <<mMostRecentState, handler, registration, mCallbacks, toClient>>

Status == VpnState \cup {"..."}

DeliveryTypeOK ==
    /\ mMostRecentState \in VpnState
    /\ handler \in Seq(VpnState)
    /\ registration \in {"unbound", "called", "greeting", "greeted", "done"}
    /\ mCallbacks \in BOOLEAN
    /\ toClient \in Seq(Status)

\* addStateListener() in onCreate() repeats the last state: none has been
\* published yet, or the VPN has been connected since an earlier life of the
\* app.
DeliveryInit ==
    /\ mMostRecentState \in {"NOPROCESS", "CONNECTED"}
    /\ handler = <<mMostRecentState>>
    /\ registration = "unbound" /\ mCallbacks = FALSE /\ toClient = <<>>

\* WAIT and AUTH are ignored while connected.
Ignored(s) == mMostRecentState = "CONNECTED" /\ s = "WAIT"

updateStateString(s) ==
    /\ ~Ignored(s)
    /\ mMostRecentState' = s
    /\ handler' = Append(handler, s)
    /\ UNCHANGED <<registration, mCallbacks, toClient>>

handleMessage ==
    /\ handler # <<>>
    /\ handler' = Tail(handler)
    /\ toClient' = IF mCallbacks THEN Append(toClient, Head(handler)) ELSE toClient
    /\ UNCHANGED <<mMostRecentState, registration, mCallbacks>>

\* onServiceConnected() in the app calls registerStatusCallback().
RegisterCalled ==
    /\ registration = "unbound"
    /\ registration' = "called"
    /\ UNCHANGED <<mMostRecentState, handler, mCallbacks, toClient>>

\* Only a connected VPN is announced to the new callback.
RegisterTests ==
    /\ registration = "called"
    /\ registration' = IF mMostRecentState = "CONNECTED" THEN "greeting" ELSE "greeted"
    /\ UNCHANGED <<mMostRecentState, handler, mCallbacks, toClient>>

\* Mutant: the greeting is written into the shared UpdateMessage.
GreetingIsStored ==
    /\ registration = "greeting"
    /\ registration' = "greeted"
    /\ mMostRecentState' = "..."
    /\ toClient' = Append(toClient, "...")
    /\ UNCHANGED <<handler, mCallbacks>>

RegisterGreets ==
    /\ registration = "greeting"
    /\ registration' = "greeted"
    /\ toClient' = Append(toClient, "...")
    /\ UNCHANGED <<mMostRecentState, handler, mCallbacks>>

RegisterAdds ==
    /\ registration = "greeted"
    /\ registration' = "done"
    /\ mCallbacks' = TRUE
    /\ UNCHANGED <<mMostRecentState, handler, toClient>>

\* Mutant: the callback is added before the greeting is sent.
RegisterAddsFirst ==
    \/ /\ registration = "called" /\ ~mCallbacks
       /\ mCallbacks' = TRUE
       /\ UNCHANGED <<mMostRecentState, handler, registration, toClient>>
    \/ mCallbacks /\ (RegisterTests \/ RegisterGreets \/ RegisterAdds)

registerStatusCallback == RegisterTests \/ RegisterGreets \/ RegisterAdds

\* A one-way call is executed in the app: calls to one callback object stay
\* in order.
newStatusArrives ==
    /\ toClient # <<>>
    /\ toClient' = Tail(toClient)
    /\ UNCHANGED <<mMostRecentState, handler, registration, mCallbacks>>

DeliveryStep == handleMessage \/ registerStatusCallback

Delivered == handler = <<>> /\ toClient = <<>> /\ registration = "done"
=============================================================================
