------------------------- MODULE DeviceStateReceiver -------------------------
(***************************************************************************)
(* core/DeviceStateReceiver.java: decides from network, screen and user    *)
(* whether the VPN should be connected, and tells the management thread    *)
(* (pause, resume, networkChange).  Its callbacks run on several threads   *)
(* of the :openvpn process without a common lock:                          *)
(*   "main"   broadcasts and delayed runnables;                            *)
(*   "mgmt"   the management socket reader, which delivers byte counts;    *)
(*   Binders  userPause(), called through AIDL pause() and resume().       *)
(* The intents PAUSE_VPN and RESUME_VPN are never sent: the notification's *)
(* action is commented out (OpenVPNService.java:283).  A callback changes  *)
(* the receiver's fields in one step, or in two when it computes           *)
(* shouldBeConnected() twice, and leaves in pc[t] the OpenVPNManagement    *)
(* method that thread t enters next; the methods are in ManagementHold.    *)
(* getPauseReason(), which only chooses what VpnStatus displays, is left   *)
(* out.                                                                    *)
(***************************************************************************)
EXTENDS Naturals, Sequences

CONSTANTS
    Networks,        \* networks the device can be attached to
    NoNetwork,       \* getActiveNetworkInfo() = null, or no network seen yet
    ScreenOffPref,   \* preference "screenoff"
    NetChangePref,   \* preference "netchangereconnect"
    Binders,         \* binder threads on which clients call pause() and resume()
    MaxPosted        \* bound on copies of one runnable in the main queue

ASSUME ReceiverAssumption ==
    /\ NoNetwork \notin Networks
    /\ ScreenOffPref \in BOOLEAN
    /\ NetChangePref \in BOOLEAN
    /\ Binders \cap {"main", "mgmt"} = {}
    /\ MaxPosted \in Nat \ {0}

VARIABLES
    network, screen, userpause,   \* the three connectState fields
    lastConnectedNetwork,
    registered,     \* the receiver is registered (mDeviceStateReceiver # null)
    delayPosted,    \* copies of mDelayDisconnectRunnable in the main queue
    activeNet,      \* what getActiveNetworkInfo() returns now
    netBroadcast,   \* a CONNECTIVITY_ACTION broadcast is undelivered
    screenOn,       \* the device's screen
    pc              \* per thread: the method it is executing, with argument

receiverVars == <<network, screen, userpause, lastConnectedNetwork, registered,
                  delayPosted, activeNet, netBroadcast, screenOn>>

Threads == {"main", "mgmt"} \cup Binders
ConnectState == {"SHOULDBECONNECTED", "PENDINGDISCONNECT", "DISCONNECTED"}

\* A callback between its two calls of shouldBeConnected() keeps the first
\* one's answer; then the stages of handleHold() and updateByteCount(), the
\* methods of OpenVPNManagement, and the stages of releaseHoldCmd().
Ops == {"idle", "screenOnConnected", "screenOnPaused", "resumeConnected", "resumePaused",
        "byteCount", "flagged", "postResume", "pause", "resume", "networkChange",
        "releasing", "cleared"}

Enter(t, op) == pc' = [pc EXCEPT ![t] = op]

ReceiverTypeOK ==
    /\ network \in ConnectState
    /\ screen \in ConnectState
    /\ userpause \in ConnectState
    /\ lastConnectedNetwork \in Networks \cup {NoNetwork}
    /\ registered \in BOOLEAN
    /\ delayPosted \in Nat
    /\ activeNet \in Networks \cup {NoNetwork}
    /\ netBroadcast \in BOOLEAN
    /\ screenOn \in BOOLEAN
    /\ pc \in [Threads -> Ops]

ReceiverInit ==
    /\ network = "DISCONNECTED"
    /\ screen = "SHOULDBECONNECTED"
    /\ userpause = "SHOULDBECONNECTED"
    /\ lastConnectedNetwork = NoNetwork
    /\ registered = FALSE
    /\ delayPosted = 0
    /\ activeNet \in Networks \cup {NoNetwork}
    /\ netBroadcast = FALSE
    /\ screenOn = TRUE
    /\ pc = [t \in Threads |-> "idle"]

Wanted(n, s, u) == \A c \in {n, s, u} : c = "SHOULDBECONNECTED"
shouldBeConnected == Wanted(network, screen, userpause)

-----------------------------------------------------------------------------
(* The device: attachment to networks.  A broadcast follows every change;  *)
(* undelivered ones coalesce because the handler reads the current state.  *)

ActiveNetworkChanges ==
    /\ \E n \in (Networks \cup {NoNetwork}) \ {activeNet} : activeNet' = n
    /\ netBroadcast' = TRUE
    /\ UNCHANGED <<network, screen, userpause, lastConnectedNetwork, registered,
                   delayPosted, screenOn, pc>>

(* networkStateChange(): a network info that is non-null and not CONNECTED *)
(* changes nothing and is left out.                                        *)

pendingDisconnect == network = "PENDINGDISCONNECT"
sameNetwork == lastConnectedNetwork = activeNet

\* Same network, connection still established: rebind.
SameNetworkReturns ==
    /\ activeNet # NoNetwork /\ pendingDisconnect /\ sameNetwork
    /\ network' = "SHOULDBECONNECTED"
    /\ delayPosted' = 0
    /\ Enter("main", "networkChange")
    /\ UNCHANGED <<screen, lastConnectedNetwork>>

\* Mutant: a known network that returns after the delayed disconnect is not
\* followed by resume().
NetworkConnectsSilently ==
    /\ activeNet # NoNetwork /\ ~(pendingDisconnect /\ sameNetwork)
    /\ network' = "SHOULDBECONNECTED"
    /\ screen' = IF screen = "PENDINGDISCONNECT" THEN "DISCONNECTED" ELSE screen
    /\ lastConnectedNetwork' = activeNet
    /\ \/ /\ ~sameNetwork /\ Wanted(network', screen', userpause)
          /\ delayPosted' = 0
          /\ Enter("main", "networkChange")
       \/ /\ sameNetwork \/ ~Wanted(network', screen', userpause)
          /\ UNCHANGED <<delayPosted, pc>>

\* A different network, or the connection was given up meanwhile.
NetworkConnects ==
    /\ activeNet # NoNetwork /\ ~(pendingDisconnect /\ sameNetwork)
    /\ network' = "SHOULDBECONNECTED"
    /\ screen' = IF screen = "PENDINGDISCONNECT" THEN "DISCONNECTED" ELSE screen
    /\ lastConnectedNetwork' = activeNet
    /\ \/ /\ Wanted(network', screen', userpause)
          /\ delayPosted' = 0
          /\ Enter("main", IF pendingDisconnect \/ ~sameNetwork
                           THEN "networkChange" ELSE "resume")
       \/ /\ ~Wanted(network', screen', userpause)
          /\ UNCHANGED <<delayPosted, pc>>

NetworkLost ==
    /\ activeNet = NoNetwork
    /\ \/ /\ NetChangePref
          /\ delayPosted < MaxPosted
          /\ network' = "PENDINGDISCONNECT"
          /\ delayPosted' = delayPosted + 1
       \/ /\ ~NetChangePref
          /\ UNCHANGED <<network, delayPosted>>
    /\ UNCHANGED <<screen, lastConnectedNetwork, pc>>

networkStateChange ==
    /\ SameNetworkReturns \/ NetworkConnects \/ NetworkLost
    /\ UNCHANGED <<userpause, activeNet, screenOn>>

\* OpenVPNService posts this to the main thread once the session is started.
registerDeviceStateReceiver ==
    /\ pc["main"] = "idle" /\ ~registered
    /\ registered' = TRUE
    /\ networkStateChange
    /\ UNCHANGED netBroadcast

ConnectivityBroadcast ==
    /\ pc["main"] = "idle" /\ registered /\ netBroadcast
    /\ netBroadcast' = FALSE
    /\ networkStateChange
    /\ UNCHANGED registered

\* Mutant: the runnable runs again after removeCallbacks().
DelayRunnableUncancelled ==
    /\ pc["main"] = "idle" /\ registered
    /\ delayPosted' = delayPosted - 1
    /\ \/ /\ ~pendingDisconnect
          /\ UNCHANGED <<network, screen, pc>>
       \/ /\ pendingDisconnect
          /\ network' = "DISCONNECTED"
          /\ screen' = IF screen = "PENDINGDISCONNECT" THEN "DISCONNECTED" ELSE screen
          /\ Enter("main", "pause")
    /\ UNCHANGED <<userpause, lastConnectedNetwork, registered, activeNet,
                   netBroadcast, screenOn>>

mDelayDisconnectRunnable ==
    /\ pc["main"] = "idle" /\ delayPosted > 0
    /\ delayPosted' = delayPosted - 1
    /\ \/ /\ ~pendingDisconnect
          /\ UNCHANGED <<network, screen, pc>>
       \/ /\ pendingDisconnect
          /\ network' = "DISCONNECTED"
          /\ screen' = IF screen = "PENDINGDISCONNECT" THEN "DISCONNECTED" ELSE screen
          /\ Enter("main", "pause")
    /\ UNCHANGED <<userpause, lastConnectedNetwork, registered, activeNet,
                   netBroadcast, screenOn>>

-----------------------------------------------------------------------------
(* Screen broadcasts.                                                      *)

ScreenOff ==
    /\ pc["main"] = "idle" /\ registered /\ screenOn
    /\ screenOn' = FALSE
    /\ screen' = IF ~ScreenOffPref THEN screen
                 ELSE IF "DISCONNECTED" \in {network, userpause} THEN "DISCONNECTED"
                 ELSE "PENDINGDISCONNECT"
    /\ UNCHANGED <<network, userpause, lastConnectedNetwork, registered, delayPosted,
                   activeNet, netBroadcast, pc>>

ScreenOn ==
    /\ pc["main"] = "idle" /\ registered /\ ~screenOn
    /\ screenOn' = TRUE
    /\ Enter("main", IF shouldBeConnected THEN "screenOnConnected" ELSE "screenOnPaused")
    /\ UNCHANGED <<network, screen, userpause, lastConnectedNetwork, registered,
                   delayPosted, activeNet, netBroadcast>>

ScreenOnGoesOn ==
    /\ pc["main"] \in {"screenOnConnected", "screenOnPaused"}
    /\ screen' = "SHOULDBECONNECTED"
    /\ delayPosted' = 0
    /\ LET connected == pc["main"] = "screenOnConnected"
           wanted == Wanted(network, screen', userpause)
       IN  Enter("main", IF wanted # connected THEN "resume"
                         ELSE IF wanted THEN "idle" ELSE "pause")
    /\ UNCHANGED <<network, userpause, lastConnectedNetwork, registered, activeNet,
                   netBroadcast, screenOn>>

(* updateByteCount() on the management thread, entered when a BYTECOUNT    *)
(* message is read (ManagementHold).  The test of "screen" was made on     *)
(* entry; here is the rest.  The traffic of the last minute is either      *)
(* below the limit or not.                                                 *)
updateByteCount ==
    /\ pc["mgmt"] = "byteCount"
    /\ \/ /\ screen' = "DISCONNECTED"
          /\ Enter("mgmt", "pause")
       \/ /\ UNCHANGED screen
          /\ Enter("mgmt", "idle")
    /\ UNCHANGED <<network, userpause, lastConnectedNetwork, registered, delayPosted,
                   activeNet, netBroadcast, screenOn>>

-----------------------------------------------------------------------------
(* userPause(), on a binder thread.                                        *)

UserPauses(t) ==
    /\ pc[t] = "idle" /\ registered
    /\ userpause' = "DISCONNECTED"
    /\ Enter(t, "pause")
    /\ UNCHANGED <<network, screen, lastConnectedNetwork, registered, delayPosted,
                   activeNet, netBroadcast, screenOn>>

UserResumes(t) ==
    /\ pc[t] = "idle" /\ registered
    /\ Enter(t, IF shouldBeConnected THEN "resumeConnected" ELSE "resumePaused")
    /\ UNCHANGED receiverVars

\* The else branch, "update the reason", is also taken when the VPN was
\* wanted already: a client may call resume() at any time.
UserResumeGoesOn(t) ==
    /\ pc[t] \in {"resumeConnected", "resumePaused"}
    /\ userpause' = "SHOULDBECONNECTED"
    /\ Enter(t, IF Wanted(network, screen, userpause') /\ pc[t] = "resumePaused"
                THEN "resume" ELSE "pause")
    /\ UNCHANGED <<network, screen, lastConnectedNetwork, registered, delayPosted,
                   activeNet, netBroadcast, screenOn>>

userPause == \E t \in Binders : UserPauses(t) \/ UserResumes(t) \/ UserResumeGoesOn(t)

ReceiverNext ==
    \/ ActiveNetworkChanges
    \/ registerDeviceStateReceiver
    \/ ConnectivityBroadcast
    \/ mDelayDisconnectRunnable
    \/ ScreenOff
    \/ ScreenOn
    \/ ScreenOnGoesOn
    \/ updateByteCount
    \/ userPause
=============================================================================
