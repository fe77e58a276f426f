---------------------------- MODULE PauseProtocol ----------------------------
(***************************************************************************)
(* DeviceStateReceiver and OpenVpnManagementThread working together: the   *)
(* receiver decides, the management thread holds and releases openvpn.     *)
(***************************************************************************)
EXTENDS ManagementHold

vars == <<network, screen, userpause, lastConnectedNetwork, registered, delayPosted,
          activeNet, netBroadcast, screenOn, pc, mWaitingForRelease,
          resumePosted, ovpn, msgs, cmds, overtaken>>

Init == ReceiverInit /\ HoldInit

Next ==
    \/ ReceiverNext /\ UNCHANGED holdVars
    \/ HoldNext /\ UNCHANGED receiverVars

Spec == Init /\ [][Next]_vars

(* A thread inside a method goes on; openvpn serves its management socket  *)
(* and announces the hold after a restart; the reader thread reads.  Due   *)
(* runnables and broadcasts are run by the main looper in queue order, so  *)
(* a due one is not overtaken for ever by others: strong fairness.         *)
(* Nothing obliges the device or the user to do anything.                  *)
Fairness ==
    /\ \A t \in Threads : WF_vars(ManagementMethod(t) /\ UNCHANGED receiverVars)
    /\ WF_vars(management_hold /\ UNCHANGED receiverVars)
    /\ WF_vars(HoldReturns /\ UNCHANGED receiverVars)
    /\ WF_vars((man_signal \/ man_hold) /\ UNCHANGED receiverVars)
    /\ WF_vars((handleHold \/ handleHoldAsks \/ handleHoldPosts
                \/ processByteCount) /\ UNCHANGED receiverVars)
    /\ WF_vars((updateByteCount \/ ScreenOnGoesOn) /\ UNCHANGED holdVars)
    /\ \A t \in Binders : WF_vars(UserResumeGoesOn(t) /\ UNCHANGED holdVars)
    /\ SF_vars(mResumeHoldRunnable /\ UNCHANGED receiverVars)
    /\ SF_vars(mDelayDisconnectRunnable /\ UNCHANGED holdVars)
    /\ SF_vars(ConnectivityBroadcast /\ UNCHANGED holdVars)

FairSpec == Spec /\ Fairness

-----------------------------------------------------------------------------
(* The fields of the receiver, of the management thread and of the socket  *)
(* stay in the types the code declares.                                    *)
TypeOK == ReceiverTypeOK /\ HoldTypeOK

Queued(c) == \E i \in DOMAIN cmds : cmds[i] = c
MessageQueued(m) == \E i \in DOMAIN msgs : msgs[i] = m
AtMethod(S) == \E t \in Threads : pc[t] \in S

(* openvpn waits in a hold and its >HOLD has been read.                    *)
Held == ovpn = "hold" /\ ~MessageQueued("HOLD")

(* Whatever the interleaving of the threads, an openvpn process that *)
(* sits in a hold is known to be on hold (mWaitingForRelease, which every  *)
(* later resume or networkChange tests) unless a command that ends this    *)
(* hold is on its way.  handleHold/releaseHoldCmd keep the flag and the    *)
(* process together although neither takes a lock.                         *)
HoldIsKnown ==
    Held => \/ mWaitingForRelease
            \/ Queued("holdRelease") \/ Queued("SIGUSR1")
            \/ AtMethod({"cleared"})

(* No lost wake-up: when the receiver wants the VPN connected and openvpn  *)
(* is held, something that leads to a release is already under way: the    *)
(* posted mResumeHoldRunnable, handleHold about to ask or to post, a       *)
(* thread inside resume/networkChange/releaseHoldCmd, or a command in the  *)
(* socket.  This is why handleHold must set the flag before it asks.       *)
(* There is one way to lose it, and the property names it: a pause() on    *)
(* the main or a binder thread that comes after the VPN was wanted takes   *)
(* the posted release back (overtaken, Overtaking); userPause(false) calls *)
(* it on a VPN that is wanted already.  A pause() for a byte count does    *)
(* not: openvpn announces a later hold behind the count.                   *)
WakeupMethods == {"flagged", "postResume", "resume", "networkChange", "releasing", "cleared"}
ReleaseUnderWay ==
    \/ resumePosted > 0
    \/ AtMethod(WakeupMethods)
    \/ Queued("holdRelease") \/ Queued("SIGUSR1")
Overtaking == \E t \in Threads \ {"mgmt"} : pc[t] = "pause"
NoLostWakeup == (Held /\ shouldBeConnected) => ReleaseUnderWay \/ overtaken \/ Overtaking

(* If the VPN is wanted from some moment on, and no pause() comes after    *)
(* that, openvpn does not stay held.  (resume, mResumeHoldRunnable,        *)
(* networkChange.)                                                         *)
ReleasedUnlessOvertaken == <>[](shouldBeConnected /\ ~overtaken) => []<>(ovpn # "hold")

-----------------------------------------------------------------------------
(* What the interface promises and the code does not keep: a VPN that is   *)
(* wanted from some moment on does not stay on hold, "Resume the VPN"      *)
(* (IOpenVPNAPIService.aidl).  A client's resume() of a VPN that is wanted *)
(* goes through "update the reason", which takes back the posted release.  *)
WantedIsReleased == <>[]shouldBeConnected => []<>(ovpn # "hold")
=============================================================================
