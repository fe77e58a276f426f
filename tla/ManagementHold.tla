---------------------------- MODULE ManagementHold ----------------------------
(***************************************************************************)
(* The two ends of the hold protocol, openvpn's manage.c and the app's     *)
(* core/OpenVpnManagementThread.java: openvpn announces >HOLD before every *)
(* connection attempt and waits for "hold release".  mWaitingForRelease    *)
(* and the queue of the main looper are shared by the threads of           *)
(* DeviceStateReceiver without a lock; each method is cut where another    *)
(* thread can change what it reads.  lastPauseReason and the states        *)
(* reported to VpnStatus are display only and left out.                    *)
(***************************************************************************)
EXTENDS DeviceStateReceiver

CONSTANTS
    MaxMsgs,   \* bound on unread messages from openvpn
    MaxCmds    \* bound on unread commands to openvpn

ASSUME SocketAssumption == MaxMsgs \in Nat \ {0} /\ MaxCmds \in Nat \ {0}

VARIABLES
    mWaitingForRelease,
    resumePosted,   \* copies of mResumeHoldRunnable in the main queue
    ovpn,           \* the openvpn process: "restart", "hold", "released" or "run"
    msgs,           \* unread messages openvpn -> management thread
    cmds,           \* unread commands management interface -> openvpn
    overtaken       \* history, read by properties only: a pause() came after the
                    \* VPN was wanted, and openvpn has announced no hold since

holdVars == <<mWaitingForRelease, resumePosted, ovpn, msgs, cmds, overtaken>>

HoldTypeOK ==
    /\ mWaitingForRelease \in BOOLEAN
    /\ resumePosted \in Nat
    /\ ovpn \in {"restart", "hold", "released", "run"}
    /\ msgs \in Seq({"HOLD", "BYTECOUNT"})
    /\ cmds \in Seq({"SIGUSR1", "holdRelease"})
    /\ overtaken \in BOOLEAN

HoldInit ==
    /\ mWaitingForRelease = FALSE
    /\ resumePosted = 0
    /\ ovpn = "restart"
    /\ msgs = <<>>
    /\ cmds = <<>>
    /\ overtaken = FALSE

managmentCommand(c) == Len(cmds) < MaxCmds /\ cmds' = Append(cmds, c)

-----------------------------------------------------------------------------
(* The openvpn process.  SIGUSR1 restarts a running tunnel, which may also *)
(* restart by itself; every start waits in management_hold().  While it is *)
(* there SIGUSR1 is ignored, and answered with the >HOLD once more: also   *)
(* when a "hold release" in the same read has just ended the hold.  A      *)
(* "hold release" outside a hold is forgotten: the teardown clears         *)
(* hold_release (management_clear_callback) before the next hold.          *)

appVars == <<mWaitingForRelease, resumePosted, pc, overtaken>>

management_hold ==
    /\ ovpn = "restart" /\ Len(msgs) < MaxMsgs
    /\ ovpn' = "hold"
    /\ msgs' = Append(msgs, "HOLD")
    /\ UNCHANGED <<cmds, appVars>>

HoldReturns ==
    /\ ovpn = "released"
    /\ ovpn' = "run"
    /\ UNCHANGED <<msgs, cmds, appVars>>

TunnelRestarts ==
    /\ ovpn = "run"
    /\ ovpn' = "restart"
    /\ UNCHANGED <<msgs, cmds, appVars>>

man_bytecount_output_client ==
    /\ ovpn = "run" /\ Len(msgs) < MaxMsgs
    /\ msgs' = Append(msgs, "BYTECOUNT")
    /\ UNCHANGED <<ovpn, cmds, appVars>>

ReadCommand(c) == cmds # <<>> /\ Head(cmds) = c /\ cmds' = Tail(cmds)

man_signal ==
    /\ ReadCommand("SIGUSR1")
    /\ \/ /\ ovpn \in {"restart", "run"}
          /\ ovpn' = "restart"
          /\ UNCHANGED msgs
       \/ /\ ovpn \in {"hold", "released"} /\ Len(msgs) < MaxMsgs
          /\ msgs' = Append(msgs, "HOLD")
          /\ UNCHANGED ovpn
    /\ UNCHANGED appVars

man_hold ==
    /\ ReadCommand("holdRelease")
    /\ ovpn' = IF ovpn = "hold" THEN "released" ELSE ovpn
    /\ UNCHANGED <<msgs, appVars>>

OpenvpnNext ==
    \/ management_hold
    \/ HoldReturns
    \/ TunnelRestarts
    \/ man_bytecount_output_client
    \/ man_signal
    \/ man_hold

-----------------------------------------------------------------------------
(* The management thread reads a message.                                  *)

\* Mutant: the flag is left alone.
HandleHoldUnflagged ==
    /\ pc["mgmt"] = "idle" /\ msgs # <<>> /\ Head(msgs) = "HOLD"
    /\ msgs' = Tail(msgs)
    /\ Enter("mgmt", "flagged")
    /\ UNCHANGED <<mWaitingForRelease, resumePosted, ovpn, cmds, overtaken>>

\* handleHold() sets the flag first ...
handleHold ==
    /\ pc["mgmt"] = "idle" /\ msgs # <<>> /\ Head(msgs) = "HOLD"
    /\ msgs' = Tail(msgs)
    /\ mWaitingForRelease' = TRUE
    /\ Enter("mgmt", "flagged")
    /\ UNCHANGED <<resumePosted, ovpn, cmds, overtaken>>

\* ... then asks the receiver; when the VPN is not wanted it only displays
\* the reason of the pause ...
handleHoldAsks ==
    /\ pc["mgmt"] = "flagged"
    /\ Enter("mgmt", IF shouldBeConnected THEN "postResume" ELSE "idle")
    /\ overtaken' = FALSE
    /\ UNCHANGED <<mWaitingForRelease, resumePosted, ovpn, msgs, cmds>>

\* Mutant: reports the retry and posts nothing.
HandleHoldForgets ==
    /\ pc["mgmt"] = "postResume"
    /\ Enter("mgmt", "idle")
    /\ UNCHANGED holdVars

\* ... else it posts the delayed release.
handleHoldPosts ==
    /\ pc["mgmt"] = "postResume" /\ resumePosted < MaxPosted
    /\ resumePosted' = resumePosted + 1
    /\ Enter("mgmt", "idle")
    /\ UNCHANGED <<mWaitingForRelease, ovpn, msgs, cmds, overtaken>>

\* processByteCount() reaches updateByteCount() when the receiver listens;
\* that returns at once unless the screen state is pending.
processByteCount ==
    /\ pc["mgmt"] = "idle" /\ msgs # <<>> /\ Head(msgs) = "BYTECOUNT"
    /\ msgs' = Tail(msgs)
    /\ \/ /\ registered /\ screen = "PENDINGDISCONNECT"
          /\ Enter("mgmt", "byteCount")
       \/ /\ ~(registered /\ screen = "PENDINGDISCONNECT")
          /\ UNCHANGED pc
    /\ UNCHANGED <<mWaitingForRelease, resumePosted, ovpn, cmds, overtaken>>

-----------------------------------------------------------------------------
(* The methods of OpenVPNManagement, run by any thread t.                  *)

\* pause() and signalusr1(): a VPN on hold stays there, and the reason is
\* displayed.
pause(t) ==
    /\ pc[t] = "pause"
    /\ resumePosted' = 0
    /\ IF mWaitingForRelease THEN UNCHANGED cmds ELSE managmentCommand("SIGUSR1")
    /\ overtaken' = (overtaken \/ (t # "mgmt" /\ shouldBeConnected))
    /\ Enter(t, "idle")
    /\ UNCHANGED <<mWaitingForRelease, ovpn, msgs>>

\* releaseHoldCmd() takes the posted release back, may sleep for 3s when the
\* last release was less than 5s ago, and only then clears the flag.
releaseHoldCmd(t) ==
    /\ resumePosted' = 0
    /\ Enter(t, "releasing")
    /\ UNCHANGED <<mWaitingForRelease, ovpn, msgs, cmds, overtaken>>

\* resume() and networkChange() release a hold.  The command "network-change",
\* which rebinds openvpn's sockets, has no effect here.
resume(t) ==
    /\ pc[t] \in {"resume", "networkChange"}
    /\ \/ mWaitingForRelease /\ releaseHoldCmd(t)
       \/ ~mWaitingForRelease /\ Enter(t, "idle") /\ UNCHANGED holdVars

mResumeHoldRunnable ==
    /\ pc["main"] = "idle" /\ resumePosted > 0
    /\ \/ shouldBeConnected /\ releaseHoldCmd("main")
       \/ /\ ~shouldBeConnected
          /\ resumePosted' = resumePosted - 1
          /\ UNCHANGED <<mWaitingForRelease, ovpn, msgs, cmds, pc, overtaken>>

ReleaseClearsFlag(t) ==
    /\ pc[t] = "releasing"
    /\ mWaitingForRelease' = FALSE
    /\ Enter(t, "cleared")
    /\ UNCHANGED <<resumePosted, ovpn, msgs, cmds, overtaken>>

ReleaseSends(t) ==
    /\ pc[t] = "cleared"
    /\ managmentCommand("holdRelease")
    /\ Enter(t, "idle")
    /\ UNCHANGED <<mWaitingForRelease, resumePosted, ovpn, msgs, overtaken>>

ManagementMethod(t) ==
    \/ pause(t)
    \/ resume(t)
    \/ ReleaseClearsFlag(t)
    \/ ReleaseSends(t)

HoldNext ==
    \/ OpenvpnNext
    \/ handleHold
    \/ handleHoldAsks
    \/ handleHoldPosts
    \/ processByteCount
    \/ mResumeHoldRunnable
    \/ \E t \in Threads : ManagementMethod(t)
=============================================================================
