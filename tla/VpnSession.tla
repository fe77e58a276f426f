----------------------------- MODULE VpnSession -----------------------------
(***************************************************************************)
(* core/OpenVPNService.java, core/OpenVPNThread.java and the static part   *)
(* of core/OpenVpnManagementThread.java: how a VPN session is started,     *)
(* replaced by the next one and torn down.  Four kinds of threads meet:    *)
(* the main thread, the command handler thread (startOpenVPN), and for     *)
(* each session a process thread (OpenVPNThread) and a management thread.  *)
(* Sessions are numbered in the order of startOpenVPN; 0 is null.          *)
(***************************************************************************)
EXTENDS Naturals, Sequences, SequencesExt

CONSTANT MaxSessions   \* bound on the sessions started

ASSUME SessionAssumption == MaxSessions \in Nat \ {0}

Sessions == 1..MaxSessions

VARIABLES
    starts,        \* startOpenVPN runnables posted to the command handler
    stoppedById,   \* stopSelf(startId) was called for the latest start
    cur,           \* the newest session
    cmd,           \* where the command handler thread is
    revoke,        \* where the main thread is in onRevoke()
    mStarting, mManagement, mProcessThread, mDeviceStateReceiver,
    active,        \* OpenVpnManagementThread.active, in the order of add()
    mt,            \* management thread of each session
    proc,          \* openvpn process of each session (external)
    thr,           \* OpenVPNThread of each session
    signalled,     \* sessions whose process was sent SIGINT
    interrupted,   \* sessions whose process thread was interrupted
    configured,    \* sessions whose configuration was written completely
    forgotten,     \* history, read by properties only: sessions whose thread an
                   \* endVpnService() not their own took from mProcessThread
    guiQueue,      \* registrations posted to the main thread: <<old, new>>
    registered,    \* receivers registered with the system
    foreground, stateListener,
    lastProfile    \* preference LAST_CONNECTED_PROFILE

vars == <<starts, stoppedById, cur, cmd, revoke, mStarting, mManagement, mProcessThread,
          mDeviceStateReceiver, active, mt, proc, thr, signalled, interrupted,
          configured, forgotten, guiQueue, registered, foreground, stateListener, lastProfile>>

SessionOrNull == Sessions \cup {0}

TypeOK ==
    /\ starts \in 0..MaxSessions
    /\ stoppedById \in BOOLEAN
    /\ cur \in SessionOrNull
    /\ cmd \in {"idle", "stopOld", "sleep", "force", "forcing", "stopped", "open",
                "launch", "config", "post", "failed", "ending"}
    /\ revoke \in {"idle", "stopped", "ending"}
    /\ mStarting \in BOOLEAN
    /\ mManagement \in SessionOrNull
    /\ mProcessThread \in SessionOrNull
    /\ mDeviceStateReceiver \in SessionOrNull
    /\ active \in Seq(Sessions)
    /\ mt \in [Sessions -> {"none", "created", "listening", "connected", "closed", "eof"}]
    /\ proc \in [Sessions -> {"none", "running", "gone"}]
    /\ thr \in [Sessions -> {"none", "running", "stopped", "ending", "finished"}]
    /\ signalled \subseteq Sessions
    /\ interrupted \subseteq Sessions
    /\ configured \subseteq Sessions
    /\ forgotten \subseteq Sessions
    /\ guiQueue \in Seq(SessionOrNull \X Sessions)
    /\ registered \subseteq Sessions
    /\ foreground \in BOOLEAN
    /\ stateListener \in BOOLEAN
    /\ lastProfile \in SessionOrNull

Init ==
    /\ starts = 0 /\ stoppedById = FALSE /\ cur = 0 /\ cmd = "idle" /\ revoke = "idle"
    /\ mStarting = FALSE
    /\ mManagement = 0 /\ mProcessThread = 0 /\ mDeviceStateReceiver = 0
    /\ active = <<>> /\ signalled = {} /\ interrupted = {} /\ configured = {}
    /\ forgotten = {}
    /\ mt = [s \in Sessions |-> "none"]
    /\ proc = [s \in Sessions |-> "none"]
    /\ thr = [s \in Sessions |-> "none"]
    /\ guiQueue = <<>> /\ registered = {}
    /\ foreground = FALSE /\ stateListener = FALSE /\ lastProfile = 0

threadVars == <<active, mt, proc, thr, signalled, interrupted, configured>>
serviceVars == <<guiQueue, registered, mDeviceStateReceiver, foreground, stateListener,
                 lastProfile>>

\* forceStopOpenVpnProcess() sleeps while it holds mProcessLock.
LockFree == cmd # "forcing"

-----------------------------------------------------------------------------
(* stopOpenVPN(): SIGINT to every active management thread that has a      *)
(* client, and close its socket.  A write to a process that is gone fails. *)
(* The result is that of the last one.                                     *)

HasClient(s) == mt[s] = "connected"
TakesCommand(s) == HasClient(s) /\ proc[s] = "running"
stopOpenVPNSucceeds == active # <<>> /\ TakesCommand(Last(active))

stopOpenVPN ==
    /\ signalled' = signalled \cup {s \in ToSet(active) : TakesCommand(s)}
    /\ mt' = [s \in Sessions |-> IF s \in ToSet(active) /\ HasClient(s) THEN "closed" ELSE mt[s]]
    /\ UNCHANGED <<active, proc, thr, interrupted, configured>>

-----------------------------------------------------------------------------
(* endVpnService(): first under mProcessLock, then the rest.  A process    *)
(* thread runs it, too, so it can fall between any two steps of the        *)
(* command handler.  It ends session own, 0 if it ends whichever is there. *)

EndLocked(own) ==
    /\ LockFree
    /\ mProcessThread' = 0
    /\ forgotten' = forgotten \cup ({mProcessThread} \ {0, own})

\* Mutant: endVpnService() does not look at mStarting.
EndRestAlways ==
    /\ registered' = registered \ {mDeviceStateReceiver}
    /\ mDeviceStateReceiver' = 0
    /\ lastProfile' = 0
    /\ foreground' = FALSE /\ stateListener' = FALSE
    /\ UNCHANGED guiQueue

EndRest ==
    /\ registered' = registered \ {mDeviceStateReceiver}
    /\ mDeviceStateReceiver' = 0
    /\ lastProfile' = 0
    /\ \/ /\ ~mStarting
          /\ foreground' = FALSE /\ stateListener' = FALSE
       \/ /\ mStarting
          /\ UNCHANGED <<foreground, stateListener>>
    /\ UNCHANGED guiQueue

-----------------------------------------------------------------------------
(* Requests: onStartCommand, the AIDL disconnect, onRevoke.                *)

StartRequested ==
    /\ starts + cur < MaxSessions
    /\ starts' = starts + 1
    /\ stoppedById' = FALSE
    /\ foreground' = TRUE /\ stateListener' = TRUE
    /\ UNCHANGED <<cur, cmd, revoke, mStarting, mManagement, mProcessThread, forgotten,
                   guiQueue, registered, mDeviceStateReceiver, lastProfile, threadVars>>

stopVPN ==
    /\ mManagement # 0
    /\ stopOpenVPN
    /\ UNCHANGED <<starts, stoppedById, cur, cmd, revoke, mStarting, mManagement, mProcessThread, forgotten,
                   serviceVars>>

\* The system revokes the VPN of a session that has its tun device, on a
\* binder thread.
HasTun(s) == proc[s] = "running" /\ mt[s] \in {"connected", "closed"}

onRevoke ==
    /\ revoke = "idle" /\ \E s \in Sessions : HasTun(s)
    /\ stopOpenVPN
    /\ revoke' = "stopped"
    /\ UNCHANGED <<starts, stoppedById, cur, cmd, mStarting, mManagement, mProcessThread, forgotten,
                   serviceVars>>

onRevokeEnds ==
    \/ /\ revoke = "stopped" /\ EndLocked(0)
       /\ revoke' = "ending"
       /\ UNCHANGED <<starts, stoppedById, cur, cmd, mStarting, mManagement, threadVars, serviceVars>>
    \/ /\ revoke = "ending" /\ EndRest
       /\ revoke' = "idle"
       /\ UNCHANGED <<starts, stoppedById, cur, cmd, mStarting, mManagement, mProcessThread, forgotten,
                      threadVars>>

-----------------------------------------------------------------------------
(* startOpenVPN() on the command handler thread.                           *)

\* fetchVPNProfile() finds nothing.  stopSelf(startId) is heard if no later
\* start was delivered; it leaves the foreground notification to onDestroy().
NoProfile ==
    /\ cmd = "idle" /\ starts > 0
    /\ starts' = starts - 1
    /\ stoppedById' = (starts = 1)
    /\ UNCHANGED <<cur, cmd, revoke, mStarting, mManagement, mProcessThread, forgotten, threadVars,
                   serviceVars>>

StartBegins ==
    /\ cmd = "idle" /\ starts > 0
    /\ starts' = starts - 1
    /\ cur' = cur + 1
    /\ lastProfile' = cur'
    /\ mStarting' = TRUE
    /\ cmd' = "stopOld"
    /\ UNCHANGED <<stoppedById, revoke, mManagement, mProcessThread, forgotten,
                   guiQueue, registered,
                   mDeviceStateReceiver, foreground, stateListener, threadVars>>

\* Mutant: no second of waiting for the old process.
StopOldWithoutWaiting ==
    /\ cmd = "stopOld"
    /\ \/ mManagement # 0 /\ stopOpenVPN
       \/ mManagement = 0 /\ UNCHANGED threadVars
    /\ cmd' = "force"
    /\ UNCHANGED <<starts, stoppedById, cur, revoke, mStarting, mManagement, mProcessThread, forgotten,
                   serviceVars>>

\* mOpenVPNThread is never assigned, so no thread is told of the replacement.
stopOldOpenVPNProcess ==
    /\ cmd = "stopOld"
    /\ \/ /\ mManagement # 0
          /\ stopOpenVPN
          /\ cmd' = IF stopOpenVPNSucceeds THEN "sleep" ELSE "force"
       \/ /\ mManagement = 0
          /\ cmd' = "force"
          /\ UNCHANGED threadVars
    /\ UNCHANGED <<starts, stoppedById, cur, revoke, mStarting, mManagement, mProcessThread, forgotten,
                   serviceVars>>

\* Mutant: who has waited for the signalled process does not force it to stop.
FirstSleepIsEnough ==
    /\ cmd = "sleep"
    /\ cmd' = "stopped"
    /\ UNCHANGED <<starts, stoppedById, cur, revoke, mStarting, mManagement, mProcessThread, forgotten,
                   threadVars, serviceVars>>

FirstSleepEnds ==
    /\ cmd = "sleep"
    /\ cmd' = "force"
    /\ UNCHANGED <<starts, stoppedById, cur, revoke, mStarting, mManagement, mProcessThread, forgotten,
                   threadVars,
                   serviceVars>>

\* Mutant: join() instead of a second of sleep under mProcessLock.
ForceStopJoins ==
    \/ /\ cmd = "force" /\ mProcessThread # 0
       /\ interrupted' = interrupted \cup {mProcessThread}
       /\ cmd' = "forcing"
       /\ UNCHANGED <<starts, stoppedById, cur, revoke, mStarting, mManagement, mProcessThread, forgotten,
                      serviceVars,
                      active, mt, proc, thr, signalled, configured>>
    \/ /\ \/ cmd = "force" /\ mProcessThread = 0
          \/ cmd = "forcing" /\ thr[mProcessThread] = "finished"
       /\ cmd' = "stopped"
       /\ UNCHANGED <<starts, stoppedById, cur, revoke, mStarting, mManagement, mProcessThread, forgotten,
                      threadVars,
                      serviceVars>>

forceStopOpenVpnProcess ==
    \/ /\ cmd = "force" /\ mProcessThread # 0
       /\ interrupted' = interrupted \cup {mProcessThread}
       /\ cmd' = "forcing"
       /\ UNCHANGED <<starts, stoppedById, cur, revoke, mStarting, mManagement, mProcessThread, forgotten,
                      serviceVars,
                      active, mt, proc, thr, signalled, configured>>
    \/ /\ \/ cmd = "force" /\ mProcessThread = 0
          \/ cmd = "forcing"
       /\ cmd' = "stopped"
       /\ UNCHANGED <<starts, stoppedById, cur, revoke, mStarting, mManagement, mProcessThread, forgotten,
                      threadVars,
                      serviceVars>>

\* Mutant: mStarting stays set.
StartingStays ==
    /\ cmd = "stopped"
    /\ cmd' = "open"
    /\ UNCHANGED <<starts, stoppedById, cur, revoke, mStarting, mManagement, mProcessThread, forgotten,
                   threadVars,
                   serviceVars>>

StartingCleared ==
    /\ cmd = "stopped"
    /\ mStarting' = FALSE
    /\ cmd' = "open"
    /\ UNCHANGED <<starts, stoppedById, cur, revoke, mManagement, mProcessThread, forgotten,
                   threadVars, serviceVars>>

\* openManagementInterface() may fail to bind its socket.
ManagementOpens ==
    /\ cmd = "open"
    /\ \/ /\ mt' = [mt EXCEPT ![cur] = "created"]
          /\ mManagement' = cur
          /\ cmd' = "launch"
       \/ /\ cmd' = "failed"
          /\ UNCHANGED <<mt, mManagement>>
    /\ UNCHANGED <<starts, stoppedById, cur, revoke, mStarting, mProcessThread, forgotten,
                   serviceVars, active, proc,
                   thr, signalled, interrupted, configured>>

ProcessLaunched ==
    /\ cmd = "launch"
    /\ mProcessThread' = cur
    /\ thr' = [thr EXCEPT ![cur] = "running"]
    /\ proc' = [proc EXCEPT ![cur] = "running"]
    /\ cmd' = "config"
    /\ UNCHANGED <<starts, stoppedById, cur, revoke, mStarting, mManagement, serviceVars, active, mt,
                   signalled, interrupted, configured, forgotten>>

\* writeConfigFileOutput() throws when the process has closed the pipe.
ConfigWritten ==
    /\ cmd = "config"
    /\ \/ configured' = configured \cup {cur} /\ cmd' = "post"
       \/ proc[cur] = "gone" /\ UNCHANGED configured /\ cmd' = "failed"
    /\ UNCHANGED <<starts, stoppedById, cur, revoke, mStarting, mManagement, mProcessThread, forgotten,
                   serviceVars,
                   active, mt, proc, thr, signalled, interrupted>>

\* Mutant: the old and the new receiver are mixed up.
RegistrationSwapped ==
    /\ cmd = "post"
    /\ guiQueue' = Append(guiQueue, <<cur, mDeviceStateReceiver>>)
    /\ cmd' = "idle"
    /\ UNCHANGED <<starts, stoppedById, cur, revoke, mStarting, mManagement, mProcessThread, forgotten,
                   threadVars, registered, mDeviceStateReceiver, foreground, stateListener,
                   lastProfile>>

RegistrationPosted ==
    /\ cmd = "post"
    /\ guiQueue' = Append(guiQueue, <<mDeviceStateReceiver, cur>>)
    /\ cmd' = "idle"
    /\ UNCHANGED <<starts, stoppedById, cur, revoke, mStarting, mManagement, mProcessThread, forgotten,
                   threadVars,
                   registered, mDeviceStateReceiver, foreground, stateListener, lastProfile>>

StartFails ==
    \/ /\ cmd = "failed" /\ EndLocked(cur)
       /\ cmd' = "ending"
       /\ UNCHANGED <<starts, stoppedById, cur, revoke, mStarting, mManagement, threadVars, serviceVars>>
    \/ /\ cmd = "ending" /\ EndRest
       /\ cmd' = "idle"
       /\ UNCHANGED <<starts, stoppedById, cur, revoke, mStarting, mManagement, mProcessThread, forgotten,
                      threadVars>>

\* The posted runnable.  unregisterDeviceStateReceiver() looks at the field,
\* not at its argument.
ReceiverRegistered ==
    /\ guiQueue # <<>>
    /\ LET old == Head(guiQueue)[1]
           new == Head(guiQueue)[2]
       IN  /\ registered' = (IF old # 0 /\ mDeviceStateReceiver # 0
                             THEN registered \ {old} ELSE registered) \cup {new}
           /\ mDeviceStateReceiver' = new
    /\ guiQueue' = Tail(guiQueue)
    /\ UNCHANGED <<starts, stoppedById, cur, cmd, revoke, mStarting, mManagement, mProcessThread, forgotten,
                   threadVars,
                   foreground, stateListener, lastProfile>>

-----------------------------------------------------------------------------
(* The management thread of session s.                                     *)

ManagementRuns(s) ==
    /\ mt[s] = "created"
    /\ active' = Append(active, s)
    /\ mt' = [mt EXCEPT ![s] = "listening"]
    /\ UNCHANGED <<proc, thr, signalled, interrupted, configured>>

ManagementAccepts(s) ==
    /\ mt[s] = "listening" /\ proc[s] = "running" /\ s \in configured
    /\ mt' = [mt EXCEPT ![s] = "connected"]
    /\ UNCHANGED <<active, proc, thr, signalled, interrupted, configured>>

\* End of file returns without leaving "active"; a closed socket leaves it.
ManagementEnds(s) ==
    \/ /\ mt[s] = "connected" /\ proc[s] = "gone"
       /\ mt' = [mt EXCEPT ![s] = "eof"]
       /\ UNCHANGED <<active, proc, thr, signalled, interrupted, configured>>
    \/ /\ mt[s] = "closed"
       /\ \E i \in DOMAIN active : active[i] = s /\ active' = RemoveAt(active, i)
       /\ UNCHANGED <<mt, proc, thr, signalled, interrupted, configured>>

(* The process of session s and its OpenVPNThread.                         *)

\* A signalled process exits; any process may die.  An interrupted thread
\* destroys its process at the next line it logs.
ProcessExits(s) ==
    /\ proc[s] = "running"
    /\ proc' = [proc EXCEPT ![s] = "gone"]
    /\ UNCHANGED <<active, mt, thr, signalled, interrupted, configured>>

ThreadSeesExit(s) ==
    /\ thr[s] = "running" /\ proc[s] = "gone"
    /\ thr' = [thr EXCEPT ![s] = "stopped"]
    /\ UNCHANGED <<active, mt, proc, signalled, interrupted, configured>>

elsewhere == <<starts, stoppedById, cur, cmd, revoke, mStarting, mManagement, mProcessThread, forgotten,
               serviceVars>>

ThreadStep(s) ==
    /\ ManagementRuns(s) \/ ManagementAccepts(s) \/ ManagementEnds(s) \/ ThreadSeesExit(s)
    /\ UNCHANGED elsewhere

ExitStep(s) == ProcessExits(s) /\ UNCHANGED elsewhere

openvpnStopped(s) ==
    \/ /\ thr[s] = "stopped" /\ EndLocked(s)
       /\ thr' = [thr EXCEPT ![s] = "ending"]
       /\ UNCHANGED <<starts, stoppedById, cur, cmd, revoke, mStarting, mManagement, serviceVars, active, mt,
                      proc, signalled, interrupted, configured>>
    \/ /\ thr[s] = "ending" /\ EndRest
       /\ thr' = [thr EXCEPT ![s] = "finished"]
       /\ UNCHANGED <<starts, stoppedById, cur, cmd, revoke, mStarting, mManagement, mProcessThread, forgotten,
                      active,
                      mt, proc, signalled, interrupted, configured>>

CommandStep ==
    \/ NoProfile \/ StartBegins \/ stopOldOpenVPNProcess \/ FirstSleepEnds \/ forceStopOpenVpnProcess
    \/ StartingCleared \/ ManagementOpens \/ ProcessLaunched \/ ConfigWritten
    \/ RegistrationPosted \/ StartFails

Next ==
    \/ StartRequested \/ stopVPN \/ onRevoke \/ onRevokeEnds
    \/ CommandStep
    \/ ReceiverRegistered
    \/ \E s \in Sessions : ThreadStep(s) \/ ExitStep(s) \/ openvpnStopped(s)

Spec == Init /\ [][Next]_vars

(* Threads run on and a process that got SIGINT exits.  Nobody has to      *)
(* start or stop a session, and no process has to die.                     *)
Fairness ==
    /\ WF_vars(CommandStep)
    /\ WF_vars(onRevokeEnds)
    /\ WF_vars(ReceiverRegistered)
    /\ \A s \in Sessions :
          /\ WF_vars(ThreadStep(s))
          /\ WF_vars(s \in signalled /\ ExitStep(s))
          /\ WF_vars(openvpnStopped(s))

FairSpec == Spec /\ Fairness

-----------------------------------------------------------------------------
(* In every environment, also where processes linger and starts overtake   *)
(* one another: a process that still runs when a later session has its own *)
(* was interrupted by forceStopOpenVpnProcess(), unless endVpnService() of *)
(* another session or of onRevoke() had taken its thread out of            *)
(* mProcessThread, where the command handler looks for it.                 *)
OldIsInterrupted ==
    \A r, s \in Sessions :
        proc[r] = "running" /\ proc[s] = "running" /\ r < s => r \in interrupted \cup forgotten

(* When everything has ended, the service has left the foreground (or was  *)
(* asked to stop by start id) and holds no process thread: no              *)
(* endVpnService is skipped or overtaken.                                  *)
Settled == /\ starts = 0 /\ cmd = "idle" /\ revoke = "idle" /\ guiQueue = <<>>
           /\ \A s \in Sessions : mt[s] # "created"
Gone(s) == thr[s] \in {"none", "finished"}
Ended == Settled /\ \A s \in Sessions : Gone(s)
ServiceIsReleased == Ended => (foreground => stoppedById) /\ mProcessThread = 0

(* A session that was sent SIGINT is torn down completely although its     *)
(* endVpnService waits for the lock under which the command handler        *)
(* sleeps.                                                                 *)
StopEnds == \A s \in Sessions : s \in signalled ~> thr[s] = "finished"

=============================================================================
