---------------------------- MODULE MCVpnSession ----------------------------
(***************************************************************************)
(* VpnSession for TLC, with an observer of the environment.  VpnSession    *)
(* itself restricts nothing: processes linger and starts overtake one      *)
(* another.  What only holds as long as neither happens says so with       *)
(* "orderly"; the code enforces no such order.                             *)
(***************************************************************************)
EXTENDS VpnSession

CONSTANT MaxHasty   \* bound on the sessions once the order is broken

VARIABLE orderly    \* history, read by properties only: the environment has
                    \* kept the order of OrderlyStep so far

(* An orderly environment asks for one thing after the other: it lets the  *)
(* command handler, the main thread and a new management thread do their   *)
(* work, and starts a session when the previous one is either up (its      *)
(* process talks to the management thread) or completely gone.  A process  *)
(* that is told to stop is gone after the first sleep, and none dies while *)
(* another session is started.                                             *)
StartInTurn ==
    starts' > starts => Settled /\ \A s \in Sessions : Gone(s) \/ TakesCommand(s)
StopAsked == /\ cmd' = cmd
             /\ \/ revoke = "idle" /\ revoke' = "stopped"
                \/ \E s \in Sessions : mt[s] # "closed" /\ mt'[s] = "closed"
StopInTurn == StopAsked => Settled
ExitInTime == cmd = "sleep" /\ cmd' = "force" => \A s \in signalled : Gone(s)
ExitInTurn ==
    \A s \in Sessions : proc[s] = "running" /\ proc'[s] = "gone" =>
        s \in signalled \/ (s = cur /\ starts = 0)
OrderlyStep == StartInTurn /\ StopInTurn /\ ExitInTime /\ ExitInTurn

MCInit == Init /\ orderly = TRUE
MCNext ==
    /\ Next
    /\ orderly' = (orderly /\ OrderlyStep)
    /\ orderly' \/ starts' + cur' <= MaxHasty
MCSpec == MCInit /\ [][MCNext]_<<vars, orderly>> /\ Fairness

-----------------------------------------------------------------------------
(* Session s is up and nobody asked it to stop.                            *)
Up(s) == /\ s = cur /\ cmd = "idle" /\ thr[s] = "running" /\ s \in configured
         /\ s \notin signalled \cup interrupted

(* Replacing one session by the next in an orderly environment leaves the  *)
(* new one whole: the service knows its process thread, stays in the       *)
(* foreground, still listens to VpnStatus and, once the main thread has    *)
(* run the registration, exactly the new session's receiver is registered  *)
(* (startOpenVPN against the old session's endVpnService).                 *)
NewSessionIntact ==
    \A s \in Sessions : (orderly /\ Up(s) /\ revoke = "idle") =>
        /\ mProcessThread = s /\ mManagement = s
        /\ foreground /\ stateListener
        /\ guiQueue = <<>> => registered = {s} /\ mDeviceStateReceiver = s

(* As long as a process exits within its second there are never two        *)
(* openvpn processes at once: startOpenVPN launches the next one only when *)
(* the one it has told to stop is gone (stopOldOpenVPNProcess,             *)
(* forceStopOpenVpnProcess).                                               *)
OneProcess ==
    orderly => \A r, s \in Sessions : proc[r] = "running" /\ proc[s] = "running" => r = s
=============================================================================
