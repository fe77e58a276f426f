---------------------------- MODULE SessionProofs ----------------------------
(***************************************************************************)
(* Theorems about the life of VPN sessions, for every number of sessions.  *)
(***************************************************************************)
EXTENDS VpnSession, SequenceTheorems, TLAPS

Done(s) == thr[s] \in {"none", "finished"}

\* The stages of startOpenVPN() before a process of the new session exists.
Stopping == {"stopOld", "sleep", "force", "forcing", "stopped"}
Opening == Stopping \cup {"open", "launch"}

(* What holds in every environment.                                        *)

\* Sessions are started one after the other; nothing is known of the next.
Numbered ==
    /\ starts + cur <= MaxSessions
    /\ cmd # "idle" => cur # 0
    /\ mStarting <=> cmd \in Stopping

Untouched ==
    \A s \in Sessions :
       /\ s > cur => mt[s] = "none" /\ thr[s] = "none"
       /\ s = cur /\ cmd \in Opening => thr[s] = "none"
       /\ s = cur /\ cmd \in Opening \ {"launch"} => mt[s] = "none"
       /\ s = cur /\ cmd \in Opening \cup {"config"} => s \notin configured
       /\ s > cur => s \notin configured

\* A process has an OpenVPNThread as long as it runs.
ThreadWaits ==
    \A s \in Sessions :
       /\ proc[s] = "none" <=> thr[s] = "none"
       /\ proc[s] = "running" => thr[s] = "running"

\* Who has been asked to stop, and who is in "active".
SocketState ==
    \A s \in Sessions :
       /\ s \in signalled => mt[s] = "closed"
       /\ mt[s] = "closed" /\ proc[s] = "running" => s \in signalled
       /\ mt[s] = "eof" => proc[s] = "gone"
       /\ mt[s] \in {"connected", "closed", "eof"} => thr[s] # "none"
       /\ mt[s] \in {"none", "created"} => s \notin ToSet(active)
       /\ mt[s] \in {"listening", "connected"} => s \in ToSet(active)

\* The process thread that the service knows has not run endVpnService().
KnownThread == mProcessThread # 0 => thr[mProcessThread] \in {"running", "stopped"}

\* Somebody is left who will take the service out of the foreground.
ForegroundEnds ==
    foreground => \/ stoppedById \/ starts > 0 \/ cmd \in Opening \cup {"failed", "ending"}
                  \/ \E s \in Sessions : thr[s] \in {"running", "stopped", "ending"}

SessionInv ==
    /\ TypeOK /\ Numbered /\ Untouched /\ ThreadWaits /\ SocketState /\ KnownThread
    /\ ForegroundEnds

\* A process that runs is the one the service knows, or it was interrupted
\* or forgotten; a process that is launched finds no other one known.
RunsKnown == \A r \in Sessions : proc[r] = "running" =>
                 r = mProcessThread \/ r \in interrupted \cup forgotten
KnownIsNewest ==
    mProcessThread # 0 => \A s \in Sessions : s > mProcessThread => proc[s] = "none"
KnownIsInterrupted ==
    cmd \in {"forcing", "stopped", "open", "launch"} /\ mProcessThread # 0
        => mProcessThread \in interrupted
FailedIsGone == cmd = "failed" => proc[cur] # "running"

ToldInv == RunsKnown /\ KnownIsNewest /\ KnownIsInterrupted /\ FailedIsGone
-----------------------------------------------------------------------------
(* Sequences.                                                              *)

LEMMA AppendFacts ==
    ASSUME NEW S, NEW q \in Seq(S), NEW e \in S
    PROVE  /\ Append(q, e) \in Seq(S) /\ Len(Append(q, e)) = Len(q) + 1
           /\ DOMAIN Append(q, e) = 1 .. (Len(q) + 1) /\ DOMAIN q = 1 .. Len(q)
           /\ \A i \in DOMAIN q : Append(q, e)[i] = q[i]
           /\ Append(q, e)[Len(q) + 1] = e
           /\ ToSet(Append(q, e)) = ToSet(q) \cup {e}
  <1>1. /\ Append(q, e) \in Seq(S) /\ Len(Append(q, e)) = Len(q) + 1
        /\ DOMAIN Append(q, e) = 1 .. (Len(q) + 1) /\ DOMAIN q = 1 .. Len(q) /\ Len(q) \in Nat
        /\ \A i \in DOMAIN q : Append(q, e)[i] = q[i]
        /\ Append(q, e)[Len(q) + 1] = e
    OBVIOUS
  <1>2. ToSet(Append(q, e)) = ToSet(q) \cup {e}
    <2>1. ASSUME NEW x \in ToSet(Append(q, e)) PROVE x \in ToSet(q) \cup {e}
      <3>1. PICK i \in DOMAIN Append(q, e) : x = Append(q, e)[i]
        BY <2>1 DEF ToSet
      <3> QED
        BY <1>1, <3>1 DEF ToSet
    <2>2. ASSUME NEW x \in ToSet(q) \cup {e} PROVE x \in ToSet(Append(q, e))
      <3>1. CASE x = e
        BY <1>1, <3>1 DEF ToSet
      <3>2. CASE x \in ToSet(q)
        <4>1. PICK i \in DOMAIN q : x = q[i]
          BY <3>2 DEF ToSet
        <4> QED
          BY <1>1, <4>1 DEF ToSet
      <3> QED
        BY <2>2, <3>1, <3>2
    <2> QED
      BY <2>1, <2>2
  <1> QED
    BY <1>1, <1>2

LEMMA RemoveFacts ==
    ASSUME NEW S, NEW q \in Seq(S), NEW i \in DOMAIN q
    PROVE  LET r == RemoveAt(q, i)
           IN  /\ r \in Seq(S) /\ Len(r) = Len(q) - 1
               /\ \A j \in DOMAIN r : r[j] = q[IF j < i THEN j ELSE j + 1]
               /\ ToSet(r) \subseteq ToSet(q)
               /\ \A x \in ToSet(q) : x # q[i] => x \in ToSet(r)
  <1> DEFINE r == RemoveAt(q, i)
  <1>1. i \in 1 .. Len(q) /\ Len(q) \in Nat /\ DOMAIN q = 1 .. Len(q)
    OBVIOUS
  <1>2. /\ SubSeq(q, 1, i - 1) \in Seq(S) /\ Len(SubSeq(q, 1, i - 1)) = i - 1
        /\ SubSeq(q, i + 1, Len(q)) \in Seq(S) /\ Len(SubSeq(q, i + 1, Len(q))) = Len(q) - i
        /\ \A j \in 1 .. (i - 1) : SubSeq(q, 1, i - 1)[j] = q[j]
        /\ \A j \in 1 .. (Len(q) - i) : SubSeq(q, i + 1, Len(q))[j] = q[i + j]
    BY <1>1, SMTT(60)
  <1>3. /\ r \in Seq(S) /\ Len(r) = Len(q) - 1
        /\ \A j \in 1 .. Len(r) : r[j] = q[IF j < i THEN j ELSE j + 1]
    <2> DEFINE a == SubSeq(q, 1, i - 1)
               b == SubSeq(q, i + 1, Len(q))
    <2>1. r = a \o b
      BY DEF RemoveAt
    <2>2. /\ a \in Seq(S) /\ Len(a) = i - 1 /\ b \in Seq(S) /\ Len(b) = Len(q) - i
          /\ \A j \in 1 .. (i - 1) : a[j] = q[j]
          /\ \A j \in 1 .. (Len(q) - i) : b[j] = q[i + j]
      BY <1>2
    <2> HIDE DEF a, b, r
    <2>3. /\ r \in Seq(S) /\ Len(r) = Len(a) + Len(b)
          /\ \A j \in 1 .. Len(r) : r[j] = IF j <= Len(a) THEN a[j] ELSE b[j - Len(a)]
      <3>1. /\ a \o b \in Seq(S) /\ Len(a \o b) = Len(a) + Len(b)
            /\ \A j \in 1 .. Len(a) + Len(b) : (a \o b)[j] = IF j <= Len(a) THEN a[j] ELSE b[j - Len(a)]
        BY <2>2, ConcatProperties, Zenon
      <3> QED
        BY <2>1, <3>1, Zenon
    <2>4. ASSUME NEW j \in 1 .. Len(r) PROVE r[j] = q[IF j < i THEN j ELSE j + 1]
      <3>1. CASE j < i
        BY <1>1, <2>2, <2>3, <3>1
      <3>2. CASE ~ (j < i)
        <4>1. r[j] = b[j - (i - 1)] /\ j - (i - 1) \in 1 .. (Len(q) - i) /\ i + (j - (i - 1)) = j + 1
          BY <1>1, <2>2, <2>3, <3>2, SMTT(60)
        <4> QED
          BY <2>2, <3>2, <4>1
      <3> QED
        BY <3>1, <3>2
    <2> QED
      BY <1>1, <2>2, <2>3, <2>4
  <1> HIDE DEF r
  <1>4. DOMAIN r = 1 .. (Len(q) - 1)
    BY <1>3
  <1>5. ASSUME NEW x \in ToSet(r) PROVE x \in ToSet(q)
    <2>1. PICK j \in DOMAIN r : x = r[j]
      BY <1>5 DEF ToSet
    <2>2. (IF j < i THEN j ELSE j + 1) \in DOMAIN q
      BY <1>1, <1>4, <2>1
    <2> QED
      BY <1>3, <1>4, <2>1, <2>2 DEF ToSet
  <1>6. ASSUME NEW x \in ToSet(q), x # q[i] PROVE x \in ToSet(r)
    <2>1. PICK j \in DOMAIN q : x = q[j]
      BY <1>6 DEF ToSet
    <2>2. CASE j < i
      BY <1>1, <1>3, <1>4, <2>1, <2>2 DEF ToSet
    <2>3. CASE j > i
      <3>1. j - 1 \in DOMAIN r /\ ~ (j - 1 < i) /\ (j - 1) + 1 = j
        BY <1>1, <1>4, <2>1, <2>3
      <3>2. r[j - 1] = q[j]
        BY <1>3, <1>4, <3>1
      <3> QED
        BY <2>1, <3>1, <3>2 DEF ToSet
    <2> QED
      BY <1>1, <1>6, <2>1, <2>2, <2>3
  <1> QED
    BY <1>3, <1>4, <1>5, <1>6 DEF r
-----------------------------------------------------------------------------
(* Types.                                                                  *)

Counters ==
    /\ starts \in 0 .. MaxSessions
    /\ cur \in 0 .. MaxSessions
    /\ mManagement \in SessionOrNull
    /\ mProcessThread \in SessionOrNull
    /\ mDeviceStateReceiver \in SessionOrNull
    /\ lastProfile \in SessionOrNull

Stages ==
    /\ cmd \in {"idle", "stopOld", "sleep", "force", "forcing", "stopped", "open",
                "launch", "config", "post", "failed", "ending"}
    /\ revoke \in {"idle", "stopped", "ending"}

Flags == /\ stoppedById \in BOOLEAN /\ mStarting \in BOOLEAN
         /\ foreground \in BOOLEAN /\ stateListener \in BOOLEAN

ThreadTypes ==
    /\ active \in Seq(Sessions)
    /\ mt \in [Sessions -> {"none", "created", "listening", "connected", "closed", "eof"}]
    /\ proc \in [Sessions -> {"none", "running", "gone"}]
    /\ thr \in [Sessions -> {"none", "running", "stopped", "ending", "finished"}]
    /\ signalled \subseteq Sessions
    /\ interrupted \subseteq Sessions
    /\ configured \subseteq Sessions

Forgotten == forgotten \subseteq Sessions

QueueTypes == guiQueue \in Seq(SessionOrNull \X Sessions) /\ registered \subseteq Sessions

LEMMA SessionSet == SessionOrNull = 0 .. MaxSessions /\ Sessions = 1 .. MaxSessions /\ MaxSessions \in Nat
  BY SessionAssumption DEF SessionOrNull, Sessions

LEMMA TypeParts ==
    TypeOK <=> Counters /\ Stages /\ Flags /\ ThreadTypes /\ Forgotten /\ QueueTypes
  <1>1. cur \in SessionOrNull <=> cur \in 0 .. MaxSessions
    BY SessionSet
  <1> QED
    BY <1>1, Zenon DEF TypeOK, Counters, Stages, Flags, ThreadTypes, Forgotten, QueueTypes
-----------------------------------------------------------------------------
(* What each part of the state sees of a step.                             *)

\* The steps that leave the threads and their sockets alone.
LEMMA QuietThreads ==
    ASSUME \/ StartRequested \/ onRevokeEnds \/ NoProfile \/ StartBegins \/ FirstSleepEnds
           \/ StartingCleared \/ RegistrationPosted \/ StartFails \/ ReceiverRegistered
           \/ UNCHANGED vars
    PROVE  /\ active' = active /\ mt' = mt /\ proc' = proc /\ thr' = thr
           /\ signalled' = signalled /\ configured' = configured /\ interrupted' = interrupted
  BY DEF StartRequested, onRevokeEnds, NoProfile, StartBegins, FirstSleepEnds, StartingCleared,
         RegistrationPosted, StartFails, ReceiverRegistered, vars, threadVars

\* The steps of the threads of a session leave the service alone.
LEMMA QuietService ==
    ASSUME NEW s \in Sessions, ThreadStep(s) \/ ExitStep(s)
    PROVE  /\ starts' = starts /\ stoppedById' = stoppedById /\ cur' = cur /\ cmd' = cmd /\ revoke' = revoke
           /\ mStarting' = mStarting /\ mManagement' = mManagement
           /\ mProcessThread' = mProcessThread /\ forgotten' = forgotten /\ guiQueue' = guiQueue /\ registered' = registered
           /\ mDeviceStateReceiver' = mDeviceStateReceiver /\ foreground' = foreground
           /\ stateListener' = stateListener /\ lastProfile' = lastProfile
  BY DEF ThreadStep, ExitStep, elsewhere, serviceVars

\* stopOpenVPN() on the three paths that reach it.
LEMMA StopSteps ==
    ASSUME stopVPN \/ onRevoke \/ (stopOldOpenVPNProcess /\ mManagement # 0)
    PROVE  /\ stopOpenVPN
           /\ UNCHANGED <<starts, stoppedById, cur, mStarting, mManagement, mProcessThread, forgotten,
                        serviceVars>>
  BY DEF stopVPN, onRevoke, stopOldOpenVPNProcess

LEMMA CountersStep ==
    ASSUME TypeOK, Numbered, [Next]_vars
    PROVE  Counters' /\ starts' + cur' <= MaxSessions /\ (cmd' # "idle" => cur' # 0)
  <1> DEFINE Goal == Counters' /\ starts' + cur' <= MaxSessions /\ (cmd' # "idle" => cur' # 0)
  <1>1. Counters /\ starts + cur <= MaxSessions /\ (cmd # "idle" => cur # 0) /\ Stages
    BY TypeParts, Zenon DEF Numbered
  <1>2. CASE StartRequested \/ NoProfile
    BY <1>1, <1>2, SessionSet DEF StartRequested, NoProfile, serviceVars, Counters
  <1>3. CASE stopVPN \/ onRevoke \/ FirstSleepEnds \/ RegistrationPosted
    BY <1>1, <1>3, SessionSet DEF stopVPN, onRevoke, FirstSleepEnds, RegistrationPosted, serviceVars, Counters
  <1>4. CASE onRevokeEnds
    BY <1>1, <1>4, SessionSet DEF onRevokeEnds, EndLocked, EndRest, serviceVars, Counters
  <1>5. CASE StartBegins
    BY <1>1, <1>5, SessionSet DEF StartBegins, Counters
  <1>6. CASE stopOldOpenVPNProcess \/ forceStopOpenVpnProcess
    BY <1>1, <1>6, SessionSet DEF stopOldOpenVPNProcess, forceStopOpenVpnProcess, serviceVars, Counters
  <1>7. CASE StartingCleared \/ ManagementOpens \/ ProcessLaunched \/ ConfigWritten
    BY <1>1, <1>7, SessionSet
       DEF StartingCleared, ManagementOpens, ProcessLaunched, ConfigWritten, serviceVars, Counters
  <1>8. CASE StartFails
    BY <1>1, <1>8, SessionSet DEF StartFails, EndLocked, EndRest, serviceVars, Counters
  <1>9. CASE ReceiverRegistered
    <2>1. Head(guiQueue) \in SessionOrNull \X Sessions
      BY <1>9, TypeParts DEF QueueTypes, ReceiverRegistered
    <2>2. Head(guiQueue)[2] \in SessionOrNull
      BY <2>1 DEF SessionOrNull
    <2> QED
      BY <1>1, <1>9, <2>2 DEF ReceiverRegistered, Counters
  <1>10. ASSUME NEW s \in Sessions, ThreadStep(s) \/ ExitStep(s) PROVE Goal
    BY <1>1, <1>10, QuietService, Zenon DEF Counters
  <1>11. ASSUME NEW s \in Sessions, openvpnStopped(s) PROVE Goal
    BY <1>1, <1>11, SessionSet, SMTT(60) DEF openvpnStopped, EndLocked, EndRest, serviceVars, Counters
  <1>12. CASE UNCHANGED vars
    BY <1>1, <1>12, Zenon DEF vars, Counters
  <1> QED
    BY <1>2, <1>3, <1>4, <1>5, <1>6, <1>7, <1>8, <1>9, <1>10, <1>11, <1>12, Zenon DEF Next, CommandStep

LEMMA StagesStep ==
    ASSUME TypeOK, [Next]_vars
    PROVE  Stages'
  <1>1. Stages
    BY TypeParts, Zenon
  <1>2. CASE StartRequested \/ stopVPN \/ onRevoke \/ onRevokeEnds
    BY <1>1, <1>2 DEF StartRequested, stopVPN, onRevoke, onRevokeEnds, Stages
  <1>3. CASE CommandStep
    BY <1>1, <1>3
       DEF CommandStep, NoProfile, StartBegins, stopOldOpenVPNProcess, FirstSleepEnds,
           forceStopOpenVpnProcess, StartingCleared, ManagementOpens, ProcessLaunched,
           ConfigWritten, RegistrationPosted, StartFails, Stages
  <1>4. CASE ReceiverRegistered
    BY <1>1, <1>4, Zenon DEF ReceiverRegistered, Stages
  <1>5. ASSUME NEW s \in Sessions, ThreadStep(s) \/ ExitStep(s) PROVE Stages'
    BY <1>1, <1>5, QuietService, Zenon DEF Stages
  <1>6. ASSUME NEW s \in Sessions, openvpnStopped(s) PROVE Stages'
    BY <1>1, <1>6, Zenon DEF openvpnStopped, Stages
  <1>7. CASE UNCHANGED vars
    BY <1>1, <1>7, Zenon DEF vars, Stages
  <1> QED
    BY <1>2, <1>3, <1>4, <1>5, <1>6, <1>7, Zenon DEF Next

\* mStarting is set exactly while startOpenVPN() stops the old session.
LEMMA FlagsStep ==
    ASSUME TypeOK, Numbered, [Next]_vars
    PROVE  Flags' /\ (mStarting' <=> cmd' \in Stopping)
  <1> DEFINE Goal == Flags' /\ (mStarting' <=> cmd' \in Stopping)
  <1>1. Flags /\ (mStarting <=> cmd \in Stopping)
    BY TypeParts, Zenon DEF Numbered
  <1>2. TRUE \in BOOLEAN /\ FALSE \in BOOLEAN /\ (starts = 1) \in BOOLEAN
    OBVIOUS
  <1>3. CASE StartRequested
    BY <1>1, <1>2, <1>3, Zenon DEF StartRequested, Flags
  <1>4. CASE stopVPN \/ onRevoke \/ ReceiverRegistered
    <2>1. /\ stoppedById' = stoppedById /\ mStarting' = mStarting
          /\ foreground' = foreground /\ stateListener' = stateListener
      BY <1>4 DEF stopVPN, onRevoke, ReceiverRegistered, serviceVars
    <2>2. cmd' = cmd
      BY <1>4 DEF stopVPN, onRevoke, ReceiverRegistered
    <2> QED
      BY <1>1, <2>1, <2>2, Zenon DEF Flags
  <1>5. ASSUME EndRest PROVE foreground' \in BOOLEAN /\ stateListener' \in BOOLEAN
    BY <1>1, <1>2, <1>5, Zenon DEF EndRest, Flags
  <1>6. CASE onRevokeEnds
    <2>1. /\ stoppedById' = stoppedById /\ mStarting' = mStarting /\ cmd' = cmd
          /\ EndRest \/ (foreground' = foreground /\ stateListener' = stateListener)
      BY <1>6 DEF onRevokeEnds, serviceVars
    <2> QED
      BY <1>1, <1>5, <2>1, Zenon DEF Flags
  <1>7. CASE NoProfile
    BY <1>1, <1>2, <1>7, Zenon DEF NoProfile, serviceVars, Flags
  <1>8. CASE StartBegins
    <2>1. cmd' \in Stopping
      BY <1>8 DEF StartBegins, Stopping
    <2> QED
      BY <1>1, <1>2, <1>8, <2>1, Zenon DEF StartBegins, Flags
  <1>9. CASE stopOldOpenVPNProcess \/ FirstSleepEnds \/ forceStopOpenVpnProcess
    <2>1. cmd \in Stopping /\ cmd' \in Stopping
      BY <1>9 DEF stopOldOpenVPNProcess, FirstSleepEnds, forceStopOpenVpnProcess, Stopping
    <2> QED
      BY <1>1, <1>9, <2>1, Zenon
         DEF stopOldOpenVPNProcess, FirstSleepEnds, forceStopOpenVpnProcess, serviceVars, Flags
  <1>10. CASE StartingCleared
    <2>1. cmd' \notin Stopping
      BY <1>10 DEF StartingCleared, Stopping
    <2> QED
      BY <1>1, <1>2, <1>10, <2>1, Zenon DEF StartingCleared, serviceVars, Flags
  <1>11. CASE ManagementOpens \/ ProcessLaunched \/ ConfigWritten \/ RegistrationPosted
    <2>1. cmd \notin Stopping /\ cmd' \notin Stopping
      BY <1>11 DEF ManagementOpens, ProcessLaunched, ConfigWritten, RegistrationPosted, Stopping
    <2>2. /\ stoppedById' = stoppedById /\ mStarting' = mStarting
          /\ foreground' = foreground /\ stateListener' = stateListener
      BY <1>11 DEF ManagementOpens, ProcessLaunched, ConfigWritten, RegistrationPosted, serviceVars
    <2> QED
      BY <1>1, <2>1, <2>2, Zenon DEF Flags
  <1>12. CASE StartFails
    <2>1. cmd \notin Stopping /\ cmd' \notin Stopping
      BY <1>12 DEF StartFails, Stopping
    <2>2. /\ stoppedById' = stoppedById /\ mStarting' = mStarting
          /\ EndRest \/ (foreground' = foreground /\ stateListener' = stateListener)
      BY <1>12 DEF StartFails, serviceVars
    <2> QED
      BY <1>1, <1>5, <2>1, <2>2, Zenon DEF Flags
  <1>13. ASSUME NEW s \in Sessions, ThreadStep(s) \/ ExitStep(s) PROVE Goal
    BY <1>1, <1>13, QuietService, Zenon DEF Flags
  <1>14. ASSUME NEW s \in Sessions, openvpnStopped(s) PROVE Goal
    <2>1. /\ stoppedById' = stoppedById /\ mStarting' = mStarting /\ cmd' = cmd
          /\ EndRest \/ (foreground' = foreground /\ stateListener' = stateListener)
      BY <1>14 DEF openvpnStopped, serviceVars
    <2> QED
      BY <1>1, <1>5, <2>1, Zenon DEF Flags
  <1>15. CASE UNCHANGED vars
    BY <1>1, <1>15, Zenon DEF vars, Flags
  <1> QED
    BY <1>3, <1>4, <1>6, <1>7, <1>8, <1>9, <1>10, <1>11, <1>12, <1>13, <1>14, <1>15, Zenon
       DEF Next, CommandStep

LEMMA ThreadTypesStep ==
    ASSUME TypeOK, Numbered, [Next]_vars
    PROVE  ThreadTypes'
  <1>1. ThreadTypes /\ Counters /\ (cmd # "idle" => cur # 0)
    BY TypeParts, Zenon DEF Numbered
  <1>2. cmd # "idle" => cur \in Sessions
    BY <1>1, SessionSet DEF Counters
  <1>3. CASE \/ StartRequested \/ onRevokeEnds \/ NoProfile \/ StartBegins \/ FirstSleepEnds
             \/ StartingCleared \/ RegistrationPosted \/ StartFails \/ ReceiverRegistered
             \/ UNCHANGED vars
    BY <1>1, <1>3, QuietThreads, Zenon DEF ThreadTypes
  <1>4. CASE stopOpenVPN
    <2>1. ToSet(active) \subseteq Sessions
      BY <1>1 DEF ThreadTypes, ToSet
    <2>2. signalled' \subseteq Sessions
      BY <1>1, <1>4, <2>1 DEF stopOpenVPN, ThreadTypes
    <2>3. mt' \in [Sessions -> {"none", "created", "listening", "connected", "closed", "eof"}]
      BY <1>1, <1>4 DEF stopOpenVPN, ThreadTypes
    <2> QED
      BY <1>1, <1>4, <2>2, <2>3, Zenon DEF stopOpenVPN, ThreadTypes
  <1>5. CASE stopOldOpenVPNProcess /\ mManagement = 0
    BY <1>1, <1>5, Zenon DEF stopOldOpenVPNProcess, threadVars, ThreadTypes
  <1>6. CASE forceStopOpenVpnProcess
    <2>1. mProcessThread # 0 => mProcessThread \in Sessions
      BY <1>1, SessionSet DEF Counters
    <2> QED
      BY <1>1, <1>6, <2>1 DEF forceStopOpenVpnProcess, threadVars, ThreadTypes
  <1>7. CASE ManagementOpens \/ ProcessLaunched \/ ConfigWritten
    BY <1>1, <1>2, <1>7 DEF ManagementOpens, ProcessLaunched, ConfigWritten, ThreadTypes
  <1>8. ASSUME NEW s \in Sessions, ThreadStep(s) PROVE ThreadTypes'
    <2>1. CASE ManagementRuns(s)
      BY <1>1, <2>1, AppendFacts DEF ManagementRuns, ThreadTypes
    <2>2. CASE ManagementAccepts(s) \/ ThreadSeesExit(s)
      BY <1>1, <2>2 DEF ManagementAccepts, ThreadSeesExit, ThreadTypes
    <2>3. CASE ManagementEnds(s)
      <3>1. \A i \in DOMAIN active : RemoveAt(active, i) \in Seq(Sessions)
        BY <1>1, RemoveFacts, Zenon DEF ThreadTypes
      <3> QED
        BY <1>1, <2>3, <3>1 DEF ManagementEnds, ThreadTypes
    <2> QED
      BY <1>8, <2>1, <2>2, <2>3, Zenon DEF ThreadStep
  <1>9. ASSUME NEW s \in Sessions, ExitStep(s) PROVE ThreadTypes'
    BY <1>1, <1>9 DEF ExitStep, ProcessExits, ThreadTypes
  <1>10. ASSUME NEW s \in Sessions, openvpnStopped(s) PROVE ThreadTypes'
    BY <1>1, <1>10 DEF openvpnStopped, ThreadTypes
  <1> QED
    BY <1>3, <1>4, <1>5, <1>6, <1>7, <1>8, <1>9, <1>10, StopSteps, Zenon
       DEF Next, CommandStep

LEMMA ForgottenStep ==
    ASSUME TypeOK, [Next]_vars
    PROVE  Forgotten'
  <1>1. forgotten \subseteq Sessions /\ mProcessThread \in Sessions \cup {0}
    BY TypeParts, Zenon DEF Forgotten, Counters, SessionOrNull
  <1>2. CASE \E own : EndLocked(own)
    BY <1>1, <1>2 DEF EndLocked, Forgotten
  <1>3. CASE forgotten' = forgotten
    BY <1>1, <1>3 DEF Forgotten
  <1>4. CASE StartRequested \/ stopVPN \/ onRevoke \/ onRevokeEnds \/ ReceiverRegistered \/ UNCHANGED vars
    BY <1>2, <1>3, <1>4, Zenon
       DEF StartRequested, stopVPN, onRevoke, onRevokeEnds, ReceiverRegistered, vars
  <1>5. CASE CommandStep
    BY <1>2, <1>3, <1>5, Zenon
       DEF CommandStep, NoProfile, StartBegins, stopOldOpenVPNProcess, FirstSleepEnds,
           forceStopOpenVpnProcess, StartingCleared, ManagementOpens, ProcessLaunched,
           ConfigWritten, RegistrationPosted, StartFails
  <1>6. ASSUME NEW s \in Sessions, ThreadStep(s) \/ ExitStep(s) \/ openvpnStopped(s)
        PROVE  Forgotten'
    BY <1>2, <1>3, <1>6, QuietService, Zenon DEF openvpnStopped
  <1> QED
    BY <1>4, <1>5, <1>6, Zenon DEF Next

LEMMA QueueTypesStep ==
    ASSUME TypeOK, Numbered, [Next]_vars
    PROVE  QueueTypes'
  <1>1. QueueTypes /\ Counters /\ (cmd # "idle" => cur # 0)
    BY TypeParts, Zenon DEF Numbered
  <1>2. cmd # "idle" => cur \in Sessions
    BY <1>1, SessionSet DEF Counters
  <1>3. CASE EndRest
    BY <1>1, <1>3 DEF EndRest, QueueTypes
  <1>4. CASE RegistrationPosted
    <2>1. <<mDeviceStateReceiver, cur>> \in SessionOrNull \X Sessions
      BY <1>1, <1>2, <1>4 DEF Counters, RegistrationPosted
    <2> QED
      BY <1>1, <1>4, <2>1, AppendFacts DEF RegistrationPosted, QueueTypes
  <1>5. CASE ReceiverRegistered
    <2>1. Head(guiQueue) \in SessionOrNull \X Sessions /\ Tail(guiQueue) \in Seq(SessionOrNull \X Sessions)
      BY <1>1, <1>5 DEF QueueTypes, ReceiverRegistered
    <2>2. Head(guiQueue)[2] \in Sessions
      BY <2>1
    <2> QED
      BY <1>1, <1>5, <2>1, <2>2 DEF ReceiverRegistered, QueueTypes
  <1>6. CASE UNCHANGED <<guiQueue, registered>>
    BY <1>1, <1>6 DEF QueueTypes
  <1>7. ASSUME NEW s \in Sessions, ThreadStep(s) \/ ExitStep(s) PROVE UNCHANGED <<guiQueue, registered>>
    BY <1>7, QuietService
  <1>8. CASE StartRequested \/ stopVPN \/ onRevoke \/ onRevokeEnds
    BY <1>3, <1>6, <1>8 DEF StartRequested, stopVPN, onRevoke, onRevokeEnds, serviceVars
  <1>9. CASE \/ NoProfile \/ StartBegins \/ stopOldOpenVPNProcess \/ FirstSleepEnds
             \/ forceStopOpenVpnProcess \/ StartingCleared
    BY <1>6, <1>9
       DEF NoProfile, StartBegins, stopOldOpenVPNProcess, FirstSleepEnds, forceStopOpenVpnProcess,
           StartingCleared, serviceVars
  <1>10. CASE ManagementOpens \/ ProcessLaunched \/ ConfigWritten \/ StartFails
    BY <1>3, <1>6, <1>10 DEF ManagementOpens, ProcessLaunched, ConfigWritten, StartFails, serviceVars
  <1>11. ASSUME NEW s \in Sessions, openvpnStopped(s) PROVE QueueTypes'
    BY <1>3, <1>6, <1>11 DEF openvpnStopped, serviceVars
  <1>12. CASE UNCHANGED vars
    BY <1>6, <1>12 DEF vars
  <1> QED
    BY <1>4, <1>5, <1>6, <1>7, <1>8, <1>9, <1>10, <1>11, <1>12, Zenon DEF Next, CommandStep

LEMMA TypeStep == TypeOK /\ Numbered /\ [Next]_vars => TypeOK' /\ Numbered'
  <1> SUFFICES ASSUME TypeOK, Numbered, [Next]_vars PROVE TypeOK' /\ Numbered'
    OBVIOUS
  <1>1. TypeOK' <=> Counters' /\ Stages' /\ Flags' /\ ThreadTypes' /\ Forgotten' /\ QueueTypes'
    BY TypeParts, PTL
  <1> QED
    BY <1>1, CountersStep, StagesStep, FlagsStep, ThreadTypesStep, ForgottenStep, QueueTypesStep, Zenon
       DEF Numbered
-----------------------------------------------------------------------------
(* The threads and sockets of the sessions.                                *)

ThreadsInv == Untouched /\ ThreadWaits /\ SocketState

LEMMA StopKeepsThreads ==
    ASSUME TypeOK, Numbered, ThreadsInv, stopOpenVPN, cur' = cur,
           cmd' = cmd \/ (cmd \in Opening \ {"launch"} /\ cmd' \in Opening \ {"launch"})
    PROVE  ThreadsInv'
  <1>1. ThreadTypes
    BY TypeParts, Zenon
  <1>2. /\ proc' = proc /\ thr' = thr /\ active' = active /\ configured' = configured
        /\ signalled' = signalled \cup {s \in ToSet(active) : TakesCommand(s)}
        /\ \A s \in Sessions : mt'[s] = IF s \in ToSet(active) /\ HasClient(s) THEN "closed" ELSE mt[s]
    BY DEF stopOpenVPN
  <1>3. Untouched'
    BY <1>1, <1>2 DEF ThreadsInv, Untouched, ThreadTypes, HasClient, SocketState
  <1>4. ThreadWaits'
    BY <1>2, Zenon DEF ThreadsInv, ThreadWaits
  <1>5. SocketState'
    <2> SUFFICES ASSUME NEW s \in Sessions
                 PROVE  /\ s \in signalled' => mt'[s] = "closed"
                        /\ mt'[s] = "closed" /\ proc[s] = "running" => s \in signalled'
                        /\ mt'[s] = "eof" => proc[s] = "gone"
                        /\ mt'[s] \in {"connected", "closed", "eof"} => thr[s] # "none"
                        /\ mt'[s] \in {"none", "created"} => s \notin ToSet(active)
                        /\ mt'[s] \in {"listening", "connected"} => s \in ToSet(active)
      BY <1>2, ZenonT(60) DEF SocketState, ToSet
    <2> QED
      BY <1>2 DEF ThreadsInv, SocketState, HasClient, TakesCommand
  <1> QED
    BY <1>3, <1>4, <1>5 DEF ThreadsInv

LEMMA ServiceKeepsThreads ==
    ASSUME TypeOK, Numbered, ThreadsInv,
           \/ StartRequested \/ onRevokeEnds \/ NoProfile \/ StartBegins \/ FirstSleepEnds
           \/ StartingCleared \/ RegistrationPosted \/ StartFails \/ ReceiverRegistered
           \/ UNCHANGED vars \/ forceStopOpenVpnProcess
           \/ (stopOldOpenVPNProcess /\ mManagement = 0)
    PROVE  ThreadsInv'
  <1>1. /\ active' = active /\ mt' = mt /\ proc' = proc /\ thr' = thr
        /\ signalled' = signalled /\ configured' = configured
    BY QuietThreads DEF forceStopOpenVpnProcess, stopOldOpenVPNProcess, threadVars
  <1>2. ThreadWaits' /\ SocketState'
    BY <1>1, Zenon DEF ThreadsInv, ThreadWaits, SocketState, ToSet
  <1>3. /\ cur \in 0 .. MaxSessions
        /\ \/ cur' = cur /\ (cmd' = cmd \/ cmd' \notin Opening \cup {"config"})
           \/ cur' = cur /\ cmd \in Opening \ {"launch"} /\ cmd' \in Opening \ {"launch"}
           \/ cur' = cur + 1
    <2>1. cur \in 0 .. MaxSessions
      BY TypeParts, Zenon DEF Counters
    <2> QED
      BY <2>1 DEF StartRequested, onRevokeEnds, NoProfile, StartBegins, FirstSleepEnds, StartingCleared,
           RegistrationPosted, StartFails, ReceiverRegistered, vars, forceStopOpenVpnProcess,
           stopOldOpenVPNProcess, Opening, Stopping
  <1>4. Untouched'
    BY <1>1, <1>3, SessionSet DEF ThreadsInv, Untouched
  <1> QED
    BY <1>2, <1>4 DEF ThreadsInv

LEMMA StartKeepsThreads ==
    ASSUME TypeOK, Numbered, ThreadsInv, ManagementOpens \/ ProcessLaunched \/ ConfigWritten
    PROVE  ThreadsInv'
  <1>1. ThreadTypes /\ cur \in 0 .. MaxSessions /\ cmd # "idle"
    <2>1. cmd # "idle"
      BY DEF ManagementOpens, ProcessLaunched, ConfigWritten
    <2> QED
      BY <2>1, TypeParts, Zenon DEF Counters
  <1>2. cur \in Sessions
    BY <1>1, SessionSet DEF Numbered
  <1>3. CASE ManagementOpens
    <2>1. /\ active' = active /\ proc' = proc /\ thr' = thr /\ signalled' = signalled
          /\ configured' = configured /\ cur' = cur /\ cmd = "open" /\ mt[cur] = "none" /\ cur \notin configured
          /\ \/ mt' = [mt EXCEPT ![cur] = "created"] /\ cmd' = "launch"
             \/ mt' = mt /\ cmd' = "failed"
      BY <1>2, <1>3 DEF ManagementOpens, ThreadsInv, Untouched, Opening, Stopping
    <2>2. Untouched'
      BY <1>1, <1>2, <2>1, SessionSet DEF ThreadsInv, Untouched, ThreadTypes, Opening, Stopping
    <2>3. ThreadWaits'
      BY <2>1, Zenon DEF ThreadsInv, ThreadWaits
    <2>4. SocketState'
      BY <1>1, <1>2, <2>1 DEF ThreadsInv, SocketState, ThreadTypes, ToSet
    <2> QED
      BY <2>2, <2>3, <2>4 DEF ThreadsInv
  <1>4. CASE ProcessLaunched
    <2>1. /\ active' = active /\ mt' = mt /\ signalled' = signalled
          /\ configured' = configured /\ cur' = cur /\ cmd = "launch" /\ cmd' = "config"
          /\ thr[cur] = "none" /\ cur \notin configured
          /\ thr' = [thr EXCEPT ![cur] = "running"] /\ proc' = [proc EXCEPT ![cur] = "running"]
      BY <1>2, <1>4 DEF ProcessLaunched, ThreadsInv, Untouched, Opening, Stopping
    <2>2. Untouched'
      BY <1>1, <1>2, <2>1, SessionSet DEF ThreadsInv, Untouched, ThreadTypes, Opening, Stopping
    <2>3. ThreadWaits'
      BY <1>1, <1>2, <2>1 DEF ThreadsInv, ThreadWaits, ThreadTypes
    <2>4. SocketState'
      BY <1>1, <1>2, <2>1 DEF ThreadsInv, SocketState, ThreadTypes, ToSet
    <2> QED
      BY <2>2, <2>3, <2>4 DEF ThreadsInv
  <1>5. CASE ConfigWritten
    <2>1. /\ active' = active /\ mt' = mt /\ signalled' = signalled
          /\ cur' = cur /\ cmd' \in {"post", "failed"} /\ thr' = thr /\ proc' = proc
          /\ configured' \subseteq configured \cup {cur}
      BY <1>5 DEF ConfigWritten
    <2>2. Untouched'
      BY <1>1, <1>2, <2>1, SessionSet DEF ThreadsInv, Untouched, ThreadTypes, Opening, Stopping
    <2>3. ThreadWaits' /\ SocketState'
      BY <2>1, Zenon DEF ThreadsInv, ThreadWaits, SocketState, ToSet
    <2> QED
      BY <2>2, <2>3 DEF ThreadsInv
  <1> QED
    BY <1>3, <1>4, <1>5

LEMMA ThreadsKeepThreads ==
    ASSUME TypeOK, Numbered, ThreadsInv, NEW s \in Sessions,
           ThreadStep(s) \/ ExitStep(s) \/ openvpnStopped(s)
    PROVE  ThreadsInv'
  <1>1. ThreadTypes
    BY TypeParts, Zenon
  <1>2. cur' = cur /\ cmd' = cmd /\ signalled' = signalled /\ configured' = configured
    BY DEF ThreadStep, ExitStep, openvpnStopped, elsewhere, ManagementRuns, ManagementAccepts,
           ManagementEnds, ThreadSeesExit, ProcessExits
  <1>3. CASE ManagementRuns(s)
    <2>1. ToSet(active') = ToSet(active) \cup {s}
      BY <1>1, <1>3, AppendFacts DEF ManagementRuns, ThreadTypes
    <2>2. proc' = proc /\ thr' = thr /\ mt[s] = "created" /\ mt' = [mt EXCEPT ![s] = "listening"]
      BY <1>3 DEF ManagementRuns
    <2>3. Untouched'
      BY <1>1, <1>2, <2>2 DEF ThreadsInv, Untouched, ThreadTypes, Opening, Stopping
    <2>4. ThreadWaits'
      BY <2>2, Zenon DEF ThreadsInv, ThreadWaits
    <2>5. SocketState'
      <3> SUFFICES ASSUME NEW r \in Sessions
                   PROVE  /\ r \in signalled => mt'[r] = "closed"
                          /\ mt'[r] = "closed" /\ proc[r] = "running" => r \in signalled
                          /\ mt'[r] = "eof" => proc[r] = "gone"
                          /\ mt'[r] \in {"connected", "closed", "eof"} => thr[r] # "none"
                          /\ mt'[r] \in {"none", "created"} => r \notin ToSet(active) \cup {s}
                          /\ mt'[r] \in {"listening", "connected"} => r \in ToSet(active) \cup {s}
        BY <1>2, <2>1, <2>2, Zenon DEF SocketState, ToSet
      <3> QED
        BY <1>1, <2>2 DEF ThreadsInv, SocketState, ThreadTypes
    <2> QED
      BY <2>3, <2>4, <2>5 DEF ThreadsInv
  <1>4. CASE ManagementAccepts(s) \/ (ManagementEnds(s) /\ active' = active /\ mt[s] = "connected")
    <2>1. /\ proc' = proc /\ thr' = thr /\ active' = active
          /\ \/ mt[s] = "listening" /\ proc[s] = "running" /\ mt' = [mt EXCEPT ![s] = "connected"]
             \/ mt[s] = "connected" /\ proc[s] = "gone" /\ mt' = [mt EXCEPT ![s] = "eof"]
      BY <1>4 DEF ManagementAccepts, ManagementEnds
    <2>2. Untouched'
      BY <1>1, <1>2, <2>1 DEF ThreadsInv, Untouched, ThreadTypes, Opening, Stopping
    <2>3. ThreadWaits'
      BY <2>1, Zenon DEF ThreadsInv, ThreadWaits
    <2>4. SocketState'
      BY <1>1, <1>2, <2>1 DEF ThreadsInv, SocketState, ThreadWaits, ThreadTypes, ToSet
    <2> QED
      BY <2>2, <2>3, <2>4 DEF ThreadsInv
  <1>5. CASE ManagementEnds(s) /\ mt[s] = "closed"
    <2>1. PICK i \in DOMAIN active : active[i] = s /\ active' = RemoveAt(active, i)
      BY <1>5 DEF ManagementEnds
    <2>2. proc' = proc /\ thr' = thr /\ mt' = mt
      BY <1>5 DEF ManagementEnds
    <2>3. ToSet(active') \subseteq ToSet(active) /\ \A x \in ToSet(active) : x # s => x \in ToSet(active')
      BY <1>1, <2>1, RemoveFacts, Zenon DEF ThreadTypes
    <2>4. Untouched' /\ ThreadWaits'
      BY <1>2, <2>2, Zenon DEF ThreadsInv, Untouched, ThreadWaits
    <2>5. SocketState'
      <3> SUFFICES ASSUME NEW r \in Sessions
                   PROVE  /\ mt[r] \in {"none", "created"} => r \notin ToSet(active')
                          /\ mt[r] \in {"listening", "connected"} => r \in ToSet(active')
        BY <1>2, <2>2, Zenon DEF SocketState, ThreadsInv, ToSet
      <3> QED
        BY <1>5, <2>3 DEF ThreadsInv, SocketState
    <2> QED
      BY <2>4, <2>5 DEF ThreadsInv
  <1>6. CASE ThreadSeesExit(s) \/ ExitStep(s) \/ openvpnStopped(s)
    <2>1. /\ active' = active /\ mt' = mt
          /\ \/ proc[s] = "running" /\ proc' = [proc EXCEPT ![s] = "gone"] /\ thr' = thr
             \/ thr[s] = "running" /\ proc[s] = "gone" /\ thr' = [thr EXCEPT ![s] = "stopped"] /\ proc' = proc
             \/ thr[s] = "stopped" /\ thr' = [thr EXCEPT ![s] = "ending"] /\ proc' = proc
             \/ thr[s] = "ending" /\ thr' = [thr EXCEPT ![s] = "finished"] /\ proc' = proc
      BY <1>6 DEF ThreadSeesExit, ExitStep, ProcessExits, openvpnStopped
    <2>2. Untouched'
      BY <1>1, <1>2, <2>1 DEF ThreadsInv, Untouched, ThreadTypes
    <2>3. ThreadWaits'
      BY <1>1, <2>1 DEF ThreadsInv, ThreadWaits, ThreadTypes
    <2>4. SocketState'
      BY <1>1, <1>2, <2>1 DEF ThreadsInv, SocketState, ThreadTypes, ToSet
    <2> QED
      BY <2>2, <2>3, <2>4 DEF ThreadsInv
  <1> QED
    <2>1. ManagementEnds(s) => mt[s] = "closed" \/ (mt[s] = "connected" /\ active' = active)
      BY DEF ManagementEnds
    <2> QED
      BY <1>3, <1>4, <1>5, <1>6, <2>1, Zenon DEF ThreadStep

LEMMA ThreadsInvStep ==
    ASSUME TypeOK, Numbered, ThreadsInv, [Next]_vars
    PROVE  ThreadsInv'
  <1>1. CASE stopVPN \/ onRevoke \/ (stopOldOpenVPNProcess /\ mManagement # 0)
    <2>1. stopOpenVPN /\ cur' = cur
      BY <1>1, StopSteps
    <2>2. cmd' = cmd \/ (cmd \in Opening \ {"launch"} /\ cmd' \in Opening \ {"launch"})
      BY <1>1 DEF stopVPN, onRevoke, stopOldOpenVPNProcess, Opening, Stopping
    <2> QED
      BY <2>1, <2>2, StopKeepsThreads, Zenon
  <1> QED
    BY <1>1, ServiceKeepsThreads, StartKeepsThreads, ThreadsKeepThreads, Zenon DEF Next, CommandStep
-----------------------------------------------------------------------------
(* The service is released when everything has ended.                      *)

\* The steps that leave mProcessThread and the OpenVPNThreads alone.
LEMMA QuietProcess ==
    ASSUME \/ StartRequested \/ stopVPN \/ onRevoke \/ NoProfile \/ StartBegins
           \/ stopOldOpenVPNProcess \/ FirstSleepEnds \/ forceStopOpenVpnProcess
           \/ StartingCleared \/ ManagementOpens \/ ConfigWritten \/ RegistrationPosted
           \/ ReceiverRegistered \/ UNCHANGED vars
    PROVE  mProcessThread' = mProcessThread /\ thr' = thr
  <1>1. CASE StartRequested \/ stopVPN \/ onRevoke \/ NoProfile \/ StartBegins
    BY <1>1 DEF StartRequested, stopVPN, onRevoke, NoProfile, StartBegins, stopOpenVPN, threadVars
  <1>2. CASE stopOldOpenVPNProcess \/ FirstSleepEnds \/ forceStopOpenVpnProcess
    BY <1>2 DEF stopOldOpenVPNProcess, FirstSleepEnds, forceStopOpenVpnProcess, stopOpenVPN, threadVars
  <1>3. CASE StartingCleared \/ ManagementOpens \/ ConfigWritten \/ RegistrationPosted
    BY <1>3 DEF StartingCleared, ManagementOpens, ConfigWritten, RegistrationPosted, threadVars
  <1>4. CASE ReceiverRegistered \/ UNCHANGED vars
    BY <1>4 DEF ReceiverRegistered, vars, threadVars
  <1> QED
    BY <1>1, <1>2, <1>3, <1>4

LEMMA KnownThreadStep ==
    ASSUME TypeOK, Numbered, KnownThread, [Next]_vars
    PROVE  KnownThread'
  <1>1. ThreadTypes /\ Counters /\ (cmd # "idle" => cur # 0)
    BY TypeParts, Zenon DEF Numbered
  <1>2. CASE mProcessThread' = mProcessThread /\ thr' = thr
    BY <1>2, Zenon DEF KnownThread
  <1>3. CASE mProcessThread' = 0
    BY <1>3 DEF KnownThread
  <1>4. CASE onRevokeEnds \/ StartFails
    BY <1>2, <1>3, <1>4 DEF onRevokeEnds, StartFails, EndLocked, threadVars
  <1>5. CASE ProcessLaunched
    <2>1. cur \in Sessions
      BY <1>1, <1>5, SessionSet DEF ProcessLaunched, Counters
    <2> QED
      BY <1>1, <1>5, <2>1 DEF ProcessLaunched, KnownThread, ThreadTypes
  <1>6. ASSUME NEW s \in Sessions, ThreadStep(s) \/ ExitStep(s) PROVE KnownThread'
    <2>1. mProcessThread' = mProcessThread
      BY <1>6, QuietService
    <2>2. thr' = thr \/ thr' = [thr EXCEPT ![s] = "stopped"]
      BY <1>6 DEF ThreadStep, ExitStep, ManagementRuns, ManagementAccepts, ManagementEnds,
                  ThreadSeesExit, ProcessExits
    <2>3. mProcessThread # 0 => mProcessThread \in Sessions
      BY <1>1, SessionSet DEF Counters
    <2> QED
      BY <1>1, <2>1, <2>2, <2>3 DEF KnownThread, ThreadTypes
  <1>7. ASSUME NEW s \in Sessions, openvpnStopped(s) PROVE KnownThread'
    <2>1. \/ mProcessThread' = 0
          \/ mProcessThread' = mProcessThread /\ thr[s] = "ending" /\ thr' = [thr EXCEPT ![s] = "finished"]
      BY <1>7 DEF openvpnStopped, EndLocked
    <2>2. mProcessThread # 0 => mProcessThread \in Sessions
      BY <1>1, SessionSet DEF Counters
    <2> QED
      BY <1>1, <2>1, <2>2 DEF KnownThread, ThreadTypes
  <1> QED
    BY <1>2, <1>4, <1>5, <1>6, <1>7, QuietProcess, Zenon DEF Next, CommandStep

LEMMA ForegroundStep ==
    ASSUME TypeOK, Numbered, ForegroundEnds, [Next]_vars
    PROVE  ForegroundEnds'
  <1> DEFINE Ends == Opening \cup {"failed", "ending"}
             Runs(t) == \E s \in Sessions : t[s] \in {"running", "stopped", "ending"}
  <1>1. ThreadTypes /\ Counters /\ (cmd # "idle" => cur # 0) /\ (mStarting => cmd \in Stopping)
    BY TypeParts, Zenon DEF Numbered
  <1>2. foreground => stoppedById \/ starts > 0 \/ cmd \in Ends \/ Runs(thr)
    BY Zenon DEF ForegroundEnds
  <1>3. SUFFICES foreground' => stoppedById' \/ starts' > 0 \/ cmd' \in Ends \/ Runs(thr')
    BY Zenon DEF ForegroundEnds
  <1> HIDE DEF Ends, Runs
  <1>4. CASE StartRequested
    BY <1>1, <1>4, SessionSet DEF StartRequested, Counters
  <1>5. CASE NoProfile
    <2>1. starts = 1 \/ starts' > 0
      BY <1>1, <1>5, SessionSet DEF NoProfile, Counters
    <2> QED
      BY <1>5, <2>1, Zenon DEF NoProfile
  <1>6. CASE /\ foreground' = foreground /\ stoppedById' = stoppedById /\ starts' = starts
             /\ (cmd' = cmd \/ cmd' \in Ends \/ cmd \notin Ends)
             /\ (Runs(thr) => Runs(thr'))
    BY <1>2, <1>6, Zenon
  <1>7. CASE StartBegins
    BY <1>7 DEF StartBegins, Ends, Opening, Stopping
  <1>8. CASE \/ stopVPN \/ onRevoke \/ stopOldOpenVPNProcess \/ FirstSleepEnds
             \/ forceStopOpenVpnProcess \/ StartingCleared
    <2>1. thr' = thr
      BY <1>8, QuietProcess
    <2>2. foreground' = foreground /\ stoppedById' = stoppedById /\ starts' = starts
      BY <1>8 DEF stopVPN, onRevoke, stopOldOpenVPNProcess, FirstSleepEnds,
                  forceStopOpenVpnProcess, StartingCleared, serviceVars
    <2>3. cmd' = cmd \/ cmd' \in Ends
      BY <1>8 DEF stopVPN, onRevoke, stopOldOpenVPNProcess, FirstSleepEnds,
                  forceStopOpenVpnProcess, StartingCleared, Ends, Opening, Stopping
    <2> QED
      BY <1>6, <2>1, <2>2, <2>3, Zenon
  <1>9. CASE ManagementOpens \/ ConfigWritten \/ RegistrationPosted \/ ReceiverRegistered \/ UNCHANGED vars
    <2>1. thr' = thr
      BY <1>9, QuietProcess
    <2>2. foreground' = foreground /\ stoppedById' = stoppedById /\ starts' = starts
      BY <1>9 DEF ManagementOpens, ConfigWritten, RegistrationPosted, ReceiverRegistered, serviceVars, vars
    <2>3. cmd' = cmd \/ cmd' \in Ends \/ cmd \notin Ends
      BY <1>9 DEF ManagementOpens, ConfigWritten, RegistrationPosted, ReceiverRegistered, vars,
                  Ends, Opening, Stopping
    <2> QED
      BY <1>6, <2>1, <2>2, <2>3, Zenon
  <1>10. CASE ProcessLaunched
    <2>1. cur \in Sessions
      BY <1>1, <1>10, SessionSet DEF ProcessLaunched, Counters
    <2>2. thr'[cur] = "running"
      BY <1>1, <1>10, <2>1 DEF ProcessLaunched, ThreadTypes
    <2> QED
      BY <2>1, <2>2 DEF Runs
  <1>11. CASE EndRest /\ cmd' \in {cmd, "idle"} /\ (mStarting => cmd' = cmd)
    <2>1. foreground' => mStarting
      BY <1>11, Zenon DEF EndRest
    <2>2. foreground' => cmd' \in Ends
      BY <1>1, <1>11, <2>1, Zenon DEF Ends, Opening
    <2> QED
      BY <2>2
  <1>12. CASE onRevokeEnds
    <2>1. EndRest \/ (foreground' = foreground)
      BY <1>12 DEF onRevokeEnds, serviceVars
    <2>2. thr' = thr /\ stoppedById' = stoppedById /\ starts' = starts /\ cmd' = cmd
      BY <1>12 DEF onRevokeEnds, threadVars
    <2> QED
      BY <1>6, <1>11, <2>1, <2>2, Zenon
  <1>13. CASE StartFails
    <2>1. \/ EndRest /\ cmd' = "idle" /\ cmd = "ending"
          \/ foreground' = foreground /\ cmd' = "ending"
      BY <1>13 DEF StartFails, serviceVars
    <2>2. thr' = thr /\ stoppedById' = stoppedById /\ starts' = starts
      BY <1>13 DEF StartFails, threadVars
    <2>3. cmd = "ending" => cmd \notin Stopping
      BY DEF Stopping
    <2>4. "ending" \in Ends
      BY DEF Ends
    <2> QED
      BY <1>1, <1>6, <1>11, <2>1, <2>2, <2>3, <2>4, Zenon
  <1>14. ASSUME NEW s \in Sessions, ThreadStep(s) \/ ExitStep(s) PROVE Runs(thr) => Runs(thr')
    <2>1. thr' = thr \/ thr' = [thr EXCEPT ![s] = "stopped"]
      BY <1>14 DEF ThreadStep, ExitStep, ManagementRuns, ManagementAccepts, ManagementEnds,
                   ThreadSeesExit, ProcessExits
    <2> QED
      BY <1>1, <2>1 DEF Runs, ThreadTypes
  <1>15. ASSUME NEW s \in Sessions, openvpnStopped(s)
         PROVE  foreground' => stoppedById' \/ starts' > 0 \/ cmd' \in Ends \/ Runs(thr')
    <2>1. cmd' = cmd /\ stoppedById' = stoppedById /\ starts' = starts
      BY <1>15 DEF openvpnStopped
    <2>2. CASE EndRest
      BY <1>11, <2>1, <2>2, Zenon
    <2>3. CASE foreground' = foreground /\ thr' = [thr EXCEPT ![s] = "ending"]
      <3>1. Runs(thr')
        BY <1>1, <2>3 DEF Runs, ThreadTypes
      <3> QED
        BY <3>1
    <2> QED
      BY <1>15, <2>2, <2>3 DEF openvpnStopped, serviceVars
  <1> QED
    BY <1>4, <1>5, <1>6, <1>7, <1>8, <1>9, <1>10, <1>12, <1>13, <1>14, <1>15, QuietService, Zenon
       DEF Next, CommandStep

LEMMA SessionInit == Init => SessionInv
  <1> SUFFICES ASSUME Init PROVE SessionInv
    OBVIOUS
  <1>1. Counters /\ Stages /\ starts + cur <= MaxSessions /\ cmd = "idle"
    BY SessionSet DEF Init, Counters, Stages, SessionOrNull
  <1>2. Flags /\ ~mStarting
    BY Zenon DEF Init, Flags
  <1>3. ThreadTypes /\ QueueTypes /\ ToSet(active) = {}
    <2>1. ToSet(<< >>) = {}
      BY DEF ToSet
    <2> QED
      BY <2>1 DEF Init, ThreadTypes, QueueTypes
  <1>4. TypeOK
    <2>1. Forgotten
      BY DEF Init, Forgotten
    <2> QED
      BY <1>1, <1>2, <1>3, <2>1, TypeParts, Zenon
  <1>5. Numbered
    <2>1. cmd \notin Stopping
      BY <1>1 DEF Stopping
    <2> QED
      BY <1>1, <1>2, <2>1, Zenon DEF Numbered
  <1>6. Untouched /\ ThreadWaits
    BY DEF Init, Untouched, ThreadWaits
  <1>7. SocketState
    BY <1>3 DEF Init, SocketState
  <1>8. KnownThread /\ ForegroundEnds
    BY Zenon DEF Init, KnownThread, ForegroundEnds
  <1> QED
    BY <1>4, <1>5, <1>6, <1>7, <1>8, Zenon DEF SessionInv

LEMMA SessionStep == SessionInv /\ [Next]_vars => SessionInv'
  BY TypeStep, ThreadsInvStep, KnownThreadStep, ForegroundStep, Zenon DEF SessionInv, ThreadsInv

LEMMA SessionInvHolds == Spec => []SessionInv
  BY SessionInit, SessionStep, PTL DEF Spec

(* In every environment the variables of the service and of its threads    *)
(* keep their types, for every number of sessions.                         *)
THEOREM TypeCorrect == Spec => []TypeOK
  <1>1. SessionInv => TypeOK
    BY Zenon DEF SessionInv
  <1> QED
    BY <1>1, SessionInvHolds, PTL

(* In every environment, however starts, stops, revocations and dying      *)
(* processes interleave: when everything has ended, no endVpnService was   *)
(* skipped.  The service left the foreground or was stopped by start id,   *)
(* and it holds no process thread.                                         *)
THEOREM TheServiceIsReleased == Spec => []ServiceIsReleased
  <1>1. SessionInv => ServiceIsReleased
    <2> SUFFICES ASSUME SessionInv, Ended PROVE (foreground => stoppedById) /\ mProcessThread = 0
      BY Zenon DEF ServiceIsReleased
    <2>1. /\ TypeOK /\ KnownThread /\ starts = 0 /\ cmd = "idle"
          /\ \A s \in Sessions : thr[s] \in {"none", "finished"}
      BY Zenon DEF SessionInv, Ended, Gone, Settled
    <2>2. mProcessThread = 0
      <3>1. Counters
        BY <2>1, TypeParts, Zenon
      <3> QED
        BY <2>1, <3>1, SessionSet DEF Counters, KnownThread
    <2>3. /\ ~ (starts > 0) /\ cmd \notin Opening \cup {"failed", "ending"}
          /\ ~ \E s \in Sessions : thr[s] \in {"running", "stopped", "ending"}
      BY <2>1 DEF Opening, Stopping
    <2> QED
      BY <2>2, <2>3, Zenon DEF SessionInv, ForegroundEnds
  <1> QED
    BY <1>1, SessionInvHolds, PTL
-----------------------------------------------------------------------------
(* No process goes on unasked beside a later one.                          *)

\* The steps of a session that leave its process running, or end it.
LEMMA ToldByThreads ==
    ASSUME SessionInv, ToldInv, NEW s \in Sessions, ThreadStep(s) \/ ExitStep(s)
    PROVE  ToldInv'
  <1>1. /\ mProcessThread' = mProcessThread /\ forgotten' = forgotten /\ cmd' = cmd /\ cur' = cur
    BY QuietService
  <1>2. /\ interrupted' = interrupted
        /\ proc' = proc \/ (proc[s] = "running" /\ proc' = [proc EXCEPT ![s] = "gone"])
    BY DEF ThreadStep, ExitStep, ManagementRuns, ManagementAccepts, ManagementEnds,
           ThreadSeesExit, ProcessExits
  <1>3. ThreadTypes /\ (cmd = "failed" => cur \in Sessions)
    <2>1. ThreadTypes /\ Counters /\ (cmd # "idle" => cur # 0)
      BY TypeParts, Zenon DEF SessionInv, Numbered
    <2> QED
      BY <2>1, SessionSet DEF Counters
  <1>4. /\ \A r \in Sessions : proc'[r] = "running" => proc[r] = "running"
        /\ \A r \in Sessions : proc[r] = "none" => proc'[r] = "none"
        /\ cmd = "failed" /\ proc'[cur] = "running" => proc[cur] = "running"
    BY <1>2, <1>3 DEF ThreadTypes
  <1> QED
    BY <1>1, <1>2, <1>4, Zenon
       DEF ToldInv, RunsKnown, KnownIsNewest, KnownIsInterrupted, FailedIsGone

\* endVpnService() under the lock, of session own or of whichever is there:
\* own does not run any more.
LEMMA ToldByEnds ==
    ASSUME SessionInv, ToldInv, NEW own, own # 0 => proc[own] # "running", EndLocked(own),
           proc' = proc, interrupted' = interrupted, cur' = cur,
           cmd' = "failed" => cmd = "failed"
    PROVE  ToldInv'
  <1>1. mProcessThread' = 0 /\ forgotten' = forgotten \cup ({mProcessThread} \ {0, own})
    BY DEF EndLocked
  <1>2. RunsKnown'
    <2> SUFFICES ASSUME NEW r \in Sessions, proc[r] = "running"
                 PROVE  r \in interrupted \cup forgotten'
      BY <1>1 DEF RunsKnown
    <2>1. r = mProcessThread \/ r \in interrupted \cup forgotten
      BY DEF ToldInv, RunsKnown
    <2>2. r # 0 /\ r # own
      BY SessionSet
    <2> QED
      BY <1>1, <2>1, <2>2
  <1>3. FailedIsGone'
    BY DEF ToldInv, FailedIsGone
  <1> QED
    BY <1>1, <1>2, <1>3, Zenon DEF ToldInv, KnownIsNewest, KnownIsInterrupted

\* Steps that neither start nor end a process nor touch mProcessThread.
LEMMA ToldByOthers ==
    ASSUME ToldInv, proc' = proc, mProcessThread' = mProcessThread, forgotten' = forgotten,
           interrupted \subseteq interrupted', cur' = cur \/ cmd' # "failed",
           \/ cmd' = cmd
           \/ cmd' = "failed" /\ proc[cur] # "running"
           \/ cmd' \notin {"forcing", "stopped", "open", "launch", "failed"}
           \/ cmd' \in {"stopped", "open", "launch"} /\ cmd \in {"forcing", "stopped", "open"}
           \/ cmd' = "stopped" /\ mProcessThread = 0
           \/ cmd' = "forcing" /\ mProcessThread \in interrupted'
    PROVE  ToldInv'
  BY DEF ToldInv, RunsKnown, KnownIsNewest, KnownIsInterrupted, FailedIsGone

LEMMA ToldByCommand ==
    ASSUME SessionInv, ToldInv, CommandStep
    PROVE  ToldInv'
  <1>1. ThreadTypes /\ Counters /\ Untouched /\ ThreadWaits /\ (cmd # "idle" => cur \in Sessions)
    <2>1. ThreadTypes /\ Counters /\ Untouched /\ ThreadWaits /\ (cmd # "idle" => cur # 0)
      BY TypeParts, Zenon DEF SessionInv, Numbered
    <2> QED
      BY <2>1, SessionSet DEF Counters
  <1>2. CASE NoProfile \/ StartBegins \/ FirstSleepEnds \/ RegistrationPosted
    <2>1. /\ proc' = proc /\ mProcessThread' = mProcessThread /\ forgotten' = forgotten
          /\ interrupted' = interrupted
          /\ cmd' = cmd \/ cmd' \notin {"forcing", "stopped", "open", "launch", "failed"}
          /\ cmd' = cmd => cur' = cur
      BY <1>2 DEF NoProfile, StartBegins, FirstSleepEnds, RegistrationPosted, threadVars
    <2> QED
      BY <2>1, ToldByOthers
  <1>3. CASE stopOldOpenVPNProcess
    <2>1. /\ proc' = proc /\ mProcessThread' = mProcessThread /\ forgotten' = forgotten
          /\ interrupted' = interrupted /\ cmd' \in {"sleep", "force"}
      BY <1>3 DEF stopOldOpenVPNProcess, stopOpenVPN, threadVars
    <2> QED
      BY <2>1, ToldByOthers
  <1>4. CASE forceStopOpenVpnProcess
    <2>1. /\ proc' = proc /\ mProcessThread' = mProcessThread /\ forgotten' = forgotten
          /\ interrupted \subseteq interrupted' /\ cur' = cur
          /\ \/ cmd' = "stopped" /\ (mProcessThread = 0 \/ cmd = "forcing")
             \/ cmd' = "forcing" /\ mProcessThread \in interrupted'
      BY <1>4 DEF forceStopOpenVpnProcess, threadVars
    <2> QED
      BY <2>1, ToldByOthers
  <1>5. CASE StartingCleared
    BY <1>5, ToldByOthers DEF StartingCleared, threadVars
  <1>6. CASE ManagementOpens
    <2>1. cmd = "open" /\ proc[cur] = "none"
      BY <1>1, <1>6 DEF ManagementOpens, Untouched, ThreadWaits, Opening, Stopping
    <2> QED
      BY <1>6, <2>1, ToldByOthers DEF ManagementOpens
  <1>7. CASE ProcessLaunched
    <2>1. /\ cmd = "launch" /\ cmd' = "config" /\ mProcessThread' = cur /\ cur \in Sessions
          /\ proc' = [proc EXCEPT ![cur] = "running"]
          /\ interrupted' = interrupted /\ forgotten' = forgotten
      BY <1>1, <1>7 DEF ProcessLaunched
    <2>2. RunsKnown'
      BY <1>1, <2>1, SessionSet DEF ToldInv, RunsKnown, KnownIsInterrupted, ThreadTypes
    <2>3. KnownIsNewest'
      <3>1. \A s \in Sessions : s > cur => proc[s] = "none"
        BY <1>1 DEF Untouched, ThreadWaits
      <3> QED
        BY <1>1, <2>1, <3>1, SessionSet DEF KnownIsNewest, ThreadTypes
    <2>4. KnownIsInterrupted' /\ FailedIsGone'
      BY <2>1 DEF KnownIsInterrupted, FailedIsGone
    <2> QED
      BY <2>2, <2>3, <2>4 DEF ToldInv
  <1>8. CASE ConfigWritten
    BY <1>8, ToldByOthers DEF ConfigWritten
  <1>9. CASE StartFails
    <2>1. CASE cmd = "failed" /\ EndLocked(cur)
      <3>1. /\ proc' = proc /\ interrupted' = interrupted /\ cur' = cur /\ proc[cur] # "running"
        BY <1>9, <2>1 DEF StartFails, threadVars, ToldInv, FailedIsGone
      <3> QED
        BY <2>1, <3>1, ToldByEnds
    <2>2. CASE ~(cmd = "failed" /\ EndLocked(cur))
      BY <1>9, <2>2, ToldByOthers DEF StartFails, threadVars
    <2> QED
      BY <2>1, <2>2
  <1> QED
    BY <1>2, <1>3, <1>4, <1>5, <1>6, <1>7, <1>8, <1>9, Zenon DEF CommandStep

LEMMA ToldStep == SessionInv /\ ToldInv /\ [Next]_vars => ToldInv'
  <1> SUFFICES ASSUME SessionInv, ToldInv, [Next]_vars PROVE ToldInv'
    OBVIOUS
  <1>1. CASE StartRequested \/ stopVPN \/ onRevoke \/ ReceiverRegistered \/ UNCHANGED vars
    <2>1. /\ proc' = proc /\ mProcessThread' = mProcessThread /\ forgotten' = forgotten
          /\ interrupted' = interrupted /\ cmd' = cmd /\ cur' = cur
      BY <1>1 DEF StartRequested, stopVPN, onRevoke, ReceiverRegistered, stopOpenVPN, threadVars, vars
    <2> QED
      BY <2>1, ToldByOthers
  <1>2. CASE onRevokeEnds
    <2>1. proc' = proc /\ interrupted' = interrupted /\ cur' = cur /\ cmd' = cmd
      BY <1>2 DEF onRevokeEnds, threadVars
    <2>2. CASE EndLocked(0)
      BY <2>1, <2>2, ToldByEnds
    <2>3. CASE mProcessThread' = mProcessThread /\ forgotten' = forgotten
      BY <2>1, <2>3, ToldByOthers
    <2> QED
      BY <1>2, <2>2, <2>3 DEF onRevokeEnds
  <1>3. ASSUME NEW s \in Sessions, openvpnStopped(s) PROVE ToldInv'
    <2>1. proc' = proc /\ interrupted' = interrupted /\ cur' = cur /\ cmd' = cmd
      BY <1>3 DEF openvpnStopped
    <2>2. CASE thr[s] = "stopped" /\ EndLocked(s)
      <3>1. proc[s] # "running"
        BY <2>2 DEF SessionInv, ThreadWaits
      <3> QED
        BY <2>1, <2>2, <3>1, ToldByEnds
    <2>3. CASE mProcessThread' = mProcessThread /\ forgotten' = forgotten
      BY <2>1, <2>3, ToldByOthers
    <2> QED
      BY <1>3, <2>2, <2>3 DEF openvpnStopped
  <1> QED
    BY <1>1, <1>2, <1>3, ToldByThreads, ToldByCommand, Zenon DEF Next

(* In every environment, whatever lingers, dies or is started at once, and *)
(* for every number of sessions: a process that still runs beside that of  *)
(* a later session was interrupted, or had been forgotten by the service.  *)
THEOREM OldSessionsAreInterrupted == Spec => []OldIsInterrupted
  <1>1. Init => ToldInv
    BY DEF Init, ToldInv, RunsKnown, KnownIsNewest, KnownIsInterrupted, FailedIsGone
  <1>2. SessionInv /\ ToldInv => OldIsInterrupted
    <2> SUFFICES ASSUME SessionInv, ToldInv, NEW r \in Sessions, NEW s \in Sessions,
                        proc[r] = "running", proc[s] = "running", r < s
                 PROVE  r \in interrupted \cup forgotten
      BY DEF OldIsInterrupted
    <2>1. r # mProcessThread
      BY SessionSet DEF ToldInv, KnownIsNewest
    <2> QED
      BY <2>1 DEF ToldInv, RunsKnown
  <1> QED
    BY <1>1, <1>2, ToldStep, SessionInvHolds, PTL DEF Spec
=============================================================================
