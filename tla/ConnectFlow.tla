----------------------------- MODULE ConnectFlow -----------------------------
(***************************************************************************)
(* MainActivity.kt and utils/ConnectUtils.kt on top of StatusDelivery: the *)
(* home screen's connect and disconnect flows.  newStatus() writes oState  *)
(* on a binder thread and launches a coroutine on the main thread, which   *)
(* reads oState again when it runs.  The coroutines suspend in delay() and *)
(* in the ad loop, and the user clicks in between.                         *)
(***************************************************************************)
EXTENDS StatusDelivery, SequencesExt

CONSTANTS
    MaxClicks,   \* bound on what the user does
    MaxReports,  \* bound on what openvpn reports on its own
    Drops,       \* environment: the VPN may drop or restart on its own
    Smooth       \* environment: the service is bound before it is used, a start
                 \* succeeds, the activity stays resumed and every ad reports its
                 \* end

ASSUME FlowAssumption ==
    /\ MaxClicks \in Nat /\ MaxReports \in Nat
    /\ Drops \in BOOLEAN /\ Smooth \in BOOLEAN

VARIABLES
    oState,        \* ConnectUtils.oState
    starting,      \* startUp() is between its two readings of oState
    launched,      \* newStatus coroutines posted to the main thread
    greeting,      \* such a coroutine has read "..." and not yet replaced it
    delayed,       \* suspended coroutines in the order they began to wait
    jobConnect,    \* the ad loop of showConnectAd() runs
    ads,           \* interstitials on the screen
    isClick, isLoading, isOptimize, nowClickState,
    layoutConnectInfo,  \* the connection panel is visible
    connectBtn,         \* its buttons are visible, instead of the connect button
    screen,        \* another screen or the permission dialog is in front
    engine,        \* the VPN process (external)
    startPending,  \* startVPN intents on their way
    clicks, reports,
    dropped        \* history: a flow was left without anything to continue it

uiVars == <<isClick, isLoading, isOptimize, nowClickState, layoutConnectInfo, connectBtn,
            screen>>
jobVars == <<starting, launched, greeting, delayed, jobConnect, ads>>
engineVars == <<engine, startPending>>
counters == <<clicks, reports>>
vars == <<deliveryVars, oState, uiVars, jobVars, engineVars, counters, dropped>>

\* Where a coroutine waits: in defaultStatus() for 100 ms, in disconnect() for
\* a second, and for at most half a second until the activity is resumed.
ShortDelay == {"noprocess", "stopped", "optimized", "greeted", "reconnecting", "connected"}
ResumeWait == {"connectResult", "stopResult"}
Delayed == ShortDelay \cup ResumeWait \cup {"disconnect"}

TypeOK ==
    /\ DeliveryTypeOK
    /\ oState \in VpnState \cup {"...", ""}
    /\ starting \in BOOLEAN
    /\ launched \in Nat
    /\ greeting \in BOOLEAN
    /\ delayed \in Seq(Delayed)
    /\ jobConnect \in BOOLEAN
    /\ ads \in Nat
    /\ isClick \in BOOLEAN /\ isLoading \in BOOLEAN /\ isOptimize \in BOOLEAN
    /\ nowClickState \in {"0", "1", "2"}
    /\ layoutConnectInfo \in BOOLEAN /\ connectBtn \in BOOLEAN /\ screen \in BOOLEAN
    /\ engine \in {"down", "up", "stopping", "replacing"}
    /\ startPending \in Nat
    /\ clicks \in 0..MaxClicks /\ reports \in 0..MaxReports
    /\ dropped \in BOOLEAN

Init ==
    /\ DeliveryInit
    /\ oState = "" /\ starting = FALSE /\ launched = 0 /\ greeting = FALSE /\ delayed = <<>>
    /\ jobConnect = FALSE /\ ads = 0 /\ screen = FALSE
    /\ isClick = TRUE /\ isLoading = FALSE /\ isOptimize = FALSE /\ nowClickState = "1"
    /\ layoutConnectInfo = FALSE /\ connectBtn = FALSE
    /\ engine = IF mMostRecentState = "CONNECTED" THEN "up" ELSE "down"
    /\ startPending = 0 /\ clicks = 0 /\ reports = 0
    /\ dropped = FALSE

isVpnConnect == oState = "CONNECTED"

\* The main thread is in startUp(), in the "..." branch of newStatus() or waits
\* for registerStatusCallback() in onServiceConnected().
MainFree == ~starting /\ ~greeting /\ registration \in {"unbound", "done"}
Bound == registration = "done"

-----------------------------------------------------------------------------
(* Calls.  Each operator sets the variables its name says, and no others.  *)

\* iOpenVPNAPIService?.disconnect(): sets engine.  A session without a
\* management client is not reached.
disconnectCall ==
    \/ Bound /\ engine = "up" /\ engine' = "stopping"
    \/ /\ ~Bound \/ engine # "up" \/ mMostRecentState # "CONNECTED"
       /\ UNCHANGED engine

\* startUp(), as far as its second reading of oState, which newStatus() may
\* write in between.  Sets nowClickState and starting.
startUp ==
    /\ nowClickState' = IF isVpnConnect THEN "2" ELSE "0"
    /\ starting' = TRUE

\* startVpn(): no network, a restricted region, or the permission dialog
\* keep it from startUp().  front tells whether another screen stays in front.
startVpn(clickable, d, front) ==
    /\ isClick' = clickable
    /\ delayed' = d
    /\ \/ startUp /\ screen' = front
       \/ screen' \in {front, TRUE} /\ UNCHANGED <<nowClickState, starting>>
    /\ UNCHANGED <<isLoading, connectBtn, startPending, dropped>>

\* ConnectUtils.open(): its runCatching swallows what fails before or in
\* startVPN().
open ==
    \/ /\ Bound
       /\ startPending' = startPending + 1
       /\ UNCHANGED dropped
    \/ /\ ~Bound \/ ~Smooth
       /\ dropped' = TRUE
       /\ UNCHANGED startPending

\* The rest of startUp(): connect, or start the disconnect flow.
startUpGoesOn ==
    /\ starting
    /\ starting' = FALSE
    /\ isClick' = FALSE
    /\ \/ /\ isVpnConnect
          /\ isLoading' = TRUE
          /\ connectBtn' = FALSE
          /\ delayed' = Append(delayed, "disconnect")
          /\ UNCHANGED <<startPending, dropped>>
       \/ /\ ~isVpnConnect
          /\ open
          /\ UNCHANGED <<isLoading, connectBtn, delayed>>
    /\ UNCHANGED <<deliveryVars, oState, isOptimize, nowClickState, layoutConnectInfo, screen,
                   launched, greeting, jobConnect, ads, engine, counters>>

\* Mutant: the disconnect flow ends without disconnecting.
FinishForgetsDisconnect(n, d) ==
    \/ /\ n > 0 /\ nowClickState = "0"
       /\ delayed' = d \o [i \in 1..n |-> "connected"]
       /\ UNCHANGED engine
    \/ /\ n = 0 \/ nowClickState # "0"
       /\ delayed' = d
       /\ UNCHANGED engine

\* n calls of showFinishAd() at once, each going by nowClickState.  Sets
\* delayed, from d, and engine.
showFinishAd(n, d) ==
    \/ /\ n > 0 /\ nowClickState = "0"
       /\ delayed' = d \o [i \in 1..n |-> "connected"]
       /\ UNCHANGED engine
    \/ /\ n > 0 /\ nowClickState = "2"
       /\ disconnectCall
       /\ delayed' = d
    \/ /\ n = 0 \/ nowClickState = "1"
       /\ delayed' = d
       /\ UNCHANGED engine

\* showConnectAd(): a cancelled loop catches its CancellationException and
\* calls showFinishAd(), too.  Sets jobConnect, delayed and engine.
showConnectAd(d) ==
    LET cancelled == IF jobConnect THEN 1 ELSE 0
    IN  \/ jobConnect' = TRUE /\ showFinishAd(cancelled, d)
        \/ jobConnect' = FALSE /\ showFinishAd(cancelled + 1, d)

-----------------------------------------------------------------------------
(* The status callback.                                                    *)

onServiceConnected ==
    /\ MainFree
    /\ RegisterCalled
    /\ UNCHANGED <<oState, uiVars, jobVars, engineVars, counters, dropped>>

DeliveryMoves ==
    /\ DeliveryStep
    /\ UNCHANGED <<oState, uiVars, jobVars, engineVars, counters, dropped>>

\* On a binder thread, at any time.
newStatus ==
    /\ newStatusArrives
    /\ oState' = Head(toClient)
    /\ launched' = launched + 1
    /\ UNCHANGED <<uiVars, starting, greeting, delayed, jobConnect, ads, engineVars,
                   counters, dropped>>

\* The coroutine goes by oState, not by the state it was launched for.
StatusHandled ==
    /\ MainFree /\ launched > 0
    /\ launched' = launched - 1
    /\ \/ /\ oState = "NOPROCESS"
          /\ delayed' = Append(delayed, "noprocess")
          /\ UNCHANGED <<greeting, jobConnect, engine>>
       \/ /\ oState = "..."
          /\ greeting' = TRUE
          /\ UNCHANGED <<delayed, jobConnect, engine>>
       \/ /\ oState = "CONNECTED"
          /\ showConnectAd(delayed)
          /\ UNCHANGED greeting
       \/ /\ oState = "RECONNECTING"
          /\ disconnectCall
          /\ delayed' = Append(delayed, "reconnecting")
          /\ UNCHANGED <<greeting, jobConnect>>
       \/ /\ oState \in {"WAIT", "OTHER"}
          /\ UNCHANGED <<greeting, jobConnect, delayed, engine>>
    /\ UNCHANGED <<deliveryVars, oState, uiVars, starting, ads, startPending, counters, dropped>>

\* Mutant: "..." is not taken for CONNECTED.
DotsKept ==
    /\ greeting
    /\ greeting' = FALSE
    /\ delayed' = Append(delayed, "greeted")
    /\ UNCHANGED <<deliveryVars, oState, uiVars, starting, launched, jobConnect, ads, engineVars,
                   counters, dropped>>

\* The "..." branch writes oState, which newStatus() may have changed since.
DotsReplaced ==
    /\ greeting
    /\ greeting' = FALSE
    /\ oState' = "CONNECTED"
    /\ delayed' = Append(delayed, "greeted")
    /\ UNCHANGED <<deliveryVars, uiVars, starting, launched, jobConnect, ads, engineVars,
                   counters, dropped>>

-----------------------------------------------------------------------------
(* What follows a suspension in defaultStatus(), which ends in             *)
(* prohibit(true).                                                         *)

\* Delays of 100 ms end in the order they began.  They overtake the longer
\* waits begun before them.
Resumes(c) ==
    /\ MainFree
    /\ \E i \in DOMAIN delayed :
        delayed[i] = c /\ \A j \in 1 .. i - 1 : delayed[j] \notin ShortDelay
Without(c) == RemoveFirst(delayed, c)
AfterResume == UNCHANGED <<deliveryVars, oState, launched, greeting, jobConnect, ads,
                           counters>>

\* Whether the lifecycle state can be RESUMED, and whether it can be another.
MayBeResumed == ~screen /\ ads = 0
MayBePaused == screen \/ ads > 0 \/ ~Smooth

\* NOPROCESS, second half: stopTime(false) restarts the VPN.  Sets
\* isOptimize, connectBtn and delayed, from d.
OptimizeNext(d) ==
    \/ /\ isOptimize
       /\ isOptimize' = FALSE
       /\ connectBtn' = FALSE
       /\ delayed' = Append(d, "optimized")
    \/ /\ ~isOptimize
       /\ delayed' = d
       /\ UNCHANGED <<isOptimize, connectBtn>>

\* The end of showFinishAd(): nowClickState may have become "2" meanwhile.
\* Sets engine.
FinishNext ==
    \/ nowClickState = "2" /\ disconnectCall
    \/ nowClickState # "2" /\ UNCHANGED engine

NoProcess ==
    /\ Resumes("noprocess")
    /\ isClick' = TRUE
    /\ \/ /\ isLoading
          /\ isLoading' = FALSE
          /\ delayed' = Append(Without("noprocess"), "stopped")
          /\ UNCHANGED <<isOptimize, connectBtn>>
       \/ /\ ~isLoading
          /\ OptimizeNext(Without("noprocess"))
          /\ UNCHANGED isLoading
    /\ UNCHANGED <<nowClickState, layoutConnectInfo, screen, starting, engineVars, dropped>>
    /\ AfterResume

\* stopTime(): the result screen is launched over a resumed activity.
stopTime ==
    /\ Resumes("stopped")
    /\ isClick' = TRUE
    /\ layoutConnectInfo' = FALSE
    /\ \/ /\ MayBeResumed
          /\ screen' = TRUE
          /\ OptimizeNext(Without("stopped"))
       \/ /\ MayBePaused
          /\ delayed' = Append(Without("stopped"), "stopResult")
          /\ UNCHANGED <<screen, isOptimize, connectBtn>>
    /\ UNCHANGED <<isLoading, nowClickState, starting, engineVars, dropped>>
    /\ AfterResume

\* stopTime(false).
Optimized ==
    /\ Resumes("optimized")
    /\ layoutConnectInfo' = FALSE
    /\ startVpn(TRUE, Without("optimized"), screen)
    /\ UNCHANGED <<isOptimize, engine>>
    /\ AfterResume

\* Mutant: connectFinish() without defaultStatus().
ConnectFinishLocked ==
    /\ Resumes("connected")
    /\ layoutConnectInfo' = TRUE /\ connectBtn' = TRUE
    /\ screen' \in {screen, TRUE}
    /\ delayed' = Without("connected")
    /\ UNCHANGED <<isClick, isLoading, isOptimize, nowClickState, starting, engineVars, dropped>>
    /\ AfterResume

\* connectFinish(): startTime() shows the panel; its coroutine is next on
\* the main thread and its timer only updates the text.
connectFinish ==
    /\ Resumes("connected")
    /\ isClick' = TRUE
    /\ layoutConnectInfo' = TRUE /\ connectBtn' = TRUE
    /\ \/ /\ MayBeResumed
          /\ screen' = TRUE
          /\ delayed' = Without("connected")
          /\ FinishNext
       \/ /\ MayBePaused
          /\ delayed' = Append(Without("connected"), "connectResult")
          /\ UNCHANGED <<screen, engine>>
    /\ UNCHANGED <<isLoading, isOptimize, nowClickState, starting, startPending, dropped>>
    /\ AfterResume

\* The wait for a resumed activity ends, by its timeout or because it is.
ResumeWaitEnds ==
    /\ MainFree
    /\ \E w \in ResumeWait :
        /\ Contains(delayed, w)
        /\ screen' \in (IF MayBeResumed THEN {screen, TRUE} ELSE {screen})
        /\ \/ /\ w = "stopResult"
              /\ OptimizeNext(Without(w))
              /\ UNCHANGED engine
           \/ /\ w = "connectResult"
              /\ FinishNext
              /\ delayed' = Without(w)
              /\ UNCHANGED <<isOptimize, connectBtn>>
    /\ UNCHANGED <<isClick, isLoading, nowClickState, layoutConnectInfo, starting, startPending,
                   dropped>>
    /\ AfterResume

Greeted ==
    /\ Resumes("greeted")
    /\ isClick' = TRUE
    /\ layoutConnectInfo' = TRUE /\ connectBtn' = TRUE
    /\ delayed' = Without("greeted")
    /\ UNCHANGED <<isLoading, isOptimize, nowClickState, screen, starting, engineVars, dropped>>
    /\ AfterResume

Reconnecting ==
    /\ Resumes("reconnecting")
    /\ isClick' = TRUE
    /\ layoutConnectInfo' = FALSE
    /\ delayed' = Without("reconnecting")
    /\ UNCHANGED <<isLoading, isOptimize, nowClickState, connectBtn, screen, starting,
                   engineVars, dropped>>
    /\ AfterResume

Continuation ==
    \/ NoProcess \/ stopTime \/ Optimized \/ connectFinish \/ Greeted \/ Reconnecting
    \/ ResumeWaitEnds

-----------------------------------------------------------------------------
(* The ad in front of a flow's end.                                        *)

\* disconnect(), after delay(1000): everything begun before has resumed.
DisconnectDelayEnds ==
    /\ MainFree /\ delayed # <<>> /\ Head(delayed) = "disconnect"
    /\ showConnectAd(Tail(delayed))
    /\ UNCHANGED <<deliveryVars, oState, uiVars, starting, launched, greeting, ads, startPending,
                   counters, dropped>>

\* The loop times out, shows an ad, or finds one that showAd() refuses to
\* show: because of another server (it goes on at once) or because the
\* activity is not resumed (it says nothing).
AdLoopEnds ==
    /\ MainFree /\ jobConnect
    /\ jobConnect' = FALSE
    /\ \/ showFinishAd(1, delayed) /\ UNCHANGED <<ads, dropped>>
       \/ ads' = ads + 1 /\ UNCHANGED <<delayed, engine, dropped>>
       \/ ~Smooth /\ dropped' = TRUE /\ UNCHANGED <<ads, delayed, engine>>
    /\ UNCHANGED <<deliveryVars, oState, uiVars, starting, launched, greeting, startPending,
                   counters>>

\* onAdDismissedFullScreenContent(), which goes on only in the foreground;
\* after onAdFailedToShowFullScreenContent() nothing does.
AdDismissed ==
    /\ MainFree /\ ads > 0
    /\ ads' = ads - 1
    /\ \/ showFinishAd(1, delayed) /\ UNCHANGED dropped
       \/ ~Smooth /\ dropped' = TRUE /\ UNCHANGED <<delayed, engine>>
    /\ UNCHANGED <<deliveryVars, oState, uiVars, starting, launched, greeting, jobConnect,
                   startPending, counters>>

-----------------------------------------------------------------------------
(* The user.                                                               *)

UserActs ==
    /\ MainFree /\ ads = 0 /\ clicks < MaxClicks
    /\ Smooth => Bound
    /\ clicks' = clicks + 1
    /\ UNCHANGED <<deliveryVars, oState, launched, greeting, jobConnect, ads, reports>>

clickUp ==
    /\ UserActs /\ ~screen /\ isClick
    /\ ~connectBtn \/ ~layoutConnectInfo   \* one of its two buttons is visible
    /\ startVpn(TRUE, delayed, FALSE)
    /\ UNCHANGED <<isOptimize, layoutConnectInfo, engine>>

ScreenOpened ==
    /\ UserActs /\ ~screen /\ isClick
    /\ screen' = TRUE
    /\ UNCHANGED <<isClick, isLoading, isOptimize, nowClickState, layoutConnectInfo, connectBtn,
                   starting, delayed, engineVars, dropped>>

\* serviceResult 999 and vpnResult: no clickBlock().
ScreenReturns ==
    /\ UserActs /\ screen
    /\ \/ startVpn(isClick, delayed, FALSE)
       \/ /\ screen' = FALSE
          /\ UNCHANGED <<isClick, nowClickState, isLoading, connectBtn, starting, delayed,
                         startPending, dropped>>
    /\ UNCHANGED <<isOptimize, layoutConnectInfo, engine>>

disConnectClick ==
    /\ UserActs /\ ~screen /\ connectBtn
    /\ startUp
    /\ UNCHANGED <<isClick, isLoading, isOptimize, layoutConnectInfo, connectBtn, screen,
                   delayed, engineVars, dropped>>

\* The optimize button, and serviceResult 998 from the server list.
optimizeClick ==
    /\ UserActs
    /\ \/ ~screen /\ connectBtn
       \/ screen /\ isVpnConnect
    /\ isOptimize' = TRUE
    /\ screen' = FALSE
    /\ disconnectCall
    /\ UNCHANGED <<isClick, isLoading, nowClickState, layoutConnectInfo, connectBtn,
                   starting, delayed, startPending, dropped>>

-----------------------------------------------------------------------------
(* The engine, as far as VpnStatus shows it (external; see VpnSession).    *)

\* startOpenVPN() starts a session, or returns early: without a profile; without
\* a management socket, the old session told to stop; or with a configuration
\* that could not be written, when the new process is left to exit, too.
EngineStarts ==
    /\ startPending > 0
    /\ startPending' = startPending - 1
    /\ \/ /\ engine' = IF engine = "down" THEN "up" ELSE "replacing"
          /\ UNCHANGED dropped
       \/ /\ ~Smooth
          /\ engine' \in {engine, "stopping"}
          /\ dropped' = TRUE
    /\ updateStateString("OTHER")
    /\ UNCHANGED <<oState, uiVars, jobVars, counters>>

EngineExits ==
    /\ engine \in {"stopping", "replacing"}
    /\ engine' = IF engine = "replacing" THEN "up" ELSE "down"
    /\ updateStateString("NOPROCESS")
    /\ UNCHANGED <<oState, uiVars, jobVars, startPending, counters, dropped>>

EngineConnects ==
    /\ engine = "up" /\ mMostRecentState # "CONNECTED"
    /\ updateStateString("CONNECTED")
    /\ UNCHANGED <<oState, uiVars, jobVars, engineVars, counters, dropped>>

EngineReports ==
    /\ engine = "up" /\ reports < MaxReports
    /\ reports' = reports + 1
    /\ \/ /\ \E s \in {"WAIT", "OTHER", "RECONNECTING"} :
                /\ s = "RECONNECTING" => Drops
                /\ s = "OTHER" => Drops \/ mMostRecentState # "CONNECTED"
                /\ updateStateString(s)
          /\ UNCHANGED engine
       \/ /\ Drops
          /\ updateStateString("NOPROCESS")
          /\ engine' = "down"
    /\ UNCHANGED <<oState, uiVars, jobVars, startPending, clicks, dropped>>

AppStep ==
    \/ startUpGoesOn \/ onServiceConnected \/ StatusHandled \/ DotsReplaced
    \/ Continuation \/ DisconnectDelayEnds \/ AdLoopEnds \/ AdDismissed

Next ==
    \/ DeliveryMoves \/ newStatus
    \/ AppStep
    \/ clickUp \/ ScreenOpened \/ ScreenReturns \/ disConnectClick \/ optimizeClick
    \/ EngineStarts \/ EngineExits \/ EngineConnects \/ EngineReports

Spec == Init /\ [][Next]_vars

(* Binder calls are delivered, the main threads run what is posted, delays *)
(* and the ad loop end, an intent is served, a stopped process exits and   *)
(* openvpn connects (or, with Drops, reports that it cannot).  The user    *)
(* need not do anything.                                                   *)
Fairness ==
    /\ WF_vars(DeliveryMoves) /\ WF_vars(newStatus)
    /\ WF_vars(startUpGoesOn) /\ WF_vars(onServiceConnected)
    /\ WF_vars(StatusHandled) /\ WF_vars(DotsReplaced)
    /\ WF_vars(Continuation) /\ WF_vars(ResumeWaitEnds) /\ WF_vars(DisconnectDelayEnds)
    /\ WF_vars(AdLoopEnds) /\ WF_vars(AdDismissed)
    /\ WF_vars(EngineStarts) /\ WF_vars(EngineExits) /\ WF_vars(EngineConnects)

FairSpec == Spec /\ Fairness

-----------------------------------------------------------------------------
(* Nothing is under way in the app, on the way to it or in the engine.     *)
Rest ==
    /\ Delivered
    /\ ~starting /\ launched = 0 /\ ~greeting /\ delayed = <<>>
    /\ ~jobConnect /\ ads = 0 /\ startPending = 0
    /\ \/ engine = "down"
       \/ engine = "up" /\ mMostRecentState = "CONNECTED"

(* When everything has come to rest, oState agrees with the service: the  *)
(* app takes the VPN for connected exactly when it is.                     *)
Informed == isVpnConnect <=> mMostRecentState = "CONNECTED"
InformedAtRest == Rest => Informed

(* Whatever the order of statuses, clicks, drops and ads: when everything  *)
(* has come to rest, the app is informed and no flow was abandoned,        *)
(* clickBlock() lets the user through: prohibit() is undone on every path  *)
(* of both flows.  A flow is abandoned, and the button may stay blocked,   *)
(* where the code has nothing to go on with: a start before the service is *)
(* bound, a startVPN() whose failure is swallowed, a startOpenVPN() that   *)
(* returns early, an ad that reports nothing.                              *)
ClickableAtRest == Rest /\ Informed /\ ~dropped => isClick

(* A blocked button becomes usable again.                                  *)
ClickComesBack == ~isClick ~> isClick
=============================================================================
