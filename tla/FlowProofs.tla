------------------------------ MODULE FlowProofs ------------------------------
(***************************************************************************)
(* Theorems about the connect and disconnect flows, for any number of      *)
(* clicks and reports, with and without drops, failed starts and ads that  *)
(* report nothing.                                                         *)
(***************************************************************************)
EXTENDS ConnectFlow, WellFoundedInduction, TLAPS

LastOf(s) == s[Len(s)]

-----------------------------------------------------------------------------
(* The invariant.                                                          *)

(* "..." is on its way, or has arrived and is not yet taken for CONNECTED. *)
Early == Contains(toClient, "...") \/ oState = "..." \/ greeting

(* Before "..." is through nothing of either flow is under way.            *)
Quiet ==
    /\ delayed = <<>> /\ ~jobConnect /\ ads = 0
    /\ ~connectBtn /\ nowClickState # "2"

(* A status is on its way to the app.                                      *)
Pipe == handler # <<>> \/ toClient # <<>>

(* The engine is about to report something.                                *)
EngineMoves ==
    \/ startPending > 0
    \/ engine \in {"stopping", "replacing"}
    \/ engine = "up" /\ mMostRecentState # "CONNECTED"

(* Statuses on their way: the newest is last, and "..." is before all.     *)
WayInv ==
    /\ mCallbacks <=> Bound
    /\ handler # <<>> => LastOf(handler) = mMostRecentState
    /\ Bound /\ handler = <<>> /\ toClient # <<>> => LastOf(toClient) \in {mMostRecentState, "..."}
    /\ ~Bound => \A i \in DOMAIN toClient : toClient[i] = "..."
    /\ \A i \in DOMAIN toClient : toClient[i] = "..." => i = 1 /\ oState = ""
    /\ oState = "" => launched = 0 /\ ~greeting
    /\ oState = "..." => launched > 0 \/ greeting
    /\ ~Bound => oState \in {"", "..."} /\ ~greeting
    /\ registration \notin {"greeted", "done"} => toClient = <<>> /\ oState = ""
    /\ ~Bound \/ Early => Quiet
    /\ engine = "down" => /\ mMostRecentState # "CONNECTED"
                          /\ dropped \/ mMostRecentState = "NOPROCESS"

(* startUp() runs on the main thread, which "..." does not hold, and has   *)
(* chosen a flow.                                                          *)
StartInv == starting => ~greeting /\ nowClickState # "1"

(* The waits that end in prohibit(true).                                   *)
Continuing == {"noprocess", "stopped", "greeted", "reconnecting", "connected"}

(* Why a blocked button will be freed: the engine has yet to report, a     *)
(* status is on its way, the coroutine that takes it up has not run or has *)
(* not resumed, or the app still works on the connection it believes in.   *)
Freed ==
    \/ EngineMoves \/ Pipe \/ greeting
    \/ \E c \in Continuing : Contains(delayed, c)
    \/ launched > 0 /\ oState \in {"NOPROCESS", "RECONNECTING", "..."}
    \/ /\ oState = "CONNECTED"
       /\ \/ mMostRecentState # "CONNECTED" \/ launched > 0 \/ jobConnect \/ ads > 0
          \/ Contains(delayed, "disconnect")

ClickInv ==
    /\ nowClickState = "1" => isClick
    /\ ~isClick /\ ~dropped => Bound /\ Freed

(* Without drops and failed starts: what is left to make the app agree     *)
(* with the service.                                                       *)
Undisturbed == Smooth \/ ~dropped
CalmInv ==
    /\ ~Bound => /\ startPending = 0
                 /\ \/ engine = "up" /\ mMostRecentState = "CONNECTED"
                    \/ engine = "down" /\ mMostRecentState = "NOPROCESS"
    /\ registration = "greeting" => mMostRecentState = "CONNECTED"
    /\ registration = "greeted" /\ mMostRecentState = "CONNECTED" => Early
    /\ Early => engine \in {"up", "replacing"}
    /\ Bound => EngineMoves \/ Pipe \/ Early \/ Informed

-----------------------------------------------------------------------------
(* Sequences.                                                              *)

LEMMA Least ==
    ASSUME NEW T \in SUBSET Nat, T # {}
    PROVE  \E x \in T : \A y \in T : x <= y
  <1> DEFINE R == {ss \in Nat \X Nat : ss[1] < ss[2]}
  <1>1. OpToRel(<, Nat) = R
    BY Zenon DEF OpToRel
  <1>2. IsWellFoundedOn(R, Nat)
    BY <1>1, NatLessThanWellFounded, Zenon
  <1>3. PICK x \in T : \A y \in T : ~ (<<y, x>> \in R)
    BY <1>2, WFMin, Zenon
  <1>4. ASSUME NEW y \in T PROVE x <= y
    <2>1. <<y, x>> \in Nat \X Nat /\ <<y, x>>[1] = y /\ <<y, x>>[2] = x
      OBVIOUS
    <2>2. ~ (y < x)
      BY <1>3, <2>1
    <2> QED
      BY <2>2
  <1> QED
    BY <1>4

LEMMA AppendFacts ==
    ASSUME NEW S, NEW s \in Seq(S), NEW x \in S
    PROVE  /\ Append(s, x) \in Seq(S) /\ Append(s, x) # <<>> /\ LastOf(Append(s, x)) = x
           /\ \A w : Contains(Append(s, x), w) <=> Contains(s, w) \/ w = x
  <1>1. /\ Append(s, x) \in Seq(S) /\ Append(s, x) # <<>> /\ LastOf(Append(s, x)) = x
    BY DEF LastOf
  <1>2. ASSUME NEW w PROVE Contains(Append(s, x), w) <=> Contains(s, w) \/ w = x
    <2>1. /\ Append(s, x)[Len(s) + 1] = x
          /\ \A i \in 1 .. Len(s) : i \in 1 .. Len(Append(s, x)) /\ Append(s, x)[i] = s[i]
          /\ \A i \in 1 .. Len(Append(s, x)) : i \in 1 .. Len(s) \/ i = Len(s) + 1
      OBVIOUS
    <2>2. Len(s) + 1 \in 1 .. Len(Append(s, x))
      OBVIOUS
    <2> QED
      BY <2>1, <2>2, Zenon DEF Contains
  <1> QED
    BY <1>1, <1>2

LEMMA TailFacts ==
    ASSUME NEW S, NEW s \in Seq(S), s # <<>>
    PROVE  /\ Head(s) \in S /\ Tail(s) \in Seq(S)
           /\ Tail(s) = <<>> => LastOf(s) = Head(s)
           /\ Tail(s) # <<>> => LastOf(Tail(s)) = LastOf(s)
           /\ \A w : Contains(s, w) <=> Contains(Tail(s), w) \/ w = Head(s)
  <1>1. /\ Head(s) \in S /\ Tail(s) \in Seq(S)
        /\ Tail(s) = <<>> => LastOf(s) = Head(s)
        /\ Tail(s) # <<>> => LastOf(Tail(s)) = LastOf(s)
    <2>1. Len(s) \in Nat \ {0} /\ Head(s) = s[1] /\ Tail(s) \in Seq(S) /\ s[1] \in S
      OBVIOUS
    <2>2. /\ Len(Tail(s)) = Len(s) - 1
          /\ \A i \in 1 .. Len(s) - 1 : Tail(s)[i] = s[i + 1]
      OBVIOUS
    <2>3. Tail(s) = <<>> => Len(s) = 1
      <3>1. Len(<<>>) = 0
        OBVIOUS
      <3>2. Tail(s) = <<>> => Len(Tail(s)) = 0
        BY <3>1, Zenon
      <3> QED
        BY <2>1, <2>2, <3>2
    <2>4. Tail(s) # <<>> => Len(s) - 1 \in 1 .. Len(s) - 1 /\ Len(s) - 1 + 1 = Len(s)
      BY <2>1, <2>2
    <2> QED
      <3>1. LastOf(s) = s[Len(s)] /\ LastOf(Tail(s)) = Tail(s)[Len(Tail(s))]
        BY DEF LastOf
      <3>2. Tail(s) # <<>> => Tail(s)[Len(s) - 1] = s[Len(s)]
        BY <2>2, <2>4
      <3> QED
        BY <2>1, <2>2, <2>3, <3>1, <3>2, Zenon
  <1>2. ASSUME NEW w PROVE Contains(s, w) <=> Contains(Tail(s), w) \/ w = Head(s)
    <2>1. ASSUME Contains(s, w), w # Head(s) PROVE Contains(Tail(s), w)
      <3>1. PICK i \in DOMAIN s : s[i] = w
        BY <2>1 DEF Contains
      <3>2. i # 1
        BY <2>1, <3>1
      <3>3. i - 1 \in DOMAIN Tail(s) /\ Tail(s)[i - 1] = w
        BY <3>1, <3>2
      <3> QED
        BY <3>3 DEF Contains
    <2>2. ASSUME Contains(Tail(s), w) PROVE Contains(s, w)
      <3>1. PICK i \in DOMAIN Tail(s) : Tail(s)[i] = w
        BY <2>2 DEF Contains
      <3>2. i + 1 \in DOMAIN s /\ s[i + 1] = w
        BY <3>1
      <3> QED
        BY <3>2 DEF Contains
    <2>3. w = Head(s) => Contains(s, w)
      BY DEF Contains
    <2> QED
      BY <2>1, <2>2, <2>3
  <1> QED
    BY <1>1, <1>2

\* n copies of c at the end of d.
LEMMA CopiesFacts ==
    ASSUME NEW S, NEW d \in Seq(S), NEW c \in S, NEW n \in Nat, n > 0
    PROVE  /\ d \o [i \in 1 .. n |-> c] \in Seq(S)
           /\ Contains(d \o [i \in 1 .. n |-> c], c)
           /\ \A w : Contains(d, w) => Contains(d \o [i \in 1 .. n |-> c], w)
  <1> DEFINE t == [i \in 1 .. n |-> c]
  <1>1. t \in Seq(S) /\ Len(t) = n /\ t[1] = c
    OBVIOUS
  <1> HIDE DEF t
  <1>2. /\ d \o t \in Seq(S) /\ Len(d \o t) = Len(d) + n /\ (d \o t)[Len(d) + 1] = c
        /\ \A i \in 1 .. Len(d) : (d \o t)[i] = d[i]
    BY <1>1
  <1>3. Contains(d \o t, c)
    BY <1>2 DEF Contains
  <1>4. ASSUME NEW w, Contains(d, w) PROVE Contains(d \o t, w)
    <2>1. PICK i \in 1 .. Len(d) : d[i] = w
      BY <1>4 DEF Contains
    <2>2. i \in DOMAIN (d \o t) /\ (d \o t)[i] = w
      BY <1>2, <2>1
    <2> QED
      BY <2>2 DEF Contains
  <1> QED
    BY <1>2, <1>3, <1>4 DEF t

\* Without(c) drops one element of delayed, which is c.
LEMMA WithoutFacts ==
    ASSUME delayed \in Seq(Delayed), NEW c, Contains(delayed, c)
    PROVE  /\ Without(c) \in Seq(Delayed)
           /\ \A w : w # c /\ Contains(delayed, w) => Contains(Without(c), w)
  <1> DEFINE at == {i \in 1 .. Len(delayed) : delayed[i] = c}
             k == Min(at)
  <1>1. \E i \in 1 .. Len(delayed) : delayed[i] = c
    BY DEF Contains
  <1>2. Without(c) = RemoveAt(delayed, k)
    <2>1. at # {}
      BY <1>1
    <2>2. SelectInSeq(delayed, LAMBDA v : v = c) = k
      BY <2>1 DEF SelectInSeq
    <2> QED
      BY <1>1, <2>2 DEF Without, RemoveFirst
  <1>3. k \in at
    <2>1. at \in SUBSET Nat /\ at # {}
      BY <1>1
    <2>2. \E i \in at : \A j \in at : i <= j
      BY <2>1, Least
    <2> QED
      BY <2>2 DEF Min
  <1>4. k \in 1 .. Len(delayed) /\ delayed[k] = c
    BY <1>3
  <1> HIDE DEF k
  <1>5. /\ SubSeq(delayed, 1, k - 1) \in Seq(Delayed) /\ Len(SubSeq(delayed, 1, k - 1)) = k - 1
        /\ SubSeq(delayed, k + 1, Len(delayed)) \in Seq(Delayed)
        /\ Len(SubSeq(delayed, k + 1, Len(delayed))) = Len(delayed) - k
    BY <1>4
  <1>6. /\ \A i \in 1 .. k - 1 : SubSeq(delayed, 1, k - 1)[i] = delayed[i]
        /\ \A i \in 1 .. Len(delayed) - k :
              SubSeq(delayed, k + 1, Len(delayed))[i] = delayed[k + i]
    BY <1>4
  <1> DEFINE r == SubSeq(delayed, 1, k - 1) \o SubSeq(delayed, k + 1, Len(delayed))
  <1>7. /\ r \in Seq(Delayed) /\ Len(r) = Len(delayed) - 1
        /\ \A i \in 1 .. k - 1 : r[i] = delayed[i]
        /\ \A i \in k .. Len(delayed) - 1 : r[i] = delayed[i + 1]
    <2>1. /\ r \in Seq(Delayed) /\ Len(r) = (k - 1) + (Len(delayed) - k)
          /\ \A i \in 1 .. k - 1 : r[i] = SubSeq(delayed, 1, k - 1)[i]
          /\ \A i \in 1 .. Len(delayed) - k :
                r[(k - 1) + i] = SubSeq(delayed, k + 1, Len(delayed))[i]
      <3> DEFINE a == SubSeq(delayed, 1, k - 1)
                 b == SubSeq(delayed, k + 1, Len(delayed))
      <3>1. /\ a \in Seq(Delayed) /\ Len(a) = k - 1
            /\ b \in Seq(Delayed) /\ Len(b) = Len(delayed) - k
        BY <1>5
      <3> HIDE DEF a, b
      <3>2. /\ a \o b \in Seq(Delayed) /\ Len(a \o b) = Len(a) + Len(b)
            /\ \A i \in 1 .. Len(a) : (a \o b)[i] = a[i]
            /\ \A i \in 1 .. Len(b) : (a \o b)[Len(a) + i] = b[i]
        BY <3>1
      <3>3. /\ a \o b \in Seq(Delayed) /\ Len(a \o b) = (k - 1) + (Len(delayed) - k)
            /\ \A i \in 1 .. k - 1 : (a \o b)[i] = a[i]
            /\ \A i \in 1 .. Len(delayed) - k : (a \o b)[(k - 1) + i] = b[i]
        <4>1. Len(a) = k - 1 /\ Len(b) = Len(delayed) - k
          BY <3>1
        <4> QED
          BY <3>2, <4>1, Zenon
      <3> USE DEF a, b
      <3> QED
        BY <3>3, Zenon
    <2>2. Len(delayed) \in Nat
      OBVIOUS
    <2> HIDE DEF r
    <2>3. ASSUME NEW i \in k .. Len(delayed) - 1 PROVE r[i] = delayed[i + 1]
      <3>1. i - k + 1 \in 1 .. Len(delayed) - k
        BY <1>4, <2>2
      <3>2. r[(k - 1) + (i - k + 1)] = delayed[k + (i - k + 1)]
        BY <1>6, <2>1, <3>1, Zenon
      <3>3. (k - 1) + (i - k + 1) = i /\ k + (i - k + 1) = i + 1
        BY <1>4, <2>2
      <3> QED
        BY <3>2, <3>3, Zenon
    <2> QED
      <3>1. (k - 1) + (Len(delayed) - k) = Len(delayed) - 1
        BY <1>4, <2>2
      <3> QED
        BY <1>6, <2>1, <2>3, <3>1, Zenon
  <1>8. Without(c) = r
    BY <1>2 DEF RemoveAt
  <1> HIDE DEF r
  <1>9. ASSUME NEW w, w # c, Contains(delayed, w) PROVE Contains(r, w)
    <2>1. PICK i \in 1 .. Len(delayed) : delayed[i] = w
      BY <1>9 DEF Contains
    <2>2. CASE i < k
      BY <1>4, <1>7, <2>1, <2>2 DEF Contains
    <2>3. CASE i > k
      <3>1. i - 1 \in DOMAIN r /\ r[i - 1] = w
        BY <1>4, <1>7, <2>1, <2>3
      <3> QED
        BY <3>1 DEF Contains
    <2> QED
      BY <1>4, <1>9, <2>1, <2>2, <2>3
  <1> QED
    BY <1>7, <1>8, <1>9

-----------------------------------------------------------------------------
(* Calls.                                                                  *)

\* disconnect() can only make a running VPN stop.
EngineKept == engine' = engine \/ (Bound /\ engine = "up" /\ engine' = "stopping")

\* Everything that waits in d waits in e.
Keeps(d, e) == \A w : Contains(d, w) => Contains(e, w)

\* TypeOK in parts: flags, data and numbers.
FlagTypes ==
    /\ isClick \in BOOLEAN /\ isLoading \in BOOLEAN /\ isOptimize \in BOOLEAN
    /\ layoutConnectInfo \in BOOLEAN /\ connectBtn \in BOOLEAN /\ screen \in BOOLEAN
    /\ jobConnect \in BOOLEAN /\ dropped \in BOOLEAN /\ greeting \in BOOLEAN
    /\ starting \in BOOLEAN
DataTypes ==
    /\ oState \in VpnState \cup {"...", ""}
    /\ nowClickState \in {"0", "1", "2"}
    /\ engine \in {"down", "up", "stopping", "replacing"}
    /\ delayed \in Seq(Delayed)
NumberTypes ==
    /\ launched \in Nat /\ ads \in Nat /\ startPending \in Nat
    /\ clicks \in 0 .. MaxClicks /\ reports \in 0 .. MaxReports

LEMMA TypesSplit == TypeOK <=> DeliveryTypeOK /\ FlagTypes /\ DataTypes /\ NumberTypes
  BY Zenon DEF TypeOK, FlagTypes, DataTypes, NumberTypes

LEMMA DisconnectFacts ==
    ASSUME disconnectCall
    PROVE  /\ EngineKept
           /\ Bound /\ engine = "up" /\ mMostRecentState = "CONNECTED" => engine' = "stopping"
  BY Zenon DEF disconnectCall, EngineKept

LEMMA FinishFacts ==
    ASSUME NEW n \in Nat, NEW d \in Seq(Delayed), showFinishAd(n, d)
    PROVE  /\ delayed' \in Seq(Delayed) /\ Keeps(d, delayed') /\ EngineKept
           /\ n > 0 /\ nowClickState = "0" => Contains(delayed', "connected")
           /\ n > 0 /\ nowClickState = "2" => disconnectCall
           /\ n = 0 => delayed' = d
  <1>1. CASE n > 0 /\ nowClickState = "0"
    <2>1. delayed' = d \o [i \in 1 .. n |-> "connected"] /\ engine' = engine
      <3>1. n # 0 /\ nowClickState # "1" /\ nowClickState # "2"
        BY <1>1
      <3> QED
        BY <1>1, <3>1, Zenon DEF showFinishAd
    <2>2. "connected" \in Delayed
      BY DEF Delayed, ShortDelay
    <2>3. /\ delayed' \in Seq(Delayed) /\ Contains(delayed', "connected")
          /\ \A w : Contains(d, w) => Contains(delayed', w)
      BY <1>1, <2>1, <2>2, CopiesFacts, Zenon
    <2>4. nowClickState # "2" /\ n # 0
      BY <1>1
    <2> QED
      BY <2>1, <2>3, <2>4, Zenon DEF EngineKept, Keeps
  <1>2. CASE n > 0 /\ nowClickState = "2"
    <2>1. nowClickState # "0" /\ nowClickState # "1" /\ n # 0
      BY <1>2
    <2>2. disconnectCall /\ delayed' = d
      BY <2>1, Zenon DEF showFinishAd
    <2> QED
      BY <1>2, <2>1, <2>2, DisconnectFacts, Zenon DEF Keeps
  <1>3. CASE n = 0 \/ nowClickState \notin {"0", "2"}
    <2>1. delayed' = d /\ engine' = engine
      BY <1>3 DEF showFinishAd
    <2> QED
      BY <1>3, <2>1 DEF EngineKept, Keeps
  <1> QED
    BY <1>1, <1>2, <1>3

\* The ad loop runs, or has gone on with the flow.
LEMMA ConnectAdFacts ==
    ASSUME NEW d \in Seq(Delayed), showConnectAd(d)
    PROVE  /\ jobConnect' \in BOOLEAN
           /\ delayed' \in Seq(Delayed) /\ Keeps(d, delayed') /\ EngineKept
           /\ \/ jobConnect' = TRUE
              \/ nowClickState = "0" /\ Contains(delayed', "connected")
              \/ nowClickState = "2" /\ disconnectCall
              \/ nowClickState \notin {"0", "2"}
  <1>1. PICK n \in 0 .. 2 : /\ showFinishAd(n, d)
                            /\ jobConnect' = TRUE \/ (jobConnect' = FALSE /\ n > 0)
    <2>1. CASE jobConnect
      BY <2>1 DEF showConnectAd
    <2>2. CASE ~ jobConnect
      BY <2>2 DEF showConnectAd
    <2> QED
      BY <2>1, <2>2
  <1>2. n \in Nat
    BY <1>1
  <1>3. /\ delayed' \in Seq(Delayed) /\ Keeps(d, delayed') /\ EngineKept
        /\ n > 0 /\ nowClickState = "0" => Contains(delayed', "connected")
        /\ n > 0 /\ nowClickState = "2" => disconnectCall
    BY <1>1, <1>2, FinishFacts, Zenon
  <1>4. nowClickState = "0" \/ nowClickState = "2" \/ nowClickState \notin {"0", "2"}
    OBVIOUS
  <1> QED
    BY <1>1, <1>3, <1>4, Zenon

-----------------------------------------------------------------------------
(* What the app's own steps change.                                        *)

AppFrame ==
    /\ UNCHANGED <<mMostRecentState, handler, registration, mCallbacks, toClient>>
    /\ UNCHANGED <<oState, launched, greeting>>

\* Steps of the main thread that leave the statuses alone.
AppMoves ==
    /\ \/ MainFree /\ starting' = starting
       \/ ~greeting /\ StartInv'
    /\ AppFrame
    /\ FlagTypes' /\ DataTypes' /\ NumberTypes'
    /\ EngineKept
    /\ startPending' = startPending \/ (Bound /\ startPending' = startPending + 1)
    /\ dropped => dropped'
    /\ Quiet /\ ~isVpnConnect => Quiet' /\ engine' = engine

Types == FlagTypes /\ DataTypes /\ NumberTypes

\* From one new value after the other to the types of all.
LEMMA TypesRule ==
    ASSUME Types, AppFrame, EngineKept,
           isClick' \in BOOLEAN, isLoading' \in BOOLEAN, isOptimize' \in BOOLEAN,
           layoutConnectInfo' \in BOOLEAN, connectBtn' \in BOOLEAN, screen' \in BOOLEAN,
           jobConnect' \in BOOLEAN, dropped' \in BOOLEAN, starting' \in BOOLEAN,
           nowClickState' \in {"0", "1", "2"}, delayed' \in Seq(Delayed),
           ads' \in Nat, startPending' \in Nat,
           clicks' \in 0 .. MaxClicks, reports' \in 0 .. MaxReports
    PROVE  FlagTypes' /\ DataTypes' /\ NumberTypes'
  <1>1. oState' = oState /\ launched' = launched /\ greeting' = greeting
    BY DEF AppFrame
  <1>2. engine' \in {"down", "up", "stopping", "replacing"}
    BY DEF EngineKept, Types, DataTypes
  <1>3. /\ greeting \in BOOLEAN /\ oState \in VpnState \cup {"...", ""} /\ launched \in Nat
    BY Zenon DEF Types, FlagTypes, DataTypes, NumberTypes
  <1> QED
    BY <1>1, <1>2, <1>3, Zenon DEF FlagTypes, DataTypes, NumberTypes

LEMMA AfterResumeFacts ==
    ASSUME AfterResume
    PROVE  /\ AppFrame /\ jobConnect' = jobConnect /\ ads' = ads
           /\ clicks' = clicks /\ reports' = reports
  BY DEF AfterResume, AppFrame, deliveryVars, counters

LEMMA ResumesFacts ==
    ASSUME Types, NEW c, Resumes(c)
    PROVE  /\ MainFree /\ Contains(delayed, c) /\ ~ Quiet
           /\ Without(c) \in Seq(Delayed)
           /\ \A w : w # c /\ Contains(delayed, w) => Contains(Without(c), w)
  <1>1. MainFree /\ Contains(delayed, c)
    <2>1. delayed \in Seq(Delayed)
      BY Zenon DEF Types, DataTypes
    <2>2. DOMAIN delayed = 1 .. Len(delayed)
      BY <2>1
    <2> QED
      BY <2>2, Zenon DEF Resumes, Contains
  <1>2. delayed \in Seq(Delayed)
    BY Zenon DEF Types, DataTypes
  <1>3. delayed # <<>>
    BY <1>1, <1>2 DEF Contains
  <1> QED
    BY <1>1, <1>2, <1>3, WithoutFacts, Zenon DEF Quiet

LEMMA OptimizeFacts ==
    ASSUME Types, NEW d \in Seq(Delayed), OptimizeNext(d)
    PROVE  /\ isOptimize' \in BOOLEAN /\ connectBtn' \in BOOLEAN
           /\ delayed' \in Seq(Delayed) /\ Keeps(d, delayed')
  <1>1. "optimized" \in Delayed
    BY DEF Delayed, ShortDelay
  <1>2. /\ Append(d, "optimized") \in Seq(Delayed)
        /\ \A w : Contains(Append(d, "optimized"), w) <=> Contains(d, w) \/ w = "optimized"
    BY <1>1, AppendFacts, Zenon
  <1>3. /\ isOptimize' = FALSE \/ isOptimize' = isOptimize
        /\ connectBtn' = FALSE \/ connectBtn' = connectBtn
        /\ delayed' = d \/ delayed' = Append(d, "optimized")
    BY Zenon DEF OptimizeNext
  <1>4. isOptimize \in BOOLEAN /\ connectBtn \in BOOLEAN
    BY Zenon DEF Types, FlagTypes
  <1> QED
    BY <1>2, <1>3, <1>4, Zenon DEF Keeps

LEMMA StartUpFacts ==
    ASSUME startUp
    PROVE  /\ starting' = TRUE /\ nowClickState' \in {"0", "1", "2"} /\ nowClickState' # "1"
           /\ ~ isVpnConnect => nowClickState' # "2"
  <1>1. nowClickState' = "0" \/ (isVpnConnect /\ nowClickState' = "2")
    BY Zenon DEF startUp
  <1>2. starting' = TRUE
    BY Zenon DEF startUp
  <1> QED
    BY <1>1, <1>2

LEMMA StartVpnFacts ==
    ASSUME Types, NEW d \in Seq(Delayed), NEW clickable \in BOOLEAN, NEW front \in BOOLEAN,
           startVpn(clickable, d, front)
    PROVE  /\ isClick' = clickable /\ delayed' = d /\ screen' \in BOOLEAN
           /\ isLoading' = isLoading /\ connectBtn' = connectBtn
           /\ startPending' = startPending /\ dropped' = dropped
           /\ startUp \/ (nowClickState' = nowClickState /\ starting' = starting)
  <1>1. /\ isClick' = clickable /\ delayed' = d
        /\ isLoading' = isLoading /\ connectBtn' = connectBtn
        /\ startPending' = startPending /\ dropped' = dropped
    BY DEF startVpn
  <1>2. \/ startUp /\ screen' = front
        \/ screen' \in {front, TRUE} /\ UNCHANGED <<nowClickState, starting>>
    BY Zenon DEF startVpn
  <1>3. screen' = front \/ screen' = TRUE
    BY <1>2, Zenon
  <1>4. screen' \in BOOLEAN
    BY <1>3, Zenon
  <1>5. startUp \/ (nowClickState' = nowClickState /\ starting' = starting)
    BY <1>2, Zenon
  <1> QED
    BY <1>1, <1>4, <1>5, Zenon

LEMMA OpenFacts ==
    ASSUME Types, open
    PROVE  /\ startPending' \in Nat /\ dropped' \in BOOLEAN /\ (dropped => dropped')
           /\ startPending' = startPending \/ (Bound /\ startPending' = startPending + 1)
           /\ dropped' \/ (Bound /\ startPending' > 0)
  <1>1. startPending \in Nat /\ dropped \in BOOLEAN
    BY Zenon DEF Types, FlagTypes, NumberTypes
  <1>2. \/ Bound /\ startPending' = startPending + 1 /\ dropped' = dropped
        \/ dropped' = TRUE /\ startPending' = startPending
    BY Zenon DEF open
  <1>3. /\ startPending' = startPending + 1 \/ startPending' = startPending
        /\ startPending + 1 \in Nat /\ startPending + 1 > 0
    <2>1. startPending' = startPending + 1 \/ startPending' = startPending
      BY <1>2, Zenon
    <2> QED
      BY <1>1, <2>1
  <1> QED
    BY <1>1, <1>2, <1>3, Zenon

LEMMA FinishNextFacts ==
    ASSUME FinishNext
    PROVE  EngineKept
  BY DisconnectFacts, Zenon DEF FinishNext, EngineKept

-----------------------------------------------------------------------------
(* Why a blocked button stays on its way to being freed.                   *)

\* Nothing that frees the button is lost.
LEMMA FreedKept ==
    ASSUME Types, Freed, AppFrame, EngineKept,
           startPending' = startPending \/ startPending' = startPending + 1,
           \A w \in Continuing : Contains(delayed, w) => Contains(delayed', w),
           oState = "CONNECTED" =>
              /\ jobConnect => jobConnect'
              /\ ads > 0 => ads' > 0
              /\ Contains(delayed, "disconnect") => Contains(delayed', "disconnect")
    PROVE  Freed'
  <1>1. /\ mMostRecentState' = mMostRecentState /\ handler' = handler /\ toClient' = toClient
        /\ oState' = oState /\ launched' = launched /\ greeting' = greeting
    BY DEF AppFrame
  <1>2. CASE EngineMoves
    <2>1. startPending > 0 => startPending' > 0
      BY DEF Types, NumberTypes
    <2>2. engine \in {"stopping", "replacing"} => engine' \in {"stopping", "replacing"}
      BY DEF EngineKept
    <2>3. engine = "up" => engine' = "up" \/ engine' \in {"stopping", "replacing"}
      BY DEF EngineKept
    <2>4. EngineMoves'
      BY <1>1, <1>2, <2>1, <2>2, <2>3, Zenon DEF EngineMoves
    <2> QED
      BY <2>4, Zenon DEF Freed
  <1>3. CASE Pipe \/ greeting
    BY <1>1, <1>3, Zenon DEF Freed, Pipe
  <1>4. CASE \E w \in Continuing : Contains(delayed, w)
    <2>1. \E w \in Continuing : Contains(delayed', w)
      BY <1>4, Zenon
    <2> QED
      BY <2>1, Zenon DEF Freed
  <1>5. CASE launched > 0 /\ oState \in {"NOPROCESS", "RECONNECTING", "..."}
    BY <1>1, <1>5, Zenon DEF Freed
  <1>6. CASE /\ oState = "CONNECTED"
             /\ \/ mMostRecentState # "CONNECTED" \/ launched > 0 \/ jobConnect \/ ads > 0
                \/ Contains(delayed, "disconnect")
    BY <1>1, <1>6, Zenon DEF Freed
  <1> QED
    BY <1>2, <1>3, <1>4, <1>5, <1>6, Zenon DEF Freed

LEMMA ClickKept ==
    ASSUME Types, ClickInv, AppFrame, EngineKept,
           startPending' = startPending \/ startPending' = startPending + 1,
           isClick' = isClick, nowClickState' = nowClickState \/ nowClickState' # "1",
           dropped => dropped',
           \A w \in Continuing : Contains(delayed, w) => Contains(delayed', w),
           oState = "CONNECTED" =>
              /\ jobConnect => jobConnect'
              /\ ads > 0 => ads' > 0
              /\ Contains(delayed, "disconnect") => Contains(delayed', "disconnect")
    PROVE  ClickInv'
  <1>1. registration' = registration
    BY DEF AppFrame
  <1>2. Freed => Freed'
    BY FreedKept, Zenon
  <1> QED
    BY <1>1, <1>2, Zenon DEF ClickInv, Bound

\* A flow that goes on at its end, on its way to disconnect() or to the ad.
GoesOn ==
    \/ jobConnect' = TRUE \/ ads' > 0
    \/ nowClickState = "0" /\ Contains(delayed', "connected")
    \/ nowClickState = "2" /\ disconnectCall
    \/ nowClickState \notin {"0", "2"}

LEMMA GoesOnFrees ==
    ASSUME Types, WayInv, Bound, nowClickState # "1", oState = "CONNECTED", EngineKept, GoesOn,
           oState' = oState, mMostRecentState' = mMostRecentState
    PROVE  Freed'
  <1>1. nowClickState \in {"0", "2"}
    BY DEF Types, DataTypes
  <1>2. CASE jobConnect' = TRUE \/ ads' > 0 \/ mMostRecentState # "CONNECTED"
    BY <1>2, Zenon DEF Freed
  <1>3. CASE Contains(delayed', "connected")
    <2>1. "connected" \in Continuing
      BY DEF Continuing
    <2> QED
      BY <1>3, <2>1, Zenon DEF Freed
  <1>4. CASE disconnectCall /\ mMostRecentState = "CONNECTED"
    <2>1. engine' = "stopping" \/ (engine' = engine /\ engine # "up")
      BY <1>4, DisconnectFacts, Zenon DEF EngineKept
    <2>2. engine \in {"up", "stopping", "replacing"}
      <3>1. engine # "down"
        BY <1>4, Zenon DEF WayInv
      <3> QED
        BY <3>1 DEF Types, DataTypes
    <2>3. engine' \in {"stopping", "replacing"}
      BY <2>1, <2>2
    <2> QED
      BY <2>3, Zenon DEF Freed, EngineMoves
  <1> QED
    BY <1>1, <1>2, <1>3, <1>4 DEF GoesOn

LEMMA GoesOnClick ==
    ASSUME Types, WayInv, ClickInv, AppFrame, EngineKept, GoesOn,
           startPending' = startPending,
           isClick' = isClick, nowClickState' = nowClickState, dropped' = dropped,
           \A w \in Continuing : Contains(delayed, w) => Contains(delayed', w)
    PROVE  ClickInv'
  <1>1. /\ registration' = registration /\ oState' = oState
        /\ mMostRecentState' = mMostRecentState
    BY DEF AppFrame
  <1>2. CASE isClick \/ dropped
    BY <1>2, Zenon DEF ClickInv
  <1>3. CASE ~ isClick /\ ~ dropped
    <2>1. Bound /\ Freed /\ nowClickState # "1"
      BY <1>3, Zenon DEF ClickInv
    <2>2. CASE oState = "CONNECTED"
      <3>1. Freed'
        BY <1>1, <2>1, <2>2, GoesOnFrees
      <3> QED
        BY <1>1, <2>1, <3>1, Zenon DEF ClickInv, Bound
    <2>3. CASE oState # "CONNECTED"
      BY <2>3, ClickKept, Zenon
    <2> QED
      BY <2>2, <2>3
  <1> QED
    BY <1>2, <1>3

-----------------------------------------------------------------------------
(* The app's steps.                                                        *)

\* Steps that end in prohibit(true).
LEMMA FreeClick ==
    ASSUME isClick' = TRUE
    PROVE  ClickInv'
  BY Zenon DEF ClickInv

LEMMA ShortDelays ==
    \A w \in ShortDelay \cup ResumeWait : w \in Delayed
  BY DEF Delayed, ShortDelay, ResumeWait

LEMMA NoProcessMoves ==
    ASSUME Types, NoProcess
    PROVE  AppMoves /\ ClickInv'
  <1>1. Resumes("noprocess") /\ AfterResume /\ isClick' = TRUE
    BY Zenon DEF NoProcess
  <1> DEFINE d == Without("noprocess")
  <1>2. MainFree /\ ~ Quiet /\ d \in Seq(Delayed)
    BY <1>1, ResumesFacts, Zenon
  <1>3. /\ nowClickState' = nowClickState /\ layoutConnectInfo' = layoutConnectInfo
        /\ screen' = screen /\ engine' = engine /\ startPending' = startPending
        /\ dropped' = dropped /\ starting' = starting
    BY DEF NoProcess, engineVars
  <1>4. isLoading' \in BOOLEAN /\ isOptimize' \in BOOLEAN /\ connectBtn' \in BOOLEAN
        /\ delayed' \in Seq(Delayed)
    <2>1. CASE isLoading
      <3>1. /\ isLoading' = FALSE /\ delayed' = Append(d, "stopped")
            /\ isOptimize' = isOptimize /\ connectBtn' = connectBtn
        BY <2>1, Zenon DEF NoProcess
      <3>2. "stopped" \in Delayed
        BY DEF Delayed, ShortDelay
      <3>3. Append(d, "stopped") \in Seq(Delayed)
        BY <1>2, <3>2, AppendFacts, Zenon
      <3> QED
        BY <3>1, <3>3, Zenon DEF Types, FlagTypes
    <2>2. CASE ~ isLoading
      <3>1. OptimizeNext(d) /\ isLoading' = isLoading
        BY <2>2, Zenon DEF NoProcess
      <3> QED
        BY <1>2, <3>1, OptimizeFacts, Zenon DEF Types, FlagTypes
    <2> QED
      BY <2>1, <2>2
  <1>5. /\ AppFrame /\ jobConnect' = jobConnect /\ ads' = ads
        /\ clicks' = clicks /\ reports' = reports
    BY <1>1, AfterResumeFacts, Zenon
  <1>6. EngineKept
    BY <1>3, Zenon DEF EngineKept
  <1>7. FlagTypes' /\ DataTypes' /\ NumberTypes'
    BY <1>1, <1>3, <1>4, <1>5, <1>6, TypesRule, Zenon DEF Types, FlagTypes, DataTypes, NumberTypes
  <1> QED
    BY <1>1, <1>2, <1>3, <1>5, <1>6, <1>7, FreeClick, Zenon DEF AppMoves

LEMMA StopTimeMoves ==
    ASSUME Types, stopTime
    PROVE  AppMoves /\ ClickInv'
  <1>1. /\ Resumes("stopped") /\ AfterResume /\ isClick' = TRUE /\ layoutConnectInfo' = FALSE
    BY Zenon DEF stopTime
  <1> DEFINE d == Without("stopped")
  <1>2. MainFree /\ ~ Quiet /\ d \in Seq(Delayed)
    BY <1>1, ResumesFacts, Zenon
  <1>3. /\ nowClickState' = nowClickState /\ isLoading' = isLoading
        /\ engine' = engine /\ startPending' = startPending /\ dropped' = dropped /\ starting' = starting
    BY DEF stopTime, engineVars
  <1>4. screen' \in BOOLEAN /\ isOptimize' \in BOOLEAN /\ connectBtn' \in BOOLEAN
        /\ delayed' \in Seq(Delayed)
    <2>1. CASE screen' = TRUE /\ OptimizeNext(d)
      BY <1>2, <2>1, OptimizeFacts, Zenon
    <2>2. CASE ~ (screen' = TRUE /\ OptimizeNext(d))
      <3>1. /\ delayed' = Append(d, "stopResult")
            /\ screen' = screen /\ isOptimize' = isOptimize /\ connectBtn' = connectBtn
        BY <2>2, Zenon DEF stopTime
      <3>2. "stopResult" \in Delayed
        BY DEF Delayed, ResumeWait
      <3>3. Append(d, "stopResult") \in Seq(Delayed)
        BY <1>2, <3>2, AppendFacts, Zenon
      <3> QED
        BY <3>1, <3>3, Zenon DEF Types, FlagTypes
    <2> QED
      BY <2>1, <2>2
  <1>5. /\ AppFrame /\ jobConnect' = jobConnect /\ ads' = ads
        /\ clicks' = clicks /\ reports' = reports
    BY <1>1, AfterResumeFacts, Zenon
  <1>6. EngineKept
    BY <1>3, Zenon DEF EngineKept
  <1>7. FlagTypes' /\ DataTypes' /\ NumberTypes'
    BY <1>1, <1>3, <1>4, <1>5, <1>6, TypesRule, Zenon DEF Types, FlagTypes, DataTypes, NumberTypes
  <1> QED
    BY <1>1, <1>2, <1>3, <1>5, <1>6, <1>7, FreeClick, Zenon DEF AppMoves

LEMMA ConnectFinishMoves ==
    ASSUME Types, connectFinish
    PROVE  AppMoves /\ ClickInv'
  <1>1. /\ Resumes("connected") /\ AfterResume
        /\ isClick' = TRUE /\ layoutConnectInfo' = TRUE /\ connectBtn' = TRUE
    BY Zenon DEF connectFinish
  <1> DEFINE d == Without("connected")
  <1>2. MainFree /\ ~ Quiet /\ d \in Seq(Delayed)
    BY <1>1, ResumesFacts, Zenon
  <1>3. /\ isLoading' = isLoading /\ isOptimize' = isOptimize /\ nowClickState' = nowClickState
        /\ startPending' = startPending /\ dropped' = dropped /\ starting' = starting
    BY DEF connectFinish
  <1>4. screen' \in BOOLEAN /\ delayed' \in Seq(Delayed) /\ EngineKept
    <2>1. CASE screen' = TRUE /\ delayed' = d /\ FinishNext
      BY <1>2, <2>1, FinishNextFacts, Zenon
    <2>2. CASE ~ (screen' = TRUE /\ delayed' = d /\ FinishNext)
      <3>1. delayed' = Append(d, "connectResult") /\ screen' = screen /\ engine' = engine
        BY <2>2, Zenon DEF connectFinish
      <3>2. "connectResult" \in Delayed
        BY DEF Delayed, ResumeWait
      <3>3. Append(d, "connectResult") \in Seq(Delayed)
        BY <1>2, <3>2, AppendFacts, Zenon
      <3> QED
        BY <3>1, <3>3, Zenon DEF Types, FlagTypes, EngineKept
    <2> QED
      BY <2>1, <2>2
  <1>5. /\ AppFrame /\ jobConnect' = jobConnect /\ ads' = ads
        /\ clicks' = clicks /\ reports' = reports
    BY <1>1, AfterResumeFacts, Zenon
  <1>6. FlagTypes' /\ DataTypes' /\ NumberTypes'
    BY <1>1, <1>3, <1>4, <1>5, TypesRule, Zenon DEF Types, FlagTypes, DataTypes, NumberTypes
  <1> QED
    BY <1>1, <1>2, <1>3, <1>4, <1>5, <1>6, FreeClick, Zenon DEF AppMoves

LEMMA GreetedMoves ==
    ASSUME Types, Greeted
    PROVE  AppMoves /\ ClickInv'
  <1>1. /\ Resumes("greeted") /\ AfterResume /\ delayed' = Without("greeted")
        /\ isClick' = TRUE /\ layoutConnectInfo' = TRUE /\ connectBtn' = TRUE
    BY Zenon DEF Greeted
  <1>2. MainFree /\ ~ Quiet /\ delayed' \in Seq(Delayed)
    BY <1>1, ResumesFacts, Zenon
  <1>3. /\ isLoading' = isLoading /\ isOptimize' = isOptimize /\ nowClickState' = nowClickState
        /\ screen' = screen /\ engine' = engine /\ startPending' = startPending
        /\ dropped' = dropped /\ starting' = starting
    BY DEF Greeted, engineVars
  <1>4. /\ AppFrame /\ jobConnect' = jobConnect /\ ads' = ads
        /\ clicks' = clicks /\ reports' = reports
    BY <1>1, AfterResumeFacts, Zenon
  <1>5. EngineKept
    BY <1>3, Zenon DEF EngineKept
  <1>6. FlagTypes' /\ DataTypes' /\ NumberTypes'
    BY <1>1, <1>2, <1>3, <1>4, <1>5, TypesRule, Zenon DEF Types, FlagTypes, DataTypes, NumberTypes
  <1> QED
    BY <1>1, <1>2, <1>3, <1>4, <1>5, <1>6, FreeClick, Zenon DEF AppMoves

LEMMA ReconnectingMoves ==
    ASSUME Types, Reconnecting
    PROVE  AppMoves /\ ClickInv'
  <1>1. /\ Resumes("reconnecting") /\ AfterResume /\ delayed' = Without("reconnecting")
        /\ isClick' = TRUE /\ layoutConnectInfo' = FALSE
    BY Zenon DEF Reconnecting
  <1>2. MainFree /\ ~ Quiet /\ delayed' \in Seq(Delayed)
    BY <1>1, ResumesFacts, Zenon
  <1>3. /\ isLoading' = isLoading /\ isOptimize' = isOptimize /\ nowClickState' = nowClickState
        /\ connectBtn' = connectBtn /\ screen' = screen
        /\ engine' = engine /\ startPending' = startPending /\ dropped' = dropped /\ starting' = starting
    BY DEF Reconnecting, engineVars
  <1>4. /\ AppFrame /\ jobConnect' = jobConnect /\ ads' = ads
        /\ clicks' = clicks /\ reports' = reports
    BY <1>1, AfterResumeFacts, Zenon
  <1>5. EngineKept
    BY <1>3, Zenon DEF EngineKept
  <1>6. FlagTypes' /\ DataTypes' /\ NumberTypes'
    BY <1>1, <1>2, <1>3, <1>4, <1>5, TypesRule, Zenon DEF Types, FlagTypes, DataTypes, NumberTypes
  <1> QED
    BY <1>1, <1>2, <1>3, <1>4, <1>5, <1>6, FreeClick, Zenon DEF AppMoves

\* startVpn() with what else its caller leaves alone.
LEMMA StartVpnMoves ==
    ASSUME Types, WayInv, ClickInv, MainFree, AppFrame, EngineKept,
           NEW d \in Seq(Delayed), NEW clickable \in BOOLEAN, NEW front \in BOOLEAN,
           startVpn(clickable, d, front),
           clickable = TRUE \/ clickable = isClick,
           \A w \in Continuing \cup {"disconnect"} : Contains(delayed, w) => Contains(d, w),
           d = delayed \/ ~ Quiet,
           engine' = engine, isOptimize' = isOptimize, layoutConnectInfo' \in BOOLEAN,
           jobConnect' = jobConnect, ads' = ads, reports' = reports, clicks' \in 0 .. MaxClicks
    PROVE  AppMoves /\ ClickInv'
  <1>1. /\ isClick' = clickable /\ delayed' = d /\ screen' \in BOOLEAN
        /\ isLoading' = isLoading /\ connectBtn' = connectBtn
        /\ startPending' = startPending /\ dropped' = dropped
        /\ startUp \/ (nowClickState' = nowClickState /\ starting' = starting)
    BY StartVpnFacts, Zenon
  <1>2. /\ starting' \in BOOLEAN /\ nowClickState' \in {"0", "1", "2"}
        /\ nowClickState' = nowClickState \/ nowClickState' # "1"
        /\ ~ isVpnConnect => nowClickState' = nowClickState \/ nowClickState' # "2"
    <2>1. starting \in BOOLEAN /\ nowClickState \in {"0", "1", "2"} /\ TRUE \in BOOLEAN
      BY Zenon DEF Types, FlagTypes, DataTypes
    <2> QED
      BY <1>1, <2>1, StartUpFacts, Zenon
  <1>3. FlagTypes' /\ DataTypes' /\ NumberTypes'
    BY <1>1, <1>2, TypesRule, Zenon DEF Types, FlagTypes, NumberTypes
  <1>4. ClickInv'
    <2>1. CASE isClick' = TRUE
      BY <2>1, FreeClick
    <2>2. CASE isClick' = isClick
      BY <1>1, <1>2, <2>2, ClickKept, Zenon
    <2> QED
      BY <1>1, <2>1, <2>2, Zenon
  <1>5. Quiet /\ ~ isVpnConnect => Quiet'
    BY <1>1, <1>2, Zenon DEF Quiet
  <1>6. (MainFree /\ starting' = starting) \/ (~ greeting /\ StartInv')
    <2>1. CASE startUp
      <3>1. ~ greeting /\ greeting' = greeting
        BY DEF MainFree, AppFrame
      <3>2. nowClickState' # "1"
        BY <2>1, StartUpFacts, Zenon
      <3> QED
        BY <3>1, <3>2, Zenon DEF StartInv
    <2> QED
      BY <1>1, <2>1, Zenon
  <1> QED
    BY <1>1, <1>3, <1>4, <1>5, <1>6, Zenon DEF AppMoves

\* The rest of startUp() sends an intent, waits for disconnect() or is in vain.
LEMMA StartUpGoesOnMoves ==
    ASSUME Types, WayInv, StartInv, startUpGoesOn
    PROVE  AppMoves /\ ClickInv'
  <1>1. /\ starting /\ starting' = FALSE /\ isClick' = FALSE
        /\ isOptimize' = isOptimize /\ nowClickState' = nowClickState
        /\ layoutConnectInfo' = layoutConnectInfo /\ screen' = screen
        /\ jobConnect' = jobConnect /\ ads' = ads /\ engine' = engine
        /\ clicks' = clicks /\ reports' = reports
    BY DEF startUpGoesOn, counters
  <1>2. AppFrame
    BY DEF startUpGoesOn, deliveryVars, AppFrame
  <1>3. ~ greeting /\ nowClickState' # "1" /\ StartInv'
    BY <1>1, Zenon DEF StartInv
  <1>4. EngineKept
    BY <1>1, Zenon DEF EngineKept
  <1>5. registration' = registration /\ oState' = oState
    BY <1>2 DEF AppFrame
  <1>6. delayed \in Seq(Delayed)
    BY Zenon DEF Types, DataTypes
  <1>7. CASE isVpnConnect
    <2>1. /\ isLoading' = TRUE /\ connectBtn' = FALSE
          /\ delayed' = Append(delayed, "disconnect")
          /\ startPending' = startPending /\ dropped' = dropped
      BY <1>7 DEF startUpGoesOn
    <2>2. "disconnect" \in Delayed
      BY DEF Delayed
    <2>3. delayed' \in Seq(Delayed) /\ Contains(delayed', "disconnect")
      BY <1>6, <2>1, <2>2, AppendFacts, Zenon
    <2>4. FlagTypes' /\ DataTypes' /\ NumberTypes'
      BY <1>1, <1>2, <1>4, <2>1, <2>3, TypesRule, Zenon DEF Types, FlagTypes, DataTypes, NumberTypes
    <2>5. oState = "CONNECTED" /\ Bound
      BY <1>7 DEF isVpnConnect, WayInv
    <2>6. Freed'
      BY <1>5, <2>3, <2>5, Zenon DEF Freed
    <2>7. ClickInv'
      BY <1>3, <1>5, <2>5, <2>6, Zenon DEF ClickInv, Bound
    <2> QED
      BY <1>2, <1>3, <1>4, <1>7, <2>1, <2>4, <2>7, Zenon DEF AppMoves
  <1>8. CASE ~ isVpnConnect
    <2>1. open /\ UNCHANGED <<isLoading, connectBtn, delayed>>
      BY <1>8, Zenon DEF startUpGoesOn
    <2>2. isLoading' = isLoading /\ connectBtn' = connectBtn /\ delayed' = delayed
      BY <2>1
    <2>3. /\ startPending' \in Nat /\ dropped' \in BOOLEAN
          /\ startPending' = startPending \/ (Bound /\ startPending' = startPending + 1)
          /\ dropped => dropped'
          /\ dropped' \/ (Bound /\ startPending' > 0)
      BY <2>1, OpenFacts, Zenon
    <2>4. FlagTypes' /\ DataTypes' /\ NumberTypes'
      BY <1>1, <1>2, <1>4, <2>2, <2>3, TypesRule, Zenon DEF Types, FlagTypes, DataTypes, NumberTypes
    <2>5. ClickInv'
      <3>1. startPending' > 0 => Freed'
        BY Zenon DEF Freed, EngineMoves
      <3> QED
        BY <1>3, <1>5, <2>3, <3>1, Zenon DEF ClickInv, Bound
    <2>6. Quiet => Quiet'
      BY <1>1, <2>2, Zenon DEF Quiet
    <2> QED
      BY <1>1, <1>2, <1>3, <1>4, <2>3, <2>4, <2>5, <2>6, Zenon DEF AppMoves
  <1> QED
    BY <1>7, <1>8

LEMMA OptimizedMoves ==
    ASSUME Types, WayInv, ClickInv, Optimized
    PROVE  AppMoves /\ ClickInv'
  <1> DEFINE d == Without("optimized")
  <1>1. /\ Resumes("optimized") /\ AfterResume /\ layoutConnectInfo' = FALSE
        /\ startVpn(TRUE, d, screen)
    BY Zenon DEF Optimized
  <1>2. /\ MainFree /\ ~ Quiet /\ d \in Seq(Delayed)
        /\ \A w : w # "optimized" /\ Contains(delayed, w) => Contains(d, w)
    BY <1>1, ResumesFacts, Zenon
  <1> HIDE DEF d
  <1>3. engine' = engine /\ isOptimize' = isOptimize
    BY DEF Optimized
  <1>4. /\ AppFrame /\ jobConnect' = jobConnect /\ ads' = ads
        /\ clicks' = clicks /\ reports' = reports
    BY <1>1, AfterResumeFacts, Zenon
  <1>5. "optimized" \notin Continuing \cup {"disconnect"}
    BY DEF Continuing
  <1>6. /\ screen \in BOOLEAN /\ clicks' \in 0 .. MaxClicks
    BY <1>4, Zenon DEF Types, FlagTypes, NumberTypes
  <1>7. EngineKept
    BY <1>3, Zenon DEF EngineKept
  <1>8. \A w \in Continuing \cup {"disconnect"} : Contains(delayed, w) => Contains(d, w)
    BY <1>2, <1>5, Zenon
  <1>9. layoutConnectInfo' \in BOOLEAN /\ TRUE \in BOOLEAN
    BY <1>1, Zenon
  <1> QED
    BY <1>1, <1>2, <1>3, <1>4, <1>6, <1>7, <1>8, <1>9, StartVpnMoves, Zenon

LEMMA ResumeWaitMoves ==
    ASSUME Types, WayInv, ClickInv, ResumeWaitEnds
    PROVE  AppMoves /\ ClickInv'
  <1>1. PICK w \in ResumeWait :
          /\ Contains(delayed, w)
          /\ screen' \in (IF MayBeResumed THEN {screen, TRUE} ELSE {screen})
          /\ \/ /\ w = "stopResult"
                /\ OptimizeNext(Without(w))
                /\ UNCHANGED engine
             \/ /\ w = "connectResult"
                /\ FinishNext
                /\ delayed' = Without(w)
                /\ UNCHANGED <<isOptimize, connectBtn>>
    BY Zenon DEF ResumeWaitEnds
  <1>2. MainFree /\ AfterResume
    BY Zenon DEF ResumeWaitEnds
  <1>3. /\ isClick' = isClick /\ isLoading' = isLoading /\ nowClickState' = nowClickState
        /\ layoutConnectInfo' = layoutConnectInfo /\ startPending' = startPending
        /\ dropped' = dropped /\ starting' = starting
    BY DEF ResumeWaitEnds
  <1>4. delayed \in Seq(Delayed)
    BY Zenon DEF Types, DataTypes
  <1> DEFINE d == Without(w)
  <1>5. /\ d \in Seq(Delayed)
        /\ \A v : v # w /\ Contains(delayed, v) => Contains(d, v)
    BY <1>1, <1>4, WithoutFacts, Zenon
  <1>6. delayed # <<>>
    BY <1>1, <1>4 DEF Contains
  <1> HIDE DEF d
  <1>7. /\ EngineKept /\ isOptimize' \in BOOLEAN /\ connectBtn' \in BOOLEAN
        /\ delayed' \in Seq(Delayed) /\ Keeps(d, delayed')
    <2>1. CASE OptimizeNext(d) /\ engine' = engine
      BY <1>5, <2>1, OptimizeFacts, Zenon DEF EngineKept
    <2>2. CASE ~ (OptimizeNext(d) /\ engine' = engine)
      <3>1. FinishNext /\ delayed' = d /\ UNCHANGED <<isOptimize, connectBtn>>
        BY <1>1, <2>2, Zenon DEF d
      <3>2. isOptimize' = isOptimize /\ connectBtn' = connectBtn
        BY <3>1
      <3> QED
        BY <1>5, <3>1, <3>2, FinishNextFacts, Zenon DEF Types, FlagTypes, Keeps
    <2> QED
      BY <2>1, <2>2
  <1>8. screen' \in BOOLEAN
    <2>1. screen' = screen \/ screen' = TRUE
      BY <1>1, Zenon
    <2> QED
      BY <2>1, Zenon DEF Types, FlagTypes
  <1>9. /\ AppFrame /\ jobConnect' = jobConnect /\ ads' = ads
        /\ clicks' = clicks /\ reports' = reports
    BY <1>2, AfterResumeFacts, Zenon
  <1>10. FlagTypes' /\ DataTypes' /\ NumberTypes'
    BY <1>3, <1>7, <1>8, <1>9, TypesRule, Zenon DEF Types, FlagTypes, DataTypes, NumberTypes
  <1>11. \A v \in Continuing \cup {"disconnect"} : Contains(delayed, v) => Contains(delayed', v)
    <2>1. w \notin Continuing \cup {"disconnect"}
      BY <1>1 DEF Continuing
    <2> QED
      BY <1>5, <1>7, <2>1, Zenon DEF Keeps
  <1>12. ClickInv'
    BY <1>3, <1>7, <1>9, <1>11, ClickKept, Zenon
  <1> QED
    BY <1>2, <1>3, <1>6, <1>7, <1>9, <1>10, <1>12, Zenon DEF AppMoves, Quiet

LEMMA DisconnectDelayMoves ==
    ASSUME Types, WayInv, ClickInv, DisconnectDelayEnds
    PROVE  AppMoves /\ ClickInv'
  <1> DEFINE d == Tail(delayed)
  <1>1. MainFree /\ delayed # <<>> /\ Head(delayed) = "disconnect" /\ showConnectAd(d)
    BY Zenon DEF DisconnectDelayEnds
  <1>2. delayed \in Seq(Delayed)
    BY Zenon DEF Types, DataTypes
  <1>3. d \in Seq(Delayed) /\ \A w : Contains(delayed, w) <=> Contains(d, w) \/ w = "disconnect"
    BY <1>1, <1>2, TailFacts, Zenon
  <1> HIDE DEF d
  <1>4. /\ jobConnect' \in BOOLEAN
        /\ delayed' \in Seq(Delayed) /\ Keeps(d, delayed') /\ EngineKept
        /\ \/ jobConnect' = TRUE
           \/ nowClickState = "0" /\ Contains(delayed', "connected")
           \/ nowClickState = "2" /\ disconnectCall
           \/ nowClickState \notin {"0", "2"}
    BY <1>1, <1>3, ConnectAdFacts, Zenon
  <1>5. AppFrame
    BY DEF DisconnectDelayEnds, deliveryVars, AppFrame
  <1>6. /\ isClick' = isClick /\ isLoading' = isLoading /\ isOptimize' = isOptimize
        /\ nowClickState' = nowClickState /\ layoutConnectInfo' = layoutConnectInfo
        /\ connectBtn' = connectBtn /\ screen' = screen
        /\ ads' = ads /\ startPending' = startPending
        /\ clicks' = clicks /\ reports' = reports /\ dropped' = dropped /\ starting' = starting
    BY DEF DisconnectDelayEnds, uiVars, counters
  <1>7. FlagTypes' /\ DataTypes' /\ NumberTypes'
    BY <1>4, <1>5, <1>6, TypesRule, Zenon DEF Types, FlagTypes, DataTypes, NumberTypes
  <1>8. \A w \in Continuing : Contains(delayed, w) => Contains(delayed', w)
    <2>1. "disconnect" \notin Continuing
      BY DEF Continuing
    <2> QED
      BY <1>3, <1>4, <2>1, Zenon DEF Keeps
  <1>9. GoesOn
    BY <1>4, Zenon DEF GoesOn
  <1>10. ClickInv'
    BY <1>4, <1>5, <1>6, <1>8, <1>9, GoesOnClick, Zenon
  <1> QED
    BY <1>1, <1>4, <1>5, <1>6, <1>7, <1>10, Zenon DEF AppMoves, Quiet

\* A flow goes on with showFinishAd(), or is given up.
LEMMA FinishMoves ==
    ASSUME Types, WayInv, ClickInv, MainFree, ~ Quiet, AppFrame,
           jobConnect' \in BOOLEAN, ads' \in Nat,
           isClick' = isClick, isLoading' = isLoading, isOptimize' = isOptimize,
           nowClickState' = nowClickState, layoutConnectInfo' = layoutConnectInfo,
           connectBtn' = connectBtn, screen' = screen, startPending' = startPending,
           starting' = starting,
           clicks' = clicks, reports' = reports,
           \/ showFinishAd(1, delayed) /\ dropped' = dropped
           \/ ads' > 0 /\ dropped' = dropped /\ delayed' = delayed /\ engine' = engine
           \/ dropped' = TRUE /\ delayed' = delayed /\ engine' = engine
    PROVE  AppMoves /\ ClickInv'
  <1>1. delayed \in Seq(Delayed) /\ 1 \in Nat /\ 1 > 0
    <2>1. delayed \in Seq(Delayed)
      BY Zenon DEF Types, DataTypes
    <2> QED
      BY <2>1
  <1>2. CASE showFinishAd(1, delayed) /\ dropped' = dropped
    <2>1. /\ delayed' \in Seq(Delayed) /\ Keeps(delayed, delayed') /\ EngineKept
          /\ nowClickState = "0" => Contains(delayed', "connected")
          /\ nowClickState = "2" => disconnectCall
      BY <1>1, <1>2, FinishFacts, Zenon
    <2>2. GoesOn
      <3>1. nowClickState = "0" \/ nowClickState = "2" \/ nowClickState \notin {"0", "2"}
        OBVIOUS
      <3> QED
        BY <2>1, <3>1, Zenon DEF GoesOn
    <2>3. FlagTypes' /\ DataTypes' /\ NumberTypes'
      BY <1>2, <2>1, TypesRule, Zenon DEF Types, FlagTypes, DataTypes, NumberTypes
    <2>4. ClickInv'
      BY <1>2, <2>1, <2>2, GoesOnClick, Zenon DEF Keeps
    <2> QED
      BY <1>2, <2>1, <2>3, <2>4, Zenon DEF AppMoves
  <1>3. CASE delayed' = delayed /\ engine' = engine
    <2>1. dropped' \in BOOLEAN
      BY Zenon DEF Types, FlagTypes
    <2>2. FlagTypes' /\ DataTypes' /\ NumberTypes'
      BY <1>3, <2>1, TypesRule, Zenon DEF Types, FlagTypes, DataTypes, NumberTypes, EngineKept
    <2>3. EngineKept
      BY <1>3, Zenon DEF EngineKept
    <2>4. CASE dropped' = TRUE
      <3>1. ClickInv'
        BY <2>4, Zenon DEF ClickInv
      <3> QED
        BY <2>2, <2>3, <2>4, <3>1, Zenon DEF AppMoves
    <2>5. CASE dropped' = dropped /\ ads' > 0
      <3>1. GoesOn
        BY <2>5, Zenon DEF GoesOn
      <3>2. ClickInv'
        BY <1>3, <2>3, <2>5, <3>1, GoesOnClick, Zenon
      <3> QED
        BY <2>2, <2>3, <2>5, <3>2, Zenon DEF AppMoves
    <2>6. CASE dropped' = dropped /\ showFinishAd(1, delayed)
      BY <1>2, <2>6
    <2> QED
      BY <2>4, <2>5, <2>6, Zenon
  <1> QED
    BY <1>2, <1>3, Zenon

LEMMA AdLoopMoves ==
    ASSUME Types, WayInv, ClickInv, AdLoopEnds
    PROVE  AppMoves /\ ClickInv'
  <1>1. MainFree /\ ~ Quiet /\ jobConnect' = FALSE
    BY Zenon DEF AdLoopEnds, Quiet
  <1>2. AppFrame
    BY DEF AdLoopEnds, deliveryVars, AppFrame
  <1>3. /\ isClick' = isClick /\ isLoading' = isLoading /\ isOptimize' = isOptimize
        /\ nowClickState' = nowClickState /\ layoutConnectInfo' = layoutConnectInfo
        /\ connectBtn' = connectBtn /\ screen' = screen
        /\ startPending' = startPending /\ starting' = starting /\ clicks' = clicks /\ reports' = reports
    BY DEF AdLoopEnds, uiVars, counters
  <1>4. ads \in Nat
    BY Zenon DEF Types, NumberTypes
  <1>5. \/ showFinishAd(1, delayed) /\ UNCHANGED <<ads, dropped>>
        \/ ads' = ads + 1 /\ UNCHANGED <<delayed, engine, dropped>>
        \/ dropped' = TRUE /\ UNCHANGED <<ads, delayed, engine>>
    BY Zenon DEF AdLoopEnds
  <1>6. /\ \/ showFinishAd(1, delayed) /\ dropped' = dropped
           \/ ads' = ads + 1 /\ dropped' = dropped /\ delayed' = delayed /\ engine' = engine
           \/ dropped' = TRUE /\ delayed' = delayed /\ engine' = engine
        /\ ads' = ads \/ ads' = ads + 1
    BY <1>5, Zenon
  <1>7. ads' \in Nat /\ (ads' = ads + 1 => ads' > 0)
    BY <1>4, <1>6
  <1>8. jobConnect' \in BOOLEAN
    BY <1>1, Zenon
  <1> QED
    BY <1>1, <1>2, <1>3, <1>6, <1>7, <1>8, FinishMoves, Zenon

LEMMA AdDismissedMoves ==
    ASSUME Types, WayInv, ClickInv, AdDismissed
    PROVE  AppMoves /\ ClickInv'
  <1>1. MainFree /\ ads > 0 /\ ads' = ads - 1
    BY Zenon DEF AdDismissed
  <1>2. AppFrame
    BY DEF AdDismissed, deliveryVars, AppFrame
  <1>3. /\ isClick' = isClick /\ isLoading' = isLoading /\ isOptimize' = isOptimize
        /\ nowClickState' = nowClickState /\ layoutConnectInfo' = layoutConnectInfo
        /\ connectBtn' = connectBtn /\ screen' = screen /\ jobConnect' = jobConnect
        /\ startPending' = startPending /\ starting' = starting /\ clicks' = clicks /\ reports' = reports
    BY DEF AdDismissed, uiVars, counters
  <1>4. ads \in Nat
    BY Zenon DEF Types, NumberTypes
  <1>5. \/ showFinishAd(1, delayed) /\ UNCHANGED dropped
        \/ dropped' = TRUE /\ UNCHANGED <<delayed, engine>>
    BY Zenon DEF AdDismissed
  <1>6. \/ showFinishAd(1, delayed) /\ dropped' = dropped
        \/ dropped' = TRUE /\ delayed' = delayed /\ engine' = engine
    BY <1>5, Zenon
  <1>7. ads' \in Nat /\ ads # 0
    BY <1>1, <1>4
  <1>8. jobConnect' \in BOOLEAN /\ ~ Quiet
    BY <1>3, <1>7, Zenon DEF Types, FlagTypes, Quiet
  <1> QED
    BY <1>1, <1>2, <1>3, <1>6, <1>7, <1>8, FinishMoves, Zenon

-----------------------------------------------------------------------------
(* The user's steps.                                                       *)

LEMMA UserFacts ==
    ASSUME Types, UserActs
    PROVE  /\ MainFree /\ AppFrame /\ jobConnect' = jobConnect /\ ads' = ads
           /\ clicks' \in 0 .. MaxClicks /\ reports' = reports
  <1>1. /\ MainFree /\ AppFrame /\ jobConnect' = jobConnect /\ ads' = ads /\ reports' = reports
    BY DEF UserActs, AppFrame, deliveryVars
  <1>2. clicks \in 0 .. MaxClicks
    BY Zenon DEF Types, NumberTypes
  <1>3. clicks' \in 0 .. MaxClicks
    BY <1>2, FlowAssumption DEF UserActs
  <1> QED
    BY <1>1, <1>3

LEMMA ClickUpMoves ==
    ASSUME Types, WayInv, ClickInv, clickUp
    PROVE  AppMoves /\ ClickInv'
  <1>1. UserActs /\ startVpn(TRUE, delayed, FALSE)
    BY Zenon DEF clickUp
  <1>2. engine' = engine /\ isOptimize' = isOptimize /\ layoutConnectInfo' = layoutConnectInfo
    BY DEF clickUp
  <1>3. delayed \in Seq(Delayed) /\ layoutConnectInfo' \in BOOLEAN /\ EngineKept
        /\ TRUE \in BOOLEAN /\ FALSE \in BOOLEAN
    BY <1>2, Zenon DEF Types, DataTypes, FlagTypes, EngineKept
  <1> QED
    BY <1>1, <1>2, <1>3, UserFacts, StartVpnMoves, Zenon

LEMMA ScreenOpenedMoves ==
    ASSUME Types, WayInv, ClickInv, ScreenOpened
    PROVE  AppMoves /\ ClickInv'
  <1>1. UserActs /\ isClick /\ screen' = TRUE
    BY Zenon DEF ScreenOpened
  <1>2. /\ isClick' = isClick /\ isLoading' = isLoading /\ isOptimize' = isOptimize
        /\ nowClickState' = nowClickState /\ layoutConnectInfo' = layoutConnectInfo
        /\ connectBtn' = connectBtn /\ delayed' = delayed
        /\ engine' = engine /\ startPending' = startPending /\ dropped' = dropped /\ starting' = starting
    BY DEF ScreenOpened, engineVars
  <1>3. /\ MainFree /\ AppFrame /\ jobConnect' = jobConnect /\ ads' = ads
        /\ clicks' \in 0 .. MaxClicks /\ reports' = reports
    BY <1>1, UserFacts, Zenon
  <1>4. EngineKept
    BY <1>2, Zenon DEF EngineKept
  <1>5. FlagTypes' /\ DataTypes' /\ NumberTypes'
    BY <1>1, <1>2, <1>3, <1>4, TypesRule, Zenon DEF Types, FlagTypes, DataTypes, NumberTypes
  <1>6. ClickInv'
    BY <1>1, <1>2, Zenon DEF ClickInv
  <1>7. Quiet => Quiet'
    BY <1>2, <1>3, Zenon DEF Quiet
  <1> QED
    BY <1>2, <1>3, <1>4, <1>5, <1>6, <1>7, Zenon DEF AppMoves

LEMMA ScreenReturnsMoves ==
    ASSUME Types, WayInv, ClickInv, ScreenReturns
    PROVE  AppMoves /\ ClickInv'
  <1>1. UserActs
    BY Zenon DEF ScreenReturns
  <1>2. engine' = engine /\ isOptimize' = isOptimize /\ layoutConnectInfo' = layoutConnectInfo
    BY DEF ScreenReturns
  <1>3. delayed \in Seq(Delayed) /\ layoutConnectInfo' \in BOOLEAN /\ EngineKept
        /\ isClick \in BOOLEAN /\ FALSE \in BOOLEAN
    BY <1>2, Zenon DEF Types, DataTypes, FlagTypes, EngineKept
  <1>4. CASE startVpn(isClick, delayed, FALSE)
    BY <1>1, <1>2, <1>3, <1>4, UserFacts, StartVpnMoves, Zenon
  <1>5. CASE ~ startVpn(isClick, delayed, FALSE)
    <2>1. /\ screen' = FALSE
          /\ UNCHANGED <<isClick, nowClickState, isLoading, connectBtn, starting, delayed,
                         startPending, dropped>>
      BY <1>5, Zenon DEF ScreenReturns
    <2>2. /\ isClick' = isClick /\ nowClickState' = nowClickState /\ isLoading' = isLoading
          /\ connectBtn' = connectBtn /\ delayed' = delayed /\ startPending' = startPending
          /\ dropped' = dropped /\ starting' = starting
      BY <2>1
    <2>3. /\ MainFree /\ AppFrame /\ jobConnect' = jobConnect /\ ads' = ads
          /\ clicks' \in 0 .. MaxClicks /\ reports' = reports
      BY <1>1, UserFacts, Zenon
    <2>4. FlagTypes' /\ DataTypes' /\ NumberTypes'
      BY <1>2, <1>3, <2>1, <2>2, <2>3, TypesRule, Zenon DEF Types, FlagTypes, DataTypes, NumberTypes
    <2>5. ClickInv'
      BY <1>3, <2>2, <2>3, ClickKept, Zenon
    <2>6. Quiet => Quiet'
      BY <2>2, <2>3, Zenon DEF Quiet
    <2> QED
      BY <1>2, <1>3, <2>2, <2>3, <2>4, <2>5, <2>6, Zenon DEF AppMoves
  <1> QED
    BY <1>4, <1>5

LEMMA DisConnectClickMoves ==
    ASSUME Types, WayInv, ClickInv, disConnectClick
    PROVE  AppMoves /\ ClickInv'
  <1>1. UserActs /\ connectBtn /\ startUp
    BY Zenon DEF disConnectClick
  <1>2. /\ isClick' = isClick /\ isLoading' = isLoading /\ isOptimize' = isOptimize
        /\ layoutConnectInfo' = layoutConnectInfo /\ connectBtn' = connectBtn
        /\ screen' = screen /\ delayed' = delayed
        /\ engine' = engine /\ startPending' = startPending /\ dropped' = dropped
    BY DEF disConnectClick, engineVars
  <1>3. /\ MainFree /\ AppFrame /\ jobConnect' = jobConnect /\ ads' = ads
        /\ clicks' \in 0 .. MaxClicks /\ reports' = reports
    BY <1>1, UserFacts, Zenon
  <1>4. /\ starting' = TRUE /\ nowClickState' \in {"0", "1", "2"} /\ nowClickState' # "1"
    BY <1>1, StartUpFacts, Zenon
  <1>5. EngineKept
    BY <1>2, Zenon DEF EngineKept
  <1>6. FlagTypes' /\ DataTypes' /\ NumberTypes'
    BY <1>2, <1>3, <1>4, <1>5, TypesRule, Zenon DEF Types, FlagTypes, DataTypes, NumberTypes
  <1>7. ClickInv'
    BY <1>2, <1>3, <1>4, <1>5, ClickKept, Zenon
  <1>8. ~ greeting /\ StartInv'
    <2>1. ~ greeting /\ greeting' = greeting
      BY <1>3 DEF MainFree, AppFrame
    <2> QED
      BY <1>4, <2>1, Zenon DEF StartInv
  <1> QED
    BY <1>1, <1>2, <1>3, <1>5, <1>6, <1>7, <1>8, Zenon DEF AppMoves, Quiet

LEMMA OptimizeClickMoves ==
    ASSUME Types, WayInv, ClickInv, optimizeClick
    PROVE  AppMoves /\ ClickInv'
  <1>1. /\ UserActs /\ isOptimize' = TRUE /\ screen' = FALSE /\ disconnectCall
        /\ connectBtn \/ isVpnConnect
    BY Zenon DEF optimizeClick
  <1>2. /\ isClick' = isClick /\ isLoading' = isLoading /\ nowClickState' = nowClickState
        /\ layoutConnectInfo' = layoutConnectInfo /\ connectBtn' = connectBtn
        /\ delayed' = delayed /\ startPending' = startPending /\ dropped' = dropped /\ starting' = starting
    BY DEF optimizeClick
  <1>3. /\ MainFree /\ AppFrame /\ jobConnect' = jobConnect /\ ads' = ads
        /\ clicks' \in 0 .. MaxClicks /\ reports' = reports
    BY <1>1, UserFacts, Zenon
  <1>4. EngineKept
    BY <1>1, DisconnectFacts, Zenon
  <1>5. FlagTypes' /\ DataTypes' /\ NumberTypes'
    BY <1>1, <1>2, <1>3, <1>4, TypesRule, Zenon DEF Types, FlagTypes, DataTypes, NumberTypes
  <1>6. ClickInv'
    BY <1>2, <1>3, <1>4, ClickKept, Zenon
  <1> QED
    BY <1>1, <1>2, <1>3, <1>4, <1>5, <1>6, Zenon DEF AppMoves, Quiet

-----------------------------------------------------------------------------
(* What keeps the invariant.                                               *)

FlowInv == DeliveryTypeOK /\ Types /\ WayInv /\ StartInv /\ ClickInv

\* While "..." is on its way the app does not take the VPN for connected,
\* unless the coroutine that replaces it has begun.
LEMMA EarlyFacts ==
    ASSUME DeliveryTypeOK, WayInv, ~ Bound \/ Early, ~ greeting
    PROVE  Quiet /\ ~ isVpnConnect
  <1>1. Quiet
    BY Zenon DEF WayInv
  <1>2. oState = "" \/ oState = "..."
    <2>1. CASE ~ Bound
      BY <2>1 DEF WayInv
    <2>2. CASE Contains(toClient, "...")
      <3>1. DOMAIN toClient = 1 .. Len(toClient)
        BY DEF DeliveryTypeOK
      <3> QED
        BY <2>2, <3>1, Zenon DEF WayInv, Contains
    <2> QED
      BY <2>1, <2>2, Zenon DEF Early
  <1> QED
    BY <1>1, <1>2 DEF isVpnConnect

LEMMA AppMovesKeep ==
    ASSUME DeliveryTypeOK, Types, WayInv, AppMoves
    PROVE  DeliveryTypeOK' /\ Types' /\ WayInv' /\ StartInv' /\ (CalmInv => CalmInv')
  <1>1. /\ mMostRecentState' = mMostRecentState /\ handler' = handler
        /\ registration' = registration /\ mCallbacks' = mCallbacks /\ toClient' = toClient
        /\ oState' = oState /\ launched' = launched /\ greeting' = greeting
    BY DEF AppMoves, AppFrame
  <1>2. DeliveryTypeOK'
    BY <1>1, Zenon DEF DeliveryTypeOK
  <1>3. Types'
    BY Zenon DEF AppMoves, Types
  <1>4. ~ Bound \/ Early => Quiet' /\ engine' = engine
    <2>1. ~ greeting
      BY Zenon DEF AppMoves, MainFree
    <2> QED
      BY <2>1, EarlyFacts, Zenon DEF AppMoves
  <1>5. engine' = engine \/ (engine = "up" /\ engine' = "stopping")
    BY Zenon DEF AppMoves, EngineKept
  <1>6. engine' = "down" => engine = "down"
    BY <1>5
  <1>7. Early' = Early /\ Bound' = Bound /\ Pipe' = Pipe /\ Informed' = Informed
    BY <1>1, Zenon DEF Early, Bound, Pipe, Informed, isVpnConnect
  <1>8. WayInv'
    <2>1. engine' = "down" => /\ mMostRecentState' # "CONNECTED"
                              /\ dropped' \/ mMostRecentState' = "NOPROCESS"
      <3>1. dropped => dropped'
        BY Zenon DEF AppMoves
      <3> QED
        BY <1>1, <1>6, <3>1, Zenon DEF WayInv
    <2> QED
      BY <1>1, <1>4, <1>7, <2>1, Zenon DEF WayInv
  <1>9. ASSUME CalmInv PROVE CalmInv'
    <2>1. EngineMoves => EngineMoves'
      <3>1. startPending > 0 => startPending' > 0
        BY DEF AppMoves, Types, NumberTypes
      <3>2. engine \in {"stopping", "replacing"} => engine' \in {"stopping", "replacing"}
        BY <1>5
      <3>3. engine = "up" => engine' = "up" \/ engine' \in {"stopping", "replacing"}
        BY <1>5
      <3> QED
        BY <1>1, <3>1, <3>2, <3>3, Zenon DEF EngineMoves
    <2>2. ~ Bound => startPending' = startPending
      BY Zenon DEF AppMoves
    <2> QED
      BY <1>1, <1>4, <1>7, <1>9, <2>1, <2>2, Zenon DEF CalmInv
  <1>10. StartInv'
    BY Zenon DEF AppMoves, MainFree, StartInv
  <1> QED
    BY <1>2, <1>3, <1>8, <1>9, <1>10

LEMMA AppMovesInv ==
    ASSUME FlowInv, AppMoves, ClickInv'
    PROVE  FlowInv' /\ (CalmInv => CalmInv')
  BY AppMovesKeep, Zenon DEF FlowInv

\* A coroutine of newStatus() runs.
LEMMA StatusHandledInv ==
    ASSUME FlowInv, StatusHandled
    PROVE  FlowInv' /\ (CalmInv => CalmInv')
  <1>1. /\ mMostRecentState' = mMostRecentState /\ handler' = handler
        /\ registration' = registration /\ mCallbacks' = mCallbacks /\ toClient' = toClient
        /\ oState' = oState
        /\ isClick' = isClick /\ isLoading' = isLoading /\ isOptimize' = isOptimize
        /\ nowClickState' = nowClickState /\ layoutConnectInfo' = layoutConnectInfo
        /\ connectBtn' = connectBtn /\ screen' = screen /\ ads' = ads
        /\ startPending' = startPending /\ clicks' = clicks /\ reports' = reports
        /\ dropped' = dropped /\ starting' = starting
    BY DEF StatusHandled, deliveryVars, uiVars, counters
  <1>2. launched \in Nat /\ launched > 0 /\ launched' = launched - 1
    <2>1. launched \in Nat
      BY Zenon DEF FlowInv, Types, NumberTypes
    <2> QED
      BY <2>1, Zenon DEF StatusHandled
  <1>3. delayed \in Seq(Delayed)
    BY Zenon DEF FlowInv, Types, DataTypes
  <1>4. ~ greeting /\ oState # "" /\ Bound
    <2>1. launched # 0
      BY <1>2
    <2>2. ~ greeting /\ (registration = "unbound" \/ registration = "done")
      BY Zenon DEF StatusHandled, MainFree
    <2>3. oState # ""
      BY <2>1, Zenon DEF FlowInv, WayInv
    <2>4. "unbound" \notin {"greeted", "done"}
      OBVIOUS
    <2> QED
      BY <2>2, <2>3, <2>4, Zenon DEF FlowInv, WayInv, Bound
  <1>5. ~ Contains(toClient, "...")
    <2>1. DOMAIN toClient = 1 .. Len(toClient)
      BY DEF FlowInv, DeliveryTypeOK
    <2> QED
      BY <1>4, <2>1, Zenon DEF FlowInv, WayInv, Contains
  \* What each branch does.
  <1>6. /\ delayed' \in Seq(Delayed) /\ Keeps(delayed, delayed') /\ EngineKept
        /\ jobConnect' \in BOOLEAN /\ greeting' \in BOOLEAN
        /\ oState = "..." => /\ greeting' = TRUE /\ delayed' = delayed
                             /\ jobConnect' = jobConnect /\ engine' = engine
        /\ oState # "..." => greeting' = FALSE
        /\ oState = "NOPROCESS" => Contains(delayed', "noprocess")
        /\ oState = "RECONNECTING" => Contains(delayed', "reconnecting")
        /\ oState = "CONNECTED" => GoesOn
    <2>1. jobConnect \in BOOLEAN /\ greeting \in BOOLEAN
      BY Zenon DEF FlowInv, Types, FlagTypes
    <2>2. CASE oState = "NOPROCESS"
      <3>1. /\ delayed' = Append(delayed, "noprocess")
            /\ greeting' = greeting /\ jobConnect' = jobConnect /\ engine' = engine
        BY <2>2 DEF StatusHandled
      <3>2. "noprocess" \in Delayed
        BY DEF Delayed, ShortDelay
      <3>3. /\ Append(delayed, "noprocess") \in Seq(Delayed)
            /\ \A w : Contains(Append(delayed, "noprocess"), w)
                        <=> Contains(delayed, w) \/ w = "noprocess"
        BY <1>3, <3>2, AppendFacts, Zenon
      <3>4. oState # "..." /\ oState # "RECONNECTING" /\ oState # "CONNECTED"
        BY <2>2
      <3> QED
        BY <1>4, <2>1, <3>1, <3>3, <3>4, Zenon DEF Keeps, EngineKept
    <2>3. CASE oState = "..."
      <3>1. /\ greeting' = TRUE /\ delayed' = delayed
            /\ jobConnect' = jobConnect /\ engine' = engine
        BY <2>3 DEF StatusHandled
      <3>2. oState # "NOPROCESS" /\ oState # "RECONNECTING" /\ oState # "CONNECTED"
        BY <2>3
      <3> QED
        BY <1>3, <2>1, <2>3, <3>1, <3>2, Zenon DEF Keeps, EngineKept
    <2>4. CASE oState = "CONNECTED"
      <3>1. oState # "NOPROCESS" /\ oState # "RECONNECTING" /\ oState # "..."
            /\ oState \notin {"WAIT", "OTHER"}
        BY <2>4
      <3>2. showConnectAd(delayed) /\ UNCHANGED greeting
        BY <3>1, Zenon DEF StatusHandled
      <3>3. /\ jobConnect' \in BOOLEAN
            /\ delayed' \in Seq(Delayed) /\ Keeps(delayed, delayed') /\ EngineKept
            /\ \/ jobConnect' = TRUE
               \/ nowClickState = "0" /\ Contains(delayed', "connected")
               \/ nowClickState = "2" /\ disconnectCall
               \/ nowClickState \notin {"0", "2"}
        BY <1>3, <3>2, ConnectAdFacts, Zenon
      <3> QED
        BY <1>4, <2>1, <3>1, <3>2, <3>3, Zenon DEF GoesOn
    <2>5. CASE oState = "RECONNECTING"
      <3>1. oState # "NOPROCESS" /\ oState # "CONNECTED" /\ oState # "..."
            /\ oState \notin {"WAIT", "OTHER"}
        BY <2>5
      <3>2. /\ disconnectCall /\ delayed' = Append(delayed, "reconnecting")
            /\ UNCHANGED <<greeting, jobConnect>>
        BY <3>1, Zenon DEF StatusHandled
      <3>3. greeting' = greeting /\ jobConnect' = jobConnect
        BY <3>2
      <3>4. "reconnecting" \in Delayed
        BY DEF Delayed, ShortDelay
      <3>5. /\ Append(delayed, "reconnecting") \in Seq(Delayed)
            /\ \A w : Contains(Append(delayed, "reconnecting"), w)
                        <=> Contains(delayed, w) \/ w = "reconnecting"
        BY <1>3, <3>4, AppendFacts, Zenon
      <3> QED
        BY <1>4, <2>1, <3>1, <3>2, <3>3, <3>5, DisconnectFacts, Zenon DEF Keeps
    <2>6. CASE oState \in {"WAIT", "OTHER"}
      <3>1. /\ oState # "NOPROCESS" /\ oState # "RECONNECTING" /\ oState # "CONNECTED"
            /\ oState # "..."
        BY <2>6
      <3>2. UNCHANGED <<greeting, jobConnect, delayed, engine>>
        BY <3>1, Zenon DEF StatusHandled
      <3>3. /\ greeting' = greeting /\ jobConnect' = jobConnect /\ delayed' = delayed
            /\ engine' = engine
        BY <3>2
      <3> QED
        BY <1>3, <1>4, <2>1, <3>1, <3>3, Zenon DEF Keeps, EngineKept
    <2>7. oState \in {"NOPROCESS", "...", "CONNECTED", "RECONNECTING", "WAIT", "OTHER"}
      BY <1>4 DEF FlowInv, Types, DataTypes, VpnState
    <2> QED
      BY <2>2, <2>3, <2>4, <2>5, <2>6, <2>7
  <1>7. Types'
    <2>1. launched' \in Nat
      BY <1>2
    <2>2. engine' \in {"down", "up", "stopping", "replacing"}
      BY <1>6 DEF EngineKept, FlowInv, Types, DataTypes
    <2> QED
      BY <1>1, <1>6, <2>1, <2>2, Zenon DEF FlowInv, Types, FlagTypes, DataTypes, NumberTypes
  <1>8. DeliveryTypeOK'
    BY <1>1, Zenon DEF FlowInv, DeliveryTypeOK
  <1>9. /\ Early <=> oState = "..."
        /\ Early' <=> oState = "..."
        /\ Bound'
    BY <1>1, <1>4, <1>5, <1>6, Zenon DEF Early, Bound
  <1>10. engine' = "down" => engine = "down"
    <2>1. engine' = engine \/ engine' = "stopping"
      BY <1>6, Zenon DEF EngineKept
    <2> QED
      BY <2>1
  <1>11. WayInv'
    <2>1. oState = "..." => Quiet'
      BY <1>1, <1>6, <1>9, Zenon DEF FlowInv, WayInv, Quiet
    <2>2. oState' = "..." => launched' > 0 \/ greeting'
      BY <1>1, <1>6, Zenon
    <2>3. oState' # ""
      BY <1>1, <1>4, Zenon
    <2> QED
      BY <1>1, <1>4, <1>9, <1>10, <2>1, <2>2, <2>3, Zenon DEF FlowInv, WayInv, Bound
  <1>12. ClickInv'
    <2>1. CASE isClick \/ dropped
      BY <1>1, <2>1, Zenon DEF FlowInv, ClickInv
    <2>2. CASE ~ isClick /\ ~ dropped
      <3>1. Freed /\ nowClickState # "1"
        BY <2>2, Zenon DEF FlowInv, ClickInv
      <3>2. Freed'
        <4>1. CASE oState \in {"NOPROCESS", "RECONNECTING", "..."}
          <5>1. "noprocess" \in Continuing /\ "reconnecting" \in Continuing
            BY DEF Continuing
          <5> QED
            BY <1>6, <4>1, <5>1, Zenon DEF Freed
        <4>2. CASE oState = "CONNECTED"
          BY <1>1, <1>4, <1>6, <3>1, <4>2, GoesOnFrees, Zenon DEF FlowInv
        <4>3. CASE oState \notin {"NOPROCESS", "RECONNECTING", "...", "CONNECTED"}
          <5>1. CASE EngineMoves
            <6>1. engine \in {"stopping", "replacing"} => engine' \in {"stopping", "replacing"}
              BY <1>6 DEF EngineKept
            <6>2. engine = "up" => engine' = "up" \/ engine' \in {"stopping", "replacing"}
              BY <1>6 DEF EngineKept
            <6>3. EngineMoves'
              BY <1>1, <5>1, <6>1, <6>2, Zenon DEF EngineMoves
            <6> QED
              BY <6>3, Zenon DEF Freed
          <5>2. CASE Pipe
            BY <1>1, <5>2, Zenon DEF Freed, Pipe
          <5>3. CASE \E c \in Continuing : Contains(delayed, c)
            <6>1. \E c \in Continuing : Contains(delayed', c)
              BY <1>6, <5>3, Zenon DEF Keeps
            <6> QED
              BY <6>1, Zenon DEF Freed
          <5>4. oState # "CONNECTED" /\ oState \notin {"NOPROCESS", "RECONNECTING", "..."}
            BY <4>3
          <5> QED
            BY <1>4, <3>1, <5>1, <5>2, <5>3, <5>4, Zenon DEF Freed
        <4>4. oState \in {"NOPROCESS", "RECONNECTING", "...", "CONNECTED"}
              => oState \in {"NOPROCESS", "RECONNECTING", "..."} \/ oState = "CONNECTED"
          OBVIOUS
        <4> QED
          BY <4>1, <4>2, <4>3, <4>4, Zenon
      <3> QED
        BY <1>1, <1>9, <3>1, <3>2, Zenon DEF ClickInv
    <2> QED
      BY <2>1, <2>2
  <1>13. ASSUME CalmInv PROVE CalmInv'
    <2>1. EngineMoves => EngineMoves'
      <3>1. engine \in {"stopping", "replacing"} => engine' \in {"stopping", "replacing"}
        BY <1>6 DEF EngineKept
      <3>2. engine = "up" => engine' = "up" \/ engine' \in {"stopping", "replacing"}
        BY <1>6 DEF EngineKept
      <3> QED
        BY <1>1, <3>1, <3>2, Zenon DEF EngineMoves
    <2>2. Pipe' = Pipe /\ Informed' = Informed
      BY <1>1, Zenon DEF Pipe, Informed, isVpnConnect
    <2>3. registration' = "done" /\ "done" # "greeting" /\ "done" # "greeted"
      <3>1. "done" # "greeting" /\ "done" # "greeted"
        OBVIOUS
      <3> QED
        BY <1>9, <3>1, Zenon DEF Bound
    <2>4. Early' => engine' \in {"up", "replacing"}
      BY <1>6, <1>9, <1>13, Zenon DEF CalmInv
    <2>5. EngineMoves' \/ Pipe' \/ Early' \/ Informed'
      BY <1>4, <1>9, <1>13, <2>1, <2>2, Zenon DEF CalmInv
    <2> QED
      BY <1>9, <2>3, <2>4, <2>5, Zenon DEF CalmInv
  <1>14. StartInv'
    <2>1. ~ starting
      BY Zenon DEF StatusHandled, MainFree
    <2> QED
      BY <1>1, <2>1, Zenon DEF StartInv
  <1> QED
    BY <1>7, <1>8, <1>11, <1>12, <1>13, <1>14, Zenon DEF FlowInv

\* "..." is taken for CONNECTED.
LEMMA DotsReplacedInv ==
    ASSUME FlowInv, DotsReplaced
    PROVE  FlowInv' /\ (CalmInv => CalmInv')
  <1>1. /\ mMostRecentState' = mMostRecentState /\ handler' = handler
        /\ registration' = registration /\ mCallbacks' = mCallbacks /\ toClient' = toClient
        /\ isClick' = isClick /\ isLoading' = isLoading /\ isOptimize' = isOptimize
        /\ nowClickState' = nowClickState /\ layoutConnectInfo' = layoutConnectInfo
        /\ connectBtn' = connectBtn /\ screen' = screen /\ launched' = launched
        /\ jobConnect' = jobConnect /\ ads' = ads
        /\ engine' = engine /\ startPending' = startPending
        /\ clicks' = clicks /\ reports' = reports /\ dropped' = dropped /\ starting' = starting
    BY DEF DotsReplaced, deliveryVars, uiVars, engineVars, counters
  <1>2. /\ greeting /\ greeting' = FALSE /\ oState' = "CONNECTED"
        /\ delayed' = Append(delayed, "greeted")
    BY Zenon DEF DotsReplaced
  <1>3. Bound /\ oState # ""
    BY <1>2, Zenon DEF FlowInv, WayInv
  <1>4. delayed' \in Seq(Delayed) /\ Contains(delayed', "greeted")
    <2>1. "greeted" \in Delayed
      BY DEF Delayed, ShortDelay
    <2>2. delayed \in Seq(Delayed)
      BY Zenon DEF FlowInv, Types, DataTypes
    <2>3. /\ Append(delayed, "greeted") \in Seq(Delayed)
          /\ \A w : Contains(Append(delayed, "greeted"), w)
                      <=> Contains(delayed, w) \/ w = "greeted"
      BY <2>1, <2>2, AppendFacts, Zenon
    <2> QED
      BY <1>2, <2>3, Zenon
  <1>5. ~ Contains(toClient, "...")
    <2>1. DOMAIN toClient = 1 .. Len(toClient)
      BY DEF FlowInv, DeliveryTypeOK
    <2> QED
      BY <1>3, <2>1, Zenon DEF FlowInv, WayInv, Contains
  <1>6. oState' # "" /\ oState' # "..." /\ oState' \in VpnState \cup {"...", ""}
    BY <1>2 DEF VpnState
  <1>7. Bound' /\ Early /\ ~ Early'
    BY <1>1, <1>2, <1>3, <1>5, <1>6, Zenon DEF Early, Bound
  <1>8. DeliveryTypeOK' /\ Types'
    <2>1. DeliveryTypeOK'
      BY <1>1, Zenon DEF FlowInv, DeliveryTypeOK
    <2>2. FlagTypes'
      BY <1>1, <1>2, Zenon DEF FlowInv, Types, FlagTypes
    <2>3. DataTypes'
      BY <1>1, <1>4, <1>6, Zenon DEF FlowInv, Types, DataTypes
    <2>4. NumberTypes'
      BY <1>1, Zenon DEF FlowInv, Types, NumberTypes
    <2> QED
      BY <2>1, <2>2, <2>3, <2>4, Zenon DEF Types
  <1>9. WayInv'
    BY <1>1, <1>3, <1>6, <1>7, Zenon DEF FlowInv, WayInv, Bound
  <1>10. ClickInv'
    <2>1. Freed'
      <3>1. "greeted" \in Continuing
        BY DEF Continuing
      <3> QED
        BY <1>4, <3>1, Zenon DEF Freed
    <2> QED
      BY <1>1, <1>7, <2>1, Zenon DEF FlowInv, ClickInv
  <1>11. ASSUME CalmInv PROVE CalmInv'
    <2>1. engine = "up" \/ engine \in {"stopping", "replacing"}
      <3>1. engine \in {"up", "replacing"}
        BY <1>7, <1>11, Zenon DEF CalmInv
      <3> QED
        BY <3>1
    <2>2. EngineMoves' \/ Informed'
      BY <1>1, <1>2, <2>1, Zenon DEF EngineMoves, Informed, isVpnConnect
    <2>3. registration' = "done" /\ "done" # "greeting" /\ "done" # "greeted"
      <3>1. "done" # "greeting" /\ "done" # "greeted"
        OBVIOUS
      <3> QED
        BY <1>7, <3>1, Zenon DEF Bound
    <2> QED
      BY <1>7, <2>2, <2>3, Zenon DEF CalmInv
  <1>12. StartInv'
    BY <1>1, <1>2, Zenon DEF FlowInv, StartInv
  <1> QED
    BY <1>8, <1>9, <1>10, <1>11, <1>12, Zenon DEF FlowInv

\* A status arrives in the app.
LEMMA NewStatusInv ==
    ASSUME FlowInv, newStatus
    PROVE  FlowInv' /\ (CalmInv => CalmInv')
  <1>1. /\ mMostRecentState' = mMostRecentState /\ handler' = handler
        /\ registration' = registration /\ mCallbacks' = mCallbacks
        /\ isClick' = isClick /\ isLoading' = isLoading /\ isOptimize' = isOptimize
        /\ nowClickState' = nowClickState /\ layoutConnectInfo' = layoutConnectInfo
        /\ connectBtn' = connectBtn /\ screen' = screen /\ greeting' = greeting
        /\ delayed' = delayed /\ jobConnect' = jobConnect /\ ads' = ads
        /\ engine' = engine /\ startPending' = startPending
        /\ clicks' = clicks /\ reports' = reports /\ dropped' = dropped /\ starting' = starting
    BY DEF newStatus, newStatusArrives, uiVars, engineVars, counters
  <1>2. /\ toClient # <<>> /\ toClient' = Tail(toClient)
        /\ oState' = Head(toClient) /\ launched' = launched + 1
    BY Zenon DEF newStatus, newStatusArrives
  <1>3. toClient \in Seq(Status)
    BY Zenon DEF FlowInv, DeliveryTypeOK
  <1>4. /\ Head(toClient) \in Status /\ Tail(toClient) \in Seq(Status)
        /\ Tail(toClient) = <<>> => LastOf(toClient) = Head(toClient)
        /\ Tail(toClient) # <<>> => LastOf(Tail(toClient)) = LastOf(toClient)
        /\ \A w : Contains(toClient, w) <=> Contains(Tail(toClient), w) \/ w = Head(toClient)
    BY <1>2, <1>3, TailFacts, Zenon
  <1>5. launched' \in Nat /\ launched' > 0
    <2>1. launched \in Nat
      BY Zenon DEF FlowInv, Types, NumberTypes
    <2> QED
      BY <1>2, <2>1
  <1>6. oState' \in Status /\ oState' # "" /\ oState' \in VpnState \cup {"...", ""}
    BY <1>2, <1>4 DEF Status, VpnState
  \* Only the first call can carry "...".
  <1>7. \A i \in DOMAIN toClient' : toClient'[i] # "..."
    <2>1. ASSUME NEW i \in DOMAIN Tail(toClient) PROVE Tail(toClient)[i] # "..."
      <3>1. i + 1 \in DOMAIN toClient /\ Tail(toClient)[i] = toClient[i + 1] /\ i + 1 # 1
        BY <1>2, <1>3
      <3> QED
        BY <3>1, Zenon DEF FlowInv, WayInv
    <2> QED
      BY <1>2, <2>1
  <1>8. ~ Contains(toClient', "...")
    <2>1. DOMAIN toClient' = 1 .. Len(toClient')
      BY <1>2, <1>4
    <2> QED
      BY <1>7, <2>1, Zenon DEF Contains
  <1>9. /\ Early' <=> oState' = "..." \/ greeting
        /\ Early' => Early
        /\ Bound' = Bound
    BY <1>1, <1>2, <1>4, <1>8, Zenon DEF Early, Bound
  <1>10. ~ Bound => /\ oState' = "..." /\ registration = "greeted"
                    /\ toClient' = <<>>
    <2>1. ASSUME ~ Bound PROVE registration \in {"greeted", "done"}
      BY <1>2, <2>1, Zenon DEF FlowInv, WayInv
    <2>2. ASSUME ~ Bound PROVE oState' = "..." /\ toClient' = <<>>
      <3>1. \A i \in DOMAIN toClient : i = 1 /\ toClient[i] = "..."
        BY <2>2, Zenon DEF FlowInv, WayInv
      <3>2. Len(toClient) \in Nat /\ DOMAIN toClient = 1 .. Len(toClient)
        BY <1>3
      <3>3. Len(toClient) <= 1
        <4>1. 2 \notin DOMAIN toClient
          <5>1. 2 # 1
            OBVIOUS
          <5> QED
            BY <3>1, <5>1, Zenon
        <4> QED
          BY <3>2, <4>1
      <3>4. toClient[1] = "..." /\ Head(toClient) = toClient[1] /\ Tail(toClient) = <<>>
        BY <1>2, <1>3, <3>1, <3>2, <3>3
      <3> QED
        BY <1>2, <3>4
    <2> QED
      BY <2>1, <2>2 DEF Bound
  <1>11. DeliveryTypeOK' /\ Types'
    <2>1. DeliveryTypeOK'
      <3>1. toClient' \in Seq(Status)
        BY <1>2, <1>4, Zenon
      <3> QED
        BY <1>1, <3>1, Zenon DEF FlowInv, DeliveryTypeOK
    <2>2. FlagTypes'
      BY <1>1, Zenon DEF FlowInv, Types, FlagTypes
    <2>3. DataTypes'
      BY <1>1, <1>6, Zenon DEF FlowInv, Types, DataTypes
    <2>4. NumberTypes'
      BY <1>1, <1>5, Zenon DEF FlowInv, Types, NumberTypes
    <2> QED
      BY <2>1, <2>2, <2>3, <2>4, Zenon DEF Types
  \* Where the newest state is now.
  <1>12. Bound /\ ~ Pipe' => oState' \in {mMostRecentState, "..."}
    BY <1>1, <1>2, <1>4, Zenon DEF FlowInv, WayInv, Pipe
  <1>13. WayInv'
    <2>1. Bound' /\ handler' = <<>> /\ toClient' # <<>>
          => LastOf(toClient') \in {mMostRecentState', "..."}
      BY <1>1, <1>2, <1>4, <1>9, Zenon DEF FlowInv, WayInv
    <2>2. ~ Bound' \/ Early' => Quiet'
      BY <1>1, <1>9, Zenon DEF FlowInv, WayInv, Quiet
    <2>3. ~ Bound' => oState' \in {"", "..."}
      <3>1. ~ Bound' => oState' = "..."
        BY <1>9, <1>10, Zenon
      <3> QED
        BY <3>1
    <2>4. registration' \in {"greeted", "done"}
      <3>1. registration = "greeted" \/ registration = "done"
        BY <1>10, Zenon DEF Bound
      <3> QED
        BY <1>1, <3>1
    <2>5. ~ Bound' => \A i \in DOMAIN toClient' : toClient'[i] = "..."
      <3>1. ASSUME ~ Bound' PROVE DOMAIN toClient' = {}
        <4>1. toClient' = <<>>
          BY <1>9, <1>10, <3>1, Zenon
        <4> QED
          BY <4>1
      <3> QED
        BY <3>1, Zenon
    <2> QED
      BY <1>1, <1>5, <1>6, <1>7, <1>9, <2>1, <2>2, <2>3, <2>4, <2>5, Zenon DEF FlowInv, WayInv
  <1>14. ClickInv'
    <2>1. CASE isClick \/ dropped
      BY <1>1, <2>1, Zenon DEF FlowInv, ClickInv
    <2>2. CASE ~ isClick /\ ~ dropped
      <3>1. Bound /\ nowClickState # "1"
        BY <2>2, Zenon DEF FlowInv, ClickInv
      <3>2. Freed'
        <4>1. CASE Pipe'
          BY <4>1, Zenon DEF Freed
        <4>2. CASE oState' \in {"NOPROCESS", "RECONNECTING", "..."} \/ oState' = "CONNECTED"
          BY <1>5, <4>2, Zenon DEF Freed
        <4>3. CASE ~ Pipe' /\ oState' \notin {"NOPROCESS", "RECONNECTING", "...", "CONNECTED"}
          <5>1. oState' = mMostRecentState
            BY <1>12, <3>1, <4>3
          <5>2. mMostRecentState # "NOPROCESS" /\ mMostRecentState # "CONNECTED"
            BY <4>3, <5>1
          <5>3. engine # "down"
            BY <2>2, <5>2, Zenon DEF FlowInv, WayInv
          <5>4. engine = "up" \/ engine \in {"stopping", "replacing"}
            BY <5>3 DEF FlowInv, Types, DataTypes
          <5>5. EngineMoves'
            BY <1>1, <5>2, <5>4, Zenon DEF EngineMoves
          <5> QED
            BY <5>5, Zenon DEF Freed
        <4>4. oState' \in {"NOPROCESS", "RECONNECTING", "...", "CONNECTED"}
              => oState' \in {"NOPROCESS", "RECONNECTING", "..."} \/ oState' = "CONNECTED"
          OBVIOUS
        <4> QED
          BY <4>1, <4>2, <4>3, <4>4, Zenon
      <3> QED
        BY <1>1, <1>9, <3>1, <3>2, Zenon DEF ClickInv
    <2> QED
      BY <2>1, <2>2
  <1>15. ASSUME CalmInv PROVE CalmInv'
    <2>1. Bound => EngineMoves' \/ Pipe' \/ Early' \/ Informed'
      <3>1. CASE Bound /\ ~ Pipe' /\ oState' # "..."
        <4>1. oState' = mMostRecentState
          BY <1>12, <3>1
        <4>2. Informed'
          BY <1>1, <4>1, Zenon DEF Informed, isVpnConnect
        <4> QED
          BY <4>2
      <3>2. CASE oState' = "..."
        BY <1>9, <3>2, Zenon
      <3> QED
        BY <3>1, <3>2
    <2>2. ~ Bound => Early'
      BY <1>9, <1>10, Zenon
    <2>3. registration = "greeted" => ~ Bound
      BY DEF Bound
    <2> QED
      BY <1>1, <1>9, <1>15, <2>1, <2>2, <2>3, Zenon DEF CalmInv
  <1>16. StartInv'
    BY <1>1, Zenon DEF FlowInv, StartInv
  <1> QED
    BY <1>11, <1>13, <1>14, <1>15, <1>16, Zenon DEF FlowInv

\* Steps of the delivery leave the flow alone.
FlowFrame ==
    /\ UNCHANGED <<oState, starting, launched, greeting, delayed, jobConnect, ads>>
    /\ UNCHANGED <<isClick, isLoading, isOptimize, nowClickState, layoutConnectInfo,
                   connectBtn, screen>>

LEMMA FlowFrameTypes ==
    ASSUME Types, FlowFrame, engine' = engine, startPending' = startPending,
           clicks' = clicks, reports' = reports, dropped' = dropped
    PROVE  FlagTypes' /\ DataTypes' /\ NumberTypes'
  <1>1. /\ oState' = oState /\ launched' = launched /\ greeting' = greeting
        /\ delayed' = delayed /\ jobConnect' = jobConnect /\ ads' = ads
        /\ isClick' = isClick /\ isLoading' = isLoading /\ isOptimize' = isOptimize
        /\ nowClickState' = nowClickState /\ layoutConnectInfo' = layoutConnectInfo
        /\ connectBtn' = connectBtn /\ screen' = screen /\ starting' = starting
    BY DEF FlowFrame
  <1>2. FlagTypes'
    BY <1>1, Zenon DEF Types, FlagTypes
  <1>3. DataTypes'
    BY <1>1, Zenon DEF Types, DataTypes
  <1>4. NumberTypes'
    BY <1>1, Zenon DEF Types, NumberTypes
  <1> QED
    BY <1>2, <1>3, <1>4

\* handleMessage() calls a registered callback with the oldest state.
LEMMA HandleInv ==
    ASSUME FlowInv, handleMessage, FlowFrame,
           engine' = engine, startPending' = startPending, clicks' = clicks, reports' = reports,
           dropped' = dropped
    PROVE  FlowInv' /\ (CalmInv => CalmInv')
  <1>1. /\ oState' = oState /\ launched' = launched /\ greeting' = greeting
        /\ delayed' = delayed /\ jobConnect' = jobConnect /\ ads' = ads
        /\ isClick' = isClick /\ isLoading' = isLoading /\ isOptimize' = isOptimize
        /\ nowClickState' = nowClickState /\ layoutConnectInfo' = layoutConnectInfo
        /\ connectBtn' = connectBtn /\ screen' = screen
        /\ engine' = engine /\ startPending' = startPending
        /\ clicks' = clicks /\ reports' = reports /\ starting' = starting
    BY DEF FlowFrame
  <1>2. /\ mMostRecentState' = mMostRecentState /\ registration' = registration
        /\ mCallbacks' = mCallbacks
    BY DEF handleMessage
  <1>3. /\ handler # <<>> /\ handler' = Tail(handler)
        /\ toClient' = IF mCallbacks THEN Append(toClient, Head(handler)) ELSE toClient
    BY Zenon DEF handleMessage
  <1>4. handler \in Seq(VpnState) /\ toClient \in Seq(Status)
    BY Zenon DEF FlowInv, DeliveryTypeOK
  <1>5. /\ Head(handler) \in VpnState /\ Tail(handler) \in Seq(VpnState)
        /\ Tail(handler) = <<>> => LastOf(handler) = Head(handler)
        /\ Tail(handler) # <<>> => LastOf(Tail(handler)) = LastOf(handler)
    BY <1>3, <1>4, TailFacts, Zenon
  <1>6. Head(handler) \in Status /\ Head(handler) # "..."
    BY <1>5 DEF Status, VpnState
  <1> DEFINE t == Append(toClient, Head(handler))
  <1>7. /\ t \in Seq(Status) /\ t # <<>> /\ LastOf(t) = Head(handler)
        /\ \A w : Contains(t, w) <=> Contains(toClient, w) \/ w = Head(handler)
    BY <1>4, <1>6, AppendFacts, Zenon
  <1>8. \A i \in DOMAIN t : t[i] = "..." => i \in DOMAIN toClient /\ toClient[i] = "..."
    BY <1>4, <1>6
  <1> HIDE DEF t
  <1>9. (mCallbacks /\ toClient' = t) \/ (~ mCallbacks /\ toClient' = toClient)
    BY <1>3, Zenon DEF t
  <1>10. /\ toClient' \in Seq(Status)
         /\ Contains(toClient', "...") <=> Contains(toClient, "...")
         /\ \A i \in DOMAIN toClient' :
               toClient'[i] = "..." => i \in DOMAIN toClient /\ toClient[i] = "..."
    BY <1>4, <1>6, <1>7, <1>8, <1>9, Zenon
  <1>11. Early' = Early /\ Bound' = Bound
    BY <1>1, <1>2, <1>10, Zenon DEF Early, Bound
  <1>12. DeliveryTypeOK' /\ Types'
    <2>1. DeliveryTypeOK'
      BY <1>2, <1>3, <1>5, <1>10, Zenon DEF FlowInv, DeliveryTypeOK
    <2>2. FlagTypes' /\ DataTypes' /\ NumberTypes'
      BY FlowFrameTypes, Zenon DEF FlowInv
    <2> QED
      BY <2>1, <2>2, Zenon DEF Types
  <1>13. mCallbacks <=> Bound
    BY Zenon DEF FlowInv, WayInv
  <1>14. Bound => toClient' # <<>> /\ Pipe'
    BY <1>7, <1>9, <1>13, Zenon DEF Pipe
  <1>15. WayInv'
    <2>1. handler' # <<>> => LastOf(handler') = mMostRecentState'
      BY <1>2, <1>3, <1>5, Zenon DEF FlowInv, WayInv
    <2>2. Bound' /\ handler' = <<>> /\ toClient' # <<>>
          => LastOf(toClient') \in {mMostRecentState', "..."}
      <3>1. ASSUME Bound, handler' = <<>> PROVE LastOf(toClient') = mMostRecentState'
        BY <1>2, <1>3, <1>5, <1>7, <1>9, <1>13, <3>1, Zenon DEF FlowInv, WayInv
      <3> QED
        BY <1>11, <3>1
    <2>3. ~ Bound' => toClient' = toClient
      BY <1>9, <1>11, <1>13, Zenon
    <2>4. registration' \notin {"greeted", "done"} => toClient' = <<>> /\ oState' = ""
      <3>1. registration \notin {"greeted", "done"} => ~ Bound
        BY DEF Bound
      <3> QED
        BY <1>1, <1>2, <1>9, <1>13, <3>1, Zenon DEF FlowInv, WayInv
    <2>5. ~ Bound' => \A i \in DOMAIN toClient' : toClient'[i] = "..."
      BY <1>11, <2>3, Zenon DEF FlowInv, WayInv
    <2>6. ~ Bound' \/ Early' => Quiet'
      BY <1>1, <1>11, Zenon DEF FlowInv, WayInv, Quiet
    <2>7. \A i \in DOMAIN toClient' : toClient'[i] = "..." => i = 1 /\ oState' = ""
      BY <1>1, <1>10, Zenon DEF FlowInv, WayInv
    <2> QED
      BY <1>1, <1>2, <1>11, <2>1, <2>2, <2>4, <2>5, <2>6, <2>7, Zenon DEF FlowInv, WayInv
  <1>16. ClickInv'
    BY <1>1, <1>11, <1>14, Zenon DEF FlowInv, ClickInv, Freed
  <1>17. CalmInv => CalmInv'
    BY <1>1, <1>2, <1>11, <1>14, Zenon DEF CalmInv
  <1> QED
    BY <1>1, <1>12, <1>15, <1>16, <1>17, Zenon DEF FlowInv, StartInv

\* registerStatusCallback(), which the app has called once.
LEMMA RegisterInv ==
    ASSUME FlowInv, RegisterCalled \/ registerStatusCallback, FlowFrame,
           engine' = engine, startPending' = startPending, clicks' = clicks, reports' = reports,
           dropped' = dropped
    PROVE  FlowInv' /\ (CalmInv => CalmInv')
  <1>1. /\ oState' = oState /\ launched' = launched /\ greeting' = greeting
        /\ delayed' = delayed /\ jobConnect' = jobConnect /\ ads' = ads
        /\ isClick' = isClick /\ isLoading' = isLoading /\ isOptimize' = isOptimize
        /\ nowClickState' = nowClickState /\ layoutConnectInfo' = layoutConnectInfo
        /\ connectBtn' = connectBtn /\ screen' = screen
        /\ engine' = engine /\ startPending' = startPending
        /\ clicks' = clicks /\ reports' = reports /\ starting' = starting
    BY DEF FlowFrame
  <1>2. mMostRecentState' = mMostRecentState /\ handler' = handler
    BY DEF RegisterCalled, registerStatusCallback, RegisterTests, RegisterGreets, RegisterAdds
  <1>3. ~ Bound
    BY DEF RegisterCalled, registerStatusCallback, RegisterTests, RegisterGreets, RegisterAdds,
           Bound
  <1>4. /\ \A i \in DOMAIN toClient : toClient[i] = "..."
        /\ oState \in {"", "..."} /\ ~ greeting /\ Quiet /\ ~ mCallbacks
        /\ ~ (~ isClick /\ ~ dropped)
    BY <1>3, Zenon DEF FlowInv, WayInv, ClickInv
  <1>5. ClickInv'
    BY <1>1, <1>4, Zenon DEF FlowInv, ClickInv
  <1>6. Types' /\ Quiet'
    <2>1. FlagTypes' /\ DataTypes' /\ NumberTypes'
      BY FlowFrameTypes, Zenon DEF FlowInv
    <2> QED
      BY <1>1, <1>4, <2>1, Zenon DEF Types, Quiet
  <1>7. StartInv'
    BY <1>1, Zenon DEF FlowInv, StartInv
  <1>8. CASE RegisterCalled \/ RegisterTests
    <2>1. /\ mCallbacks' = mCallbacks /\ toClient' = toClient
          /\ registration \in {"unbound", "called"}
      BY <1>8 DEF RegisterCalled, RegisterTests
    <2>2. registration' = "called" \/ registration' = "greeting" \/ registration' = "greeted"
      BY <1>8 DEF RegisterCalled, RegisterTests
    <2>3. toClient = <<>> /\ oState = ""
      <3>1. registration \notin {"greeted", "done"}
        BY <2>1
      <3> QED
        BY <3>1, Zenon DEF FlowInv, WayInv
    <2>4. ~ Bound' /\ registration' \in {"unbound", "called", "greeting", "greeted", "done"}
      BY <2>2 DEF Bound
    <2>5. Early' = Early
      BY <1>1, <2>1, Zenon DEF Early
    <2>6. DeliveryTypeOK'
      BY <1>2, <2>1, <2>4, Zenon DEF FlowInv, DeliveryTypeOK
    <2>7. WayInv'
      BY <1>1, <1>2, <1>3, <1>6, <2>1, <2>3, <2>4, <2>5, Zenon DEF FlowInv, WayInv
    <2>8. ASSUME CalmInv PROVE CalmInv'
      <3>1. /\ registration' = "greeting" => mMostRecentState = "CONNECTED"
            /\ registration' = "greeted" => mMostRecentState # "CONNECTED"
        BY <1>8 DEF RegisterCalled, RegisterTests
      <3> QED
        BY <1>1, <1>2, <1>3, <2>4, <2>5, <2>8, <3>1, Zenon DEF CalmInv
    <2> QED
      BY <1>5, <1>6, <1>7, <2>6, <2>7, <2>8, Zenon DEF FlowInv
  <1>9. CASE RegisterGreets
    <2>1. /\ mCallbacks' = mCallbacks /\ toClient' = Append(toClient, "...")
          /\ registration = "greeting" /\ registration' = "greeted"
      BY <1>9 DEF RegisterGreets
    <2>2. toClient = <<>> /\ oState = ""
      <3>1. registration \notin {"greeted", "done"}
        BY <2>1
      <3> QED
        BY <3>1, Zenon DEF FlowInv, WayInv
    <2>3. toClient' = <<"...">>
      <3>1. Append(<<>>, "...") = <<"...">>
        OBVIOUS
      <3> QED
        BY <2>1, <2>2, <3>1, Zenon
    <2>4. /\ toClient' \in Seq(Status) /\ toClient' # <<>>
          /\ Contains(toClient', "...")
          /\ \A i \in DOMAIN toClient' : i = 1 /\ toClient'[i] = "..."
      BY <2>3 DEF Status, Contains
    <2>5. ~ Bound' /\ registration' \in {"unbound", "called", "greeting", "greeted", "done"}
          /\ registration' \in {"greeted", "done"} /\ "greeted" # "greeting"
      BY <2>1 DEF Bound
    <2>6. Early'
      BY <2>4, Zenon DEF Early
    <2>7. DeliveryTypeOK'
      BY <1>2, <2>1, <2>4, <2>5, Zenon DEF FlowInv, DeliveryTypeOK
    <2>8. WayInv'
      BY <1>1, <1>2, <1>3, <1>4, <1>6, <2>1, <2>2, <2>4, <2>5, Zenon DEF FlowInv, WayInv
    <2>9. ASSUME CalmInv PROVE CalmInv'
      <3>1. mMostRecentState = "CONNECTED" /\ mMostRecentState # "NOPROCESS"
        <4>1. mMostRecentState = "CONNECTED"
          BY <2>1, <2>9, Zenon DEF CalmInv
        <4> QED
          BY <4>1
      <3>2. engine = "up"
        BY <1>3, <2>9, <3>1, Zenon DEF CalmInv
      <3>3. engine' \in {"up", "replacing"}
        BY <1>1, <3>2
      <3> QED
        BY <1>1, <1>2, <1>3, <2>1, <2>5, <2>6, <2>9, <3>3, Zenon DEF CalmInv
    <2> QED
      BY <1>5, <1>6, <1>7, <2>7, <2>8, <2>9, Zenon DEF FlowInv
  <1>10. CASE RegisterAdds
    <2>1. /\ mCallbacks' = TRUE /\ toClient' = toClient
          /\ registration = "greeted" /\ registration' = "done"
      BY <1>10 DEF RegisterAdds
    <2>2. /\ Bound' /\ registration' \in {"unbound", "called", "greeting", "greeted", "done"}
          /\ registration' \in {"greeted", "done"}
          /\ registration' # "greeting" /\ registration' # "greeted"
      BY <2>1 DEF Bound
    <2>3. Early' = Early
      BY <1>1, <2>1, Zenon DEF Early
    <2>4. TRUE \in BOOLEAN
      OBVIOUS
    <2>5. DeliveryTypeOK'
      BY <1>2, <2>1, <2>2, <2>4, Zenon DEF FlowInv, DeliveryTypeOK
    <2>6. toClient # <<>> => LastOf(toClient) \in {mMostRecentState', "..."}
      <3>1. toClient \in Seq(Status)
        BY Zenon DEF FlowInv, DeliveryTypeOK
      <3>2. toClient # <<>> => Len(toClient) \in DOMAIN toClient
        BY <3>1
      <3>3. toClient # <<>> => LastOf(toClient) = "..."
        BY <1>4, <3>2, Zenon DEF LastOf
      <3> QED
        BY <3>3
    <2>7. WayInv'
      BY <1>1, <1>2, <1>6, <2>1, <2>2, <2>3, <2>6, Zenon DEF FlowInv, WayInv
    <2>8. ASSUME CalmInv PROVE CalmInv'
      <3>1. mMostRecentState # "CONNECTED" => Informed'
        <4>1. oState # "CONNECTED"
          BY <1>4
        <4> QED
          BY <1>1, <1>2, <4>1, Zenon DEF Informed, isVpnConnect
      <3>2. mMostRecentState = "CONNECTED" => Early
        BY <2>1, <2>8, Zenon DEF CalmInv
      <3> QED
        BY <1>1, <2>2, <2>3, <2>8, <3>1, <3>2, Zenon DEF CalmInv
    <2> QED
      BY <1>5, <1>6, <1>7, <2>5, <2>7, <2>8, Zenon DEF FlowInv
  <1> QED
    BY <1>8, <1>9, <1>10 DEF registerStatusCallback

-----------------------------------------------------------------------------
(* The engine's steps.                                                     *)

\* A state published while the callback is there is on its way to the app.
LEMMA PublishInv ==
    ASSUME FlowInv, NEW s \in VpnState, updateStateString(s), FlowFrame,
           startPending' \in Nat, engine' \in {"down", "up", "stopping", "replacing"},
           dropped' = dropped \/ dropped' = TRUE,
           engine' = "down" => s # "CONNECTED" /\ (dropped' \/ s = "NOPROCESS"),
           clicks' \in 0 .. MaxClicks, reports' \in 0 .. MaxReports
    PROVE  FlowInv' /\ Early' = Early /\ Bound' = Bound /\ registration' = registration /\ Pipe'
  <1>1. /\ oState' = oState /\ launched' = launched /\ greeting' = greeting
        /\ delayed' = delayed /\ jobConnect' = jobConnect /\ ads' = ads
        /\ isClick' = isClick /\ isLoading' = isLoading /\ isOptimize' = isOptimize
        /\ nowClickState' = nowClickState /\ layoutConnectInfo' = layoutConnectInfo
        /\ connectBtn' = connectBtn /\ screen' = screen /\ starting' = starting
    BY DEF FlowFrame
  <1>2. /\ mMostRecentState' = s /\ handler' = Append(handler, s)
        /\ registration' = registration /\ mCallbacks' = mCallbacks /\ toClient' = toClient
    BY DEF updateStateString
  <1>3. handler' \in Seq(VpnState) /\ handler' # <<>> /\ LastOf(handler') = s
    <2>1. handler \in Seq(VpnState)
      BY Zenon DEF FlowInv, DeliveryTypeOK
    <2>2. /\ Append(handler, s) \in Seq(VpnState) /\ Append(handler, s) # <<>>
          /\ LastOf(Append(handler, s)) = s
      BY <2>1, AppendFacts
    <2> QED
      BY <1>2, <2>2, Zenon
  <1>4. Early' = Early /\ Bound' = Bound /\ Pipe'
    BY <1>1, <1>2, <1>3, Zenon DEF Early, Bound, Pipe
  <1>5. DeliveryTypeOK'
    BY <1>2, <1>3, Zenon DEF FlowInv, DeliveryTypeOK
  <1>6. FlagTypes' /\ DataTypes' /\ NumberTypes'
    <2>1. FlagTypes'
      <3>1. dropped' \in BOOLEAN
        BY Zenon DEF FlowInv, Types, FlagTypes
      <3> QED
        BY <1>1, <3>1, Zenon DEF FlowInv, Types, FlagTypes
    <2>2. DataTypes'
      BY <1>1, Zenon DEF FlowInv, Types, DataTypes
    <2>3. NumberTypes'
      BY <1>1, Zenon DEF FlowInv, Types, NumberTypes
    <2> QED
      BY <2>1, <2>2, <2>3
  <1>7. Quiet' = Quiet
    BY <1>1, Zenon DEF Quiet
  <1>8. WayInv'
    BY <1>1, <1>2, <1>3, <1>4, <1>7, Zenon DEF FlowInv, WayInv
  <1>9. ClickInv'
    BY <1>1, <1>4, Zenon DEF FlowInv, ClickInv, Freed
  <1> QED
    BY <1>1, <1>2, <1>4, <1>5, <1>6, <1>8, <1>9, Zenon DEF FlowInv, Types, StartInv

\* Nothing the engine publishes once the callback is there disturbs CalmInv.
LEMMA PublishCalm ==
    ASSUME CalmInv, Bound, Early' = Early, Bound' = Bound, registration' = registration, Pipe',
           engine \in {"up", "replacing"} => engine' \in {"up", "replacing"}
    PROVE  CalmInv'
  <1>1. registration' # "greeting" /\ registration' # "greeted"
    BY DEF Bound
  <1> QED
    BY <1>1, Zenon DEF CalmInv

LEMMA EngineInv ==
    ASSUME FlowInv, EngineStarts \/ EngineExits \/ EngineConnects \/ EngineReports
    PROVE  FlowInv' /\ (CalmInv /\ ~ Drops /\ Undisturbed' => CalmInv')
  <1>1. /\ startPending \in Nat /\ clicks \in 0 .. MaxClicks /\ reports \in 0 .. MaxReports
        /\ engine \in {"down", "up", "stopping", "replacing"}
    BY Zenon DEF FlowInv, Types, DataTypes, NumberTypes
  <1>2. CASE EngineStarts
    <2>1. /\ startPending > 0 /\ startPending' = startPending - 1
          /\ updateStateString("OTHER")
      BY <1>2, Zenon DEF EngineStarts
    <2>2. /\ FlowFrame
          /\ clicks' = clicks /\ reports' = reports
      BY <1>2 DEF EngineStarts, FlowFrame, uiVars, jobVars, counters
    <2>3. /\ startPending' \in Nat
          /\ "OTHER" \in VpnState /\ "OTHER" # "CONNECTED"
      BY <1>1, <2>1 DEF VpnState
    <2>4. /\ engine' \in {"down", "up", "stopping", "replacing"}
          /\ \/ engine' \in {"up", "replacing"} /\ engine' # "down" /\ dropped' = dropped
             \/ ~ Smooth /\ dropped' = TRUE
      <3>1. CASE engine' = (IF engine = "down" THEN "up" ELSE "replacing") /\ dropped' = dropped
        BY <3>1
      <3>2. CASE ~ Smooth /\ engine' \in {engine, "stopping"} /\ dropped' = TRUE
        <4>1. engine' \in {"down", "up", "stopping", "replacing"}
          BY <1>1, <3>2
        <4> QED
          BY <3>2, <4>1, Zenon
      <3> QED
        BY <1>2, <3>1, <3>2, Zenon DEF EngineStarts
    <2>5. FlowInv' /\ Early' = Early /\ Bound' = Bound /\ registration' = registration /\ Pipe'
      <3>1. /\ dropped' = dropped \/ dropped' = TRUE
            /\ engine' = "down" => "OTHER" # "CONNECTED" /\ (dropped' \/ "OTHER" = "NOPROCESS")
        BY <2>3, <2>4, Zenon
      <3> QED
        BY <1>1, <2>1, <2>2, <2>3, <2>4, <3>1, PublishInv, Zenon
    <2>6. CalmInv => Bound
      <3>1. startPending # 0
        BY <1>1, <2>1
      <3> QED
        BY <3>1, Zenon DEF CalmInv
    <2>7. Undisturbed' => engine' \in {"up", "replacing"}
      BY <2>4, Zenon DEF Undisturbed
    <2> QED
      BY <2>5, <2>6, <2>7, PublishCalm, Zenon
  <1>3. CASE EngineExits
    <2>1. /\ engine \in {"stopping", "replacing"}
          /\ engine' = (IF engine = "replacing" THEN "up" ELSE "down")
          /\ updateStateString("NOPROCESS")
      BY <1>3, Zenon DEF EngineExits
    <2>2. /\ FlowFrame
          /\ startPending' = startPending /\ clicks' = clicks /\ reports' = reports
          /\ dropped' = dropped
      BY <1>3 DEF EngineExits, FlowFrame, uiVars, jobVars, counters
    <2>3. /\ engine' \in {"down", "up", "stopping", "replacing"} /\ "NOPROCESS" \in VpnState
          /\ engine \in {"up", "replacing"} => engine' \in {"up", "replacing"}
          /\ engine # "up" /\ engine # "down" /\ "NOPROCESS" # "CONNECTED"
      BY <1>1, <2>1 DEF VpnState
    <2>4. FlowInv' /\ Early' = Early /\ Bound' = Bound /\ registration' = registration /\ Pipe'
      BY <1>1, <2>1, <2>2, <2>3, PublishInv, Zenon
    <2>5. CalmInv => Bound
      BY <2>3, Zenon DEF CalmInv
    <2> QED
      BY <2>3, <2>4, <2>5, PublishCalm, Zenon
  <1>4. CASE EngineConnects
    <2>1. engine = "up" /\ mMostRecentState # "CONNECTED" /\ updateStateString("CONNECTED")
      BY <1>4, Zenon DEF EngineConnects
    <2>2. /\ FlowFrame
          /\ engine' = engine /\ startPending' = startPending
          /\ clicks' = clicks /\ reports' = reports /\ dropped' = dropped
      BY <1>4 DEF EngineConnects, FlowFrame, uiVars, jobVars, engineVars, counters
    <2>3. engine' # "down" /\ "CONNECTED" \in VpnState /\ "up" # "down"
      BY <2>1, <2>2 DEF VpnState
    <2>4. FlowInv' /\ Early' = Early /\ Bound' = Bound /\ registration' = registration /\ Pipe'
      BY <1>1, <2>1, <2>2, <2>3, PublishInv, Zenon
    <2>5. CalmInv => Bound
      BY <2>1, <2>3, Zenon DEF CalmInv
    <2> QED
      BY <2>2, <2>4, <2>5, PublishCalm, Zenon
  <1>5. CASE EngineReports
    <2>1. engine = "up" /\ reports < MaxReports /\ reports' = reports + 1
      BY <1>5, Zenon DEF EngineReports
    <2>2. /\ FlowFrame
          /\ startPending' = startPending /\ clicks' = clicks /\ dropped' = dropped
      BY <1>5 DEF EngineReports, FlowFrame, uiVars, jobVars
    <2>3. PICK s \in VpnState :
            /\ updateStateString(s)
            /\ engine' = engine \/ (engine' = "down" /\ s = "NOPROCESS")
            /\ ~ Drops => /\ engine' = engine
                          /\ s = "WAIT" \/ mMostRecentState # "CONNECTED"
      <3>1. CASE Drops /\ updateStateString("NOPROCESS") /\ engine' = "down"
        <4>1. "NOPROCESS" \in VpnState
          BY DEF VpnState
        <4> QED
          BY <3>1, <4>1, Zenon
      <3>2. CASE ~ (Drops /\ updateStateString("NOPROCESS") /\ engine' = "down")
        <4>1. /\ \E s \in {"WAIT", "OTHER", "RECONNECTING"} :
                    /\ s = "RECONNECTING" => Drops
                    /\ s = "OTHER" => Drops \/ mMostRecentState # "CONNECTED"
                    /\ updateStateString(s)
              /\ UNCHANGED engine
          BY <1>5, <3>2, Zenon DEF EngineReports
        <4>2. PICK s \in {"WAIT", "OTHER", "RECONNECTING"} :
                    /\ s = "RECONNECTING" => Drops
                    /\ s = "OTHER" => Drops \/ mMostRecentState # "CONNECTED"
                    /\ updateStateString(s)
          BY <4>1, Zenon
        <4>3. s \in VpnState /\ (s = "WAIT" \/ s = "OTHER" \/ s = "RECONNECTING")
          BY <4>2 DEF VpnState
        <4>4. ~ Drops => s = "WAIT" \/ mMostRecentState # "CONNECTED"
          BY <4>2, <4>3, Zenon
        <4>5. engine' = engine
          BY <4>1, Zenon
        <4> QED
          BY <4>2, <4>3, <4>4, <4>5, Zenon
      <3> QED
        BY <3>1, <3>2
    <2>4. /\ reports' \in 0 .. MaxReports
          /\ engine' \in {"down", "up", "stopping", "replacing"}
          /\ engine' = "down" => s = "NOPROCESS" /\ s # "CONNECTED"
      <3>1. reports' \in 0 .. MaxReports
        BY <1>1, <2>1, FlowAssumption
      <3>2. engine' = "up" \/ (engine' = "down" /\ s = "NOPROCESS")
        BY <2>1, <2>3, Zenon
      <3> QED
        BY <3>1, <3>2
    <2>5. startPending' \in Nat /\ clicks' \in 0 .. MaxClicks
      BY <1>1, <2>2, Zenon
    <2>6. FlowInv' /\ Early' = Early /\ Bound' = Bound /\ registration' = registration /\ Pipe'
      BY <2>2, <2>3, <2>4, <2>5, PublishInv, Zenon
    <2>7. CalmInv /\ ~ Drops => Bound
      <3>1. ~ (mMostRecentState = "CONNECTED" /\ s = "WAIT")
        BY <2>3, Zenon DEF updateStateString, Ignored
      <3>2. "up" # "down"
        OBVIOUS
      <3> QED
        BY <2>1, <2>3, <3>1, <3>2, Zenon DEF CalmInv
    <2> QED
      BY <2>3, <2>6, <2>7, PublishCalm, Zenon
  <1> QED
    BY <1>2, <1>3, <1>4, <1>5

-----------------------------------------------------------------------------
(* The theorems.                                                           *)

LEMMA InitInv ==
    ASSUME Init
    PROVE  FlowInv /\ CalmInv
  <1>1. /\ mMostRecentState \in {"NOPROCESS", "CONNECTED"} /\ handler = <<mMostRecentState>>
        /\ registration = "unbound" /\ mCallbacks = FALSE /\ toClient = <<>>
        /\ oState = "" /\ starting = FALSE /\ launched = 0 /\ greeting = FALSE /\ delayed = <<>>
        /\ jobConnect = FALSE /\ ads = 0 /\ screen = FALSE
        /\ isClick = TRUE /\ isLoading = FALSE /\ isOptimize = FALSE /\ nowClickState = "1"
        /\ layoutConnectInfo = FALSE /\ connectBtn = FALSE
        /\ engine = IF mMostRecentState = "CONNECTED" THEN "up" ELSE "down"
        /\ startPending = 0 /\ clicks = 0 /\ reports = 0
        /\ dropped = FALSE
    BY Zenon DEF Init, DeliveryInit
  <1>2. /\ mMostRecentState \in VpnState /\ handler \in Seq(VpnState) /\ toClient \in Seq(Status)
        /\ LastOf(handler) = mMostRecentState /\ delayed \in Seq(Delayed)
        /\ DOMAIN toClient = {} /\ ~ Contains(toClient, "...")
    <2>1. \A s \in VpnState : <<s>> \in Seq(VpnState) /\ LastOf(<<s>>) = s
      BY DEF LastOf
    <2>2. /\ <<>> \in Seq(Status) /\ <<>> \in Seq(Delayed) /\ DOMAIN <<>> = {}
          /\ ~ Contains(<<>>, "...")
      BY DEF Contains
    <2>3. mMostRecentState \in VpnState
      <3>1. mMostRecentState \in {"NOPROCESS", "CONNECTED"}
        BY <1>1, Zenon
      <3> QED
        BY <3>1 DEF VpnState
    <2>4. handler \in Seq(VpnState) /\ LastOf(handler) = mMostRecentState
      BY <1>1, <2>1, <2>3, Zenon
    <2>5. toClient \in Seq(Status) /\ DOMAIN toClient = {} /\ ~ Contains(toClient, "...")
      BY <1>1, <2>2, Zenon
    <2>6. delayed \in Seq(Delayed)
      BY <1>1, <2>2, Zenon
    <2> QED
      BY <2>3, <2>4, <2>5, <2>6, Zenon
  <1>3. /\ registration \in {"unbound", "called", "greeting", "greeted", "done"}
        /\ registration # "done" /\ registration # "greeting" /\ registration # "greeted"
        /\ nowClickState \in {"0", "1", "2"} /\ nowClickState # "2"
        /\ oState \in VpnState \cup {"...", ""} /\ oState # "..." /\ oState \in {"", "..."}
        /\ launched \in Nat /\ ads \in Nat /\ startPending \in Nat
        /\ clicks \in 0 .. MaxClicks /\ reports \in 0 .. MaxReports
    <2>1. /\ registration = "unbound" /\ nowClickState = "1" /\ oState = ""
          /\ launched = 0 /\ ads = 0 /\ startPending = 0 /\ clicks = 0 /\ reports = 0
      BY <1>1, Zenon
    <2>2. /\ launched \in Nat /\ ads \in Nat /\ startPending \in Nat
          /\ clicks \in 0 .. MaxClicks /\ reports \in 0 .. MaxReports
      <3>1. MaxClicks \in Nat /\ MaxReports \in Nat
        BY FlowAssumption, Zenon
      <3>2. 0 \in 0 .. MaxClicks /\ 0 \in 0 .. MaxReports /\ 0 \in Nat
        BY <3>1
      <3> QED
        BY <2>1, <3>2, Zenon
    <2>3. /\ registration \in {"unbound", "called", "greeting", "greeted", "done"}
          /\ registration # "done" /\ registration # "greeting" /\ registration # "greeted"
          /\ nowClickState \in {"0", "1", "2"} /\ nowClickState # "2"
          /\ oState \in VpnState \cup {"...", ""} /\ oState # "..." /\ oState \in {"", "..."}
      <3>1. /\ registration = "unbound" /\ nowClickState = "1" /\ oState = ""
        BY <2>1, Zenon
      <3> QED
        BY <3>1
    <2> QED
      BY <2>2, <2>3, Zenon
  <1>4. /\ engine \in {"down", "up", "stopping", "replacing"}
        /\ \/ engine = "up" /\ mMostRecentState = "CONNECTED"
           \/ engine = "down" /\ mMostRecentState = "NOPROCESS"
        /\ engine = "down" => mMostRecentState = "NOPROCESS" /\ mMostRecentState # "CONNECTED"
    <2>1. /\ mMostRecentState \in {"NOPROCESS", "CONNECTED"}
          /\ engine = IF mMostRecentState = "CONNECTED" THEN "up" ELSE "down"
      BY <1>1, Zenon
    <2> QED
      BY <2>1
  <1>5. DeliveryTypeOK /\ FlagTypes /\ DataTypes /\ NumberTypes
    <2>1. DeliveryTypeOK
      BY <1>1, <1>2, <1>3, Zenon DEF DeliveryTypeOK
    <2>2. FlagTypes
      BY <1>1, Zenon DEF FlagTypes
    <2>3. DataTypes /\ NumberTypes
      BY <1>2, <1>3, <1>4, Zenon DEF DataTypes, NumberTypes
    <2> QED
      BY <2>1, <2>2, <2>3
  <1>6. ~ Early /\ Quiet /\ ~ Bound
    BY <1>1, <1>2, <1>3, Zenon DEF Early, Quiet, Bound
  <1>7. WayInv
    BY <1>1, <1>2, <1>3, <1>4, <1>6, Zenon DEF WayInv
  <1>8. ClickInv
    BY <1>1, Zenon DEF ClickInv
  <1>9. CalmInv
    BY <1>1, <1>3, <1>4, <1>6, Zenon DEF CalmInv
  <1>10. StartInv
    BY <1>1, Zenon DEF StartInv
  <1> QED
    BY <1>5, <1>7, <1>8, <1>9, <1>10, Zenon DEF FlowInv, Types

LEMMA NextInv ==
    ASSUME FlowInv, [Next]_vars
    PROVE  FlowInv' /\ (CalmInv /\ ~ Drops /\ Undisturbed' => CalmInv')
  <1>1. Types /\ WayInv /\ StartInv /\ ClickInv
    BY Zenon DEF FlowInv
  <1>2. CASE DeliveryMoves
    <2>1. DeliveryStep /\ FlowFrame /\ engine' = engine /\ startPending' = startPending
          /\ clicks' = clicks /\ reports' = reports /\ dropped' = dropped
      BY <1>2 DEF DeliveryMoves, FlowFrame, uiVars, jobVars, engineVars, counters
    <2> QED
      BY <2>1, HandleInv, RegisterInv, Zenon DEF DeliveryStep
  <1>3. CASE onServiceConnected
    <2>1. RegisterCalled /\ FlowFrame /\ engine' = engine /\ startPending' = startPending
          /\ clicks' = clicks /\ reports' = reports /\ dropped' = dropped
      BY <1>3 DEF onServiceConnected, FlowFrame, uiVars, jobVars, engineVars, counters
    <2> QED
      BY <2>1, RegisterInv, Zenon
  <1>4. CASE newStatus \/ StatusHandled \/ DotsReplaced
    BY <1>4, NewStatusInv, StatusHandledInv, DotsReplacedInv, Zenon
  <1>5. CASE Continuation
    BY <1>1, <1>5, NoProcessMoves, StopTimeMoves, OptimizedMoves, ConnectFinishMoves,
       GreetedMoves, ReconnectingMoves, ResumeWaitMoves, AppMovesInv, Zenon DEF Continuation
  <1>6. CASE DisconnectDelayEnds \/ AdLoopEnds \/ AdDismissed
    BY <1>1, <1>6, DisconnectDelayMoves, AdLoopMoves, AdDismissedMoves, AppMovesInv, Zenon
  <1>7. CASE clickUp \/ ScreenOpened \/ ScreenReturns \/ disConnectClick \/ optimizeClick
    BY <1>1, <1>7, ClickUpMoves, ScreenOpenedMoves, ScreenReturnsMoves, DisConnectClickMoves,
       OptimizeClickMoves, AppMovesInv, Zenon
  <1>8. CASE EngineStarts \/ EngineExits \/ EngineConnects \/ EngineReports
    BY <1>8, EngineInv, Zenon
  <1>9. CASE UNCHANGED vars
    <2>1. /\ mMostRecentState' = mMostRecentState /\ handler' = handler
          /\ registration' = registration /\ mCallbacks' = mCallbacks /\ toClient' = toClient
          /\ oState' = oState /\ launched' = launched /\ greeting' = greeting
          /\ delayed' = delayed /\ jobConnect' = jobConnect /\ ads' = ads
          /\ isClick' = isClick /\ isLoading' = isLoading /\ isOptimize' = isOptimize
          /\ nowClickState' = nowClickState /\ layoutConnectInfo' = layoutConnectInfo
          /\ connectBtn' = connectBtn /\ screen' = screen
          /\ engine' = engine /\ startPending' = startPending
          /\ clicks' = clicks /\ reports' = reports /\ dropped' = dropped /\ starting' = starting
      BY <1>9 DEF vars, deliveryVars, uiVars, jobVars, engineVars, counters
    <2>2. /\ Early' = Early /\ Bound' = Bound /\ Pipe' = Pipe /\ Quiet' = Quiet
          /\ EngineMoves' = EngineMoves /\ Informed' = Informed
      BY <2>1, Zenon DEF Early, Bound, Pipe, Quiet, EngineMoves, Informed, isVpnConnect
    <2>3. Freed' = Freed
      BY <2>1, <2>2, Zenon DEF Freed
    <2>4. DeliveryTypeOK'
      BY <2>1, Zenon DEF FlowInv, DeliveryTypeOK
    <2>5. Types'
      <3>1. FlagTypes'
        BY <1>1, <2>1, Zenon DEF Types, FlagTypes
      <3>2. DataTypes' /\ NumberTypes'
        BY <1>1, <2>1, Zenon DEF Types, DataTypes, NumberTypes
      <3> QED
        BY <3>1, <3>2, Zenon DEF Types
    <2>6. WayInv' /\ StartInv' /\ ClickInv'
      BY <1>1, <2>1, <2>2, <2>3, Zenon DEF WayInv, StartInv, ClickInv
    <2>7. CalmInv => CalmInv'
      BY <2>1, <2>2, Zenon DEF CalmInv
    <2> QED
      BY <2>4, <2>5, <2>6, <2>7, Zenon DEF FlowInv
  <1>10. CASE startUpGoesOn
    BY <1>1, <1>10, StartUpGoesOnMoves, AppMovesInv, Zenon
  <1> QED
    BY <1>2, <1>3, <1>4, <1>5, <1>6, <1>7, <1>8, <1>9, <1>10, Zenon DEF Next, AppStep

\* What was abandoned stays so.
LEMMA DroppedStays ==
    ASSUME FlowInv, [Next]_vars, dropped
    PROVE  dropped'
  <1>1. Types /\ WayInv /\ StartInv /\ ClickInv
    BY Zenon DEF FlowInv
  <1>2. CASE AppMoves
    BY <1>2, Zenon DEF AppMoves
  <1>3. CASE startUpGoesOn \/ Continuation
    BY <1>1, <1>2, <1>3, StartUpGoesOnMoves, NoProcessMoves, StopTimeMoves, OptimizedMoves,
       ConnectFinishMoves, GreetedMoves, ReconnectingMoves, ResumeWaitMoves, Zenon
       DEF Continuation
  <1>4. CASE DisconnectDelayEnds \/ AdLoopEnds \/ AdDismissed
    BY <1>1, <1>2, <1>4, DisconnectDelayMoves, AdLoopMoves, AdDismissedMoves, Zenon
  <1>5. CASE clickUp \/ ScreenOpened \/ ScreenReturns \/ disConnectClick \/ optimizeClick
    BY <1>1, <1>2, <1>5, ClickUpMoves, ScreenOpenedMoves, ScreenReturnsMoves,
       DisConnectClickMoves, OptimizeClickMoves, Zenon
  <1>6. CASE \/ DeliveryMoves \/ newStatus \/ onServiceConnected \/ StatusHandled
             \/ DotsReplaced \/ EngineExits \/ EngineConnects \/ EngineReports \/ UNCHANGED vars
    <2>1. dropped' = dropped
      BY <1>6 DEF DeliveryMoves, newStatus, onServiceConnected, StatusHandled, DotsReplaced,
                  EngineExits, EngineConnects, EngineReports, vars
    <2> QED
      BY <2>1
  <1>7. CASE EngineStarts
    BY <1>7, Zenon DEF EngineStarts
  <1> QED
    BY <1>3, <1>4, <1>5, <1>6, <1>7, Zenon DEF Next, AppStep

LEMMA Invariance == Spec => []FlowInv
  <1>1. Init => FlowInv
    BY InitInv
  <1>2. FlowInv /\ [Next]_vars => FlowInv'
    BY NextInv
  <1> QED
    BY <1>1, <1>2, PTL DEF Spec

\* Statuses, coroutines, clicks and the engine stay within the values the
\* screen has a branch for.
THEOREM TypesHold == Spec => []TypeOK
  <1>1. FlowInv => TypeOK
    BY TypesSplit, Zenon DEF FlowInv, Types
  <1> QED
    BY <1>1, Invariance, PTL

\* However statuses, clicks, drops, delays and ads interleave: clickBlock()
\* never stays when nothing is left to call prohibit(true), unless the app is
\* misinformed or a flow was abandoned: a start made before the service was
\* bound or swallowed by runCatching, a startOpenVPN() that returned early, an
\* ad that reported nothing.
THEOREM TheButtonIsFreed == Spec => []ClickableAtRest
  <1>1. FlowInv => ClickableAtRest
    <2> SUFFICES ASSUME FlowInv, Rest, Informed, ~ dropped, ~ isClick PROVE FALSE
      BY Zenon DEF ClickableAtRest
    <2>1. Freed
      BY Zenon DEF FlowInv, ClickInv
    <2>2. /\ handler = <<>> /\ toClient = <<>> /\ launched = 0 /\ ~ greeting /\ delayed = <<>>
          /\ ~ jobConnect /\ ads = 0 /\ startPending = 0
          /\ engine = "down" \/ (engine = "up" /\ mMostRecentState = "CONNECTED")
      BY Zenon DEF Rest, Delivered
    <2>3. ~ EngineMoves /\ ~ Pipe
      <3>1. ~ (startPending > 0) /\ engine \notin {"stopping", "replacing"} /\ "up" # "down"
        BY <2>2
      <3> QED
        BY <2>2, <3>1, Zenon DEF EngineMoves, Pipe
    <2>4. \A w : ~ Contains(delayed, w)
      BY <2>2 DEF Contains
    <2>5. ~ (launched > 0) /\ ~ (ads > 0)
      BY <2>2
    <2> QED
      BY <2>1, <2>2, <2>3, <2>4, <2>5, Zenon DEF Freed, Informed, isVpnConnect
  <1> QED
    BY <1>1, Invariance, PTL

\* As long as the VPN neither drops nor restarts on its own and no flow was
\* abandoned, the app agrees with the service whenever both have come to rest:
\* neither the greeting "..." nor a status that overtakes its coroutine leaves it
\* misinformed.  Where starts are served and ads report their end (Smooth) no
\* flow is abandoned.
THEOREM TheAppIsInformed ==
    ASSUME ~ Drops
    PROVE  Spec => [](Smooth \/ ~dropped => InformedAtRest)
  <1> DEFINE IInv == FlowInv /\ (Undisturbed => CalmInv)
  <1>1. Init => IInv
    BY InitInv
  <1>2. IInv /\ [Next]_vars => IInv'
    <2> SUFFICES ASSUME IInv, [Next]_vars PROVE IInv'
      OBVIOUS
    <2>1. FlowInv' /\ (CalmInv /\ Undisturbed' => CalmInv')
      BY NextInv, Zenon
    <2>2. Undisturbed' => Undisturbed
      BY DroppedStays, Zenon DEF Undisturbed
    <2> QED
      BY <2>1, <2>2, Zenon
  <1>3. IInv => (Smooth \/ ~dropped => InformedAtRest)
    <2> SUFFICES ASSUME FlowInv, CalmInv, Rest PROVE Informed
      BY Zenon DEF InformedAtRest, Undisturbed
    <2>1. /\ handler = <<>> /\ toClient = <<>> /\ launched = 0 /\ ~ greeting /\ Bound
          /\ startPending = 0
          /\ engine = "down" \/ (engine = "up" /\ mMostRecentState = "CONNECTED")
      BY Zenon DEF Rest, Delivered, Bound
    <2>2. ~ EngineMoves /\ ~ Pipe
      <3>1. ~ (startPending > 0) /\ engine \notin {"stopping", "replacing"} /\ "up" # "down"
        BY <2>1
      <3> QED
        BY <2>1, <3>1, Zenon DEF EngineMoves, Pipe
    <2>3. ~ Early
      <3>1. ~ Contains(toClient, "...") /\ ~ (launched > 0)
        BY <2>1 DEF Contains
      <3> QED
        BY <2>1, <3>1, Zenon DEF Early, FlowInv, WayInv
    <2> QED
      BY <2>1, <2>2, <2>3, Zenon DEF CalmInv
  <1> QED
    BY <1>1, <1>2, <1>3, PTL DEF Spec
=============================================================================
