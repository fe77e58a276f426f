# Verification of the Littledoll VPN app

Littledoll is an Android VPN app (Kotlin, `app/`) on an embedded copy of the
OpenVPN-for-Android library (Java, `Fobl/src/main/java/de/blinkt/openvpn/`),
which runs the vendored `openvpn` C program. The user interface lives in the
app's main process; `OpenVPNService`, `ExternalOpenVPNService` and
`OpenVPNStatusService` live in the process `:openvpn`; each VPN session has an
`openvpn` child process that is controlled over its management socket. The
repository has no documentation and only template tests, so the properties
come from the code's comments, assertions and interfaces.

## 1. The system

| part | state | operations | interaction |
|---|---|---|---|
| `DeviceStateReceiver` | `network`, `screen`, `userpause`, the posted delayed disconnect, the last network, the traffic window | broadcasts (connectivity, screen), `updateByteCount`, `userPause` | calls `pause`, `resume`, `networkChange` of the management thread; on the main, a binder and the management thread |
| `OpenVpnManagementThread` | `mWaitingForRelease`, `lastPauseReason`, the posted release, the static list `active`, sockets | reads openvpn's messages (`>HOLD`, `>BYTECOUNT`, `>STATE`, `>PASSWORD`, `>NEED-OK`, ...), sends commands | asks the receiver `shouldBeRunning()`; publishes to `VpnStatus`; hands the tun descriptor over |
| `OpenVPNService`, `OpenVPNThread` | `mProcessThread`, `mManagement`, `mStarting`, `mDeviceStateReceiver`, `mProfile`, the routes collected for the next tun | `onStartCommand`, `startOpenVPN` on a command handler thread, `stopVPN`, `onRevoke`, `endVpnService`, `openTun` | creates process and management threads; both call back |
| `NetworkSpace`, `CIDRIP` | the routes | `addIP`, `generateIPList`, `getPositiveIPList` | used by `openTun` |
| `VpnStatus` | last state and level, log buffer, listeners | `updateStateString`, `updateByteCount`, `newLogItem` | synchronized calls to listeners, from any thread |
| `ExternalOpenVPNService` | `mMostRecentState`, `mCallbacks` | `registerStatusCallback`, `startVPN`, `disconnect`, `pause`, `resume` | one-way binder calls to the app |
| `MainActivity`, `ConnectUtils` | `oState`, `isClick`, `isLoading`, `isOptimize`, `nowClickState`, `jobConnect`, view visibility | click handlers, `newStatus`, `showConnectAd`, `connectFinish`, `stopTime` | coroutines on the main thread, binder threads write `oState` |
| `AdManager`, `AdDataUtils` | one cache and one in-progress flag per slot, daily counters | `loadAd`, `showAd`, `canShowAd` | ad SDK callbacks |
| `LDApplication`, `LiverActivity` and the other screens | foreground counter, splash loop | restart after the background, consent | start each other |
| `ProfileManager`, `VpnProfile`, `ConfigParser` | profiles and their files, the remembered last profile | load, save, parse, generate configuration | used by the service |
| `LogFileHandler`, `TrafficHistory`, `PasswordCache`, `OpenVPNStatusService`, `StatusListener` | log file, history buckets, cached secrets, mirror of the status | append, rotate, down-sample, mirror | listeners of `VpnStatus` |
| openvpn: `reliable.c` with `ssl.c` | per key: window of packets to resend, window of packets received, ids to acknowledge, ids acknowledged last | `tls_process`, `tls_pre_decrypt` and the functions of `reliable.c` | carries the TLS handshake over UDP; both peers run it |
| openvpn: `packet_id.c` with `crypto.c` | last id and time stamp sent; highest id and time received, list of the ids below | `packet_id_send_update`, `packet_id_test`, `packet_id_add`, `packet_id_reap` | one sender and one receiver per key |
| openvpn: sessions and keys of `ssl.c` | three session slots with a primary and a lame duck key each, `multi_state`, error counters | `tls_multi_process`, hard and soft resets, `do_up`, restart on SIGUSR1 | timers, the peer's packets, `check_tls_errors` |
| openvpn: `manage.c` | `hold_release`, ignored signals, the state message | `management_hold`, `signal`, `hold release`, `>BYTECOUNT` | the management thread's socket |
| `SpeedUtils`, `InspectUtils`, `UpDataMix`, `AdminUtils`, `DataManager` | counters, key-value store | HTTP requests with retries | called from the screens |

What is hard to test here is concurrency without locks: the receiver and the
management thread share their fields between the main thread, the socket
reader and the binder threads of AIDL clients; the service's
sessions overlap because a session is replaced after two fixed sleeps; the
status callback is registered beside a running broadcast; and the home screen
mixes binder threads, coroutines that suspend, and user clicks. openvpn itself
is single-threaded; there the difficulty is the network, which loses, repeats
and reorders, the peer, which may ask for anything at any time or fall silent,
and windows and arrays at their limits.
`PROJECT.json` lists these hazards line by line under `hazards`, each with the
properties that would catch it. Lesser ones, for the modules still planned: the
early returns of `AdManager.loadAdFromList` leave `adLoadInProgress` set; with
an empty list the first open-ad load calls itself; `startTime()` leaves an old
timer running; `openTun()` returns early and keeps the collected routes;
`fetchVPNProfile()` clears `mProfile` under a running session; repeated acks
from the lru list count towards openvpn's early retransmission.

What makes each part correct:

* pause protocol: a VPN that is wanted is never left on hold, a VPN the user
  has paused is not released, a screen that is on pauses nothing;
* session lifecycle: a new session is not torn down by the old one, at most
  one process, everything is released at the end, no wait for ever;
* routes: the positive list routes the same addresses as the routes with
  exclusions, the loop ends, the assertions hold;
* status delivery and the home screen: the app ends up knowing what the
  service knows, its buttons come back, its panel tells the truth;
* control channel: the TLS library sees a first-in first-out stream, nothing
  acknowledged is lost, no window clogs, and everything arrives in the end;
* packet ids: none is accepted or given out twice, none within the window is
  refused, none that is too late is accepted;
* sessions and keys: as long as a key can carry the traffic there is one and
  the connection stays, and a silent peer is noticed.

## 2. Modules

```
DeviceStateReceiver <- ManagementHold <- PauseProtocol <- MCPauseProtocol
                                              ^-- PauseProofs
VpnSession <- MCVpnSession             RouteSpace <- RouteProofs
       ^-- SessionProofs
StatusDelivery <- MCStatusDelivery <- DeliveryProofs
       ^-- ConnectFlow <- FlowProofs
ControlStream <= ReliableChannel (refinement) <- ReliableProofs
ReplayWindow <- ReplayProofs           TlsSessions <- TlsProofs
```

The modules named `...Proofs` hold the theorems of the module they extend and
the inductive invariants these rest on (section 4).

**DeviceStateReceiver** has one variable per field of the class. A method of
the receiver ends in at most one call of the management interface, which is
noted in `pc[t]`, one program counter per thread: `main`, `mgmt`, and the
binder threads in `Binders`, on which AIDL clients call `pause()` and `resume()`
(`ExternalOpenVPNService`). They are the only callers of `userPause()`: the
notification action that would send the intents `PAUSE_VPN` and `RESUME_VPN` is
commented out (`OpenVPNService.java:283`). A callback that asks
`shouldBeConnected()` twice (`ScreenOn`, `UserResumes`) is two steps, because
another thread can write between its answers; `updateByteCount` is cut between
its test and its assignment for the same reason. The traffic window is
abstracted to the verdict "less than the limit or not". The active network and
the screen are the environment.

**ManagementHold** adds the hold half of the management thread, cut wherever
another thread can change what a method has read: `handleHold` (sets the flag,
asks, posts), `pause`, `resume`, `networkChange`, `releaseHoldCmd`.
`msgs` and `cmds` are the two directions of the socket. The other end is
openvpn's `manage.c`: every start of the tunnel waits in `management_hold`
until `man_hold` has set `hold_release`; while that call is on the stack
`man_signal` ignores SIGUSR1 and answers with the `>HOLD` line once more, also
when the release came in the same read (`released`); outside a hold SIGUSR1
restarts the tunnel, and a release is forgotten because the teardown clears
`hold_release`.
The history `overtaken` remembers that a `pause()` on the main or a binder thread
came after the VPN was wanted, until the next hold is announced. The reasons of
a pause are displayed and never read back; they are left out.
**PauseProtocol** composes the two and states the properties.

**VpnSession** numbers the sessions in the order of `startOpenVPN`. Its
variables are the service's fields, the static list `active`, one process,
process thread and management thread per session, the queues of the command
handler and of the main thread, and the remembered profile. `endVpnService` is
two steps, the part under `mProcessLock` and the rest, because all its callers
race. `forgotten` remembers the sessions whose thread was taken from
`mProcessThread` by an `endVpnService()` not their own. Nothing restricts the
environment: starts overtake one another and processes linger.
**MCVpnSession** adds an observer, the history `orderly`: so far a session has
settled before the next start, and a process that was told to stop has exited
within the sleep. Nothing in the code enforces it; the two properties that need
it say so.

**RouteSpace** is `NetworkSpace` over addresses of `Bits` bits: `addIP` builds
the set, then one `Iterate` step per turn of the loop in `generateIPList`, and
`getPositiveIPList` filters. The iteration works on sets in place of the tree
set and the queue; `Least` picks among elements the queue's order leaves equal.
The reference is `Promised`: the longest matching prefix decides, which is what
`excludeRoute()` does on newer Android versions.

**StatusDelivery** is `VpnStatus.updateStateString`, the handler of
`ExternalOpenVPNService`, the three steps of `registerStatusCallback` on its
binder thread, and the one-way calls to the app. **MCStatusDelivery** closes it
with an engine that publishes anything and with history variables.

**ConnectFlow** puts the home screen on top. `newStatus` writes `oState` on a
binder thread and launches a coroutine; `StatusHandled` runs it on the main
thread and goes by what `oState` is then. `startUp()` reads `oState` twice
and a binder thread may write it in between, so it is two steps (`startUp`,
`startUpGoesOn`); `open` is `ConnectUtils.open()`, whose `runCatching` swallows
a failed `startVPN()`, and `EngineStarts` is `startOpenVPN()` with its early
returns that publish no status. `delayed` holds the suspended
coroutines: those in the 100 ms of `defaultStatus()` resume in order, the
second in `disconnect()` ends after everything that began before it, and the
wait for a resumed activity ends by itself. `showConnectAd` and `showFinishAd`
carry the ad loop, including that a cancelled loop catches its cancellation and
finishes, too. `dropped` remembers that a flow was abandoned, left with nothing
to continue it: a start before the service is bound, a `startVPN()` whose
failure is swallowed, a `startOpenVPN()` that returns early, an ad that is
dismissed in the background or reports nothing. The engine is external and reduced to what `VpnStatus` shows;
`VpnSession` has its detail. `Drops` and `Smooth` restrict the environment.

**ReliableChannel** has two peers, each with the arrays of `reliable.h`:
`sendBuf`, `recBuf`, `recAck`, `lruAcks`. openvpn runs one event loop, so
`TlsPreDecrypt` (an arriving packet: acknowledgements first, then the packet)
and `TlsProcess` (handshake state, delivery, one TLS record cut into packets,
at most one packet out) are atomic. `Arrive` and `Lose` are the network: a
packet may be delivered again, late or never. The id arithmetic is modular as
in the code; the wait of an entry is a flag that time may set at any moment.
**ControlStream** is what the layer promises, a stream in one direction;
`Streams` and `LiveStreams` instantiate it for both directions, with the
histories `sent` and `got` as the mapping.

**ReplayWindow** is one sender and one receiver of `packet_id.c` under one key.
The network keeps every packet (`wire`) and hands any of them over at any time.
The circular list is a function from the distance to the highest id to the
time of acceptance, so the loop that pushes unseen ids is a shift of it.
`acceptedAt`, `reused` and `again` are history.

**TlsSessions** is a client's `tls_multi`: the slots `TM_ACTIVE`,
`TM_UNTRUSTED` and `TM_LAME_DUCK`, each with two keys, whose timers are kept as
the time left so that time is unbounded. `tls_multi_process` is one step: the
processing of the sessions, the recovery of failed ones, key generation, the
expiry of the lame duck session, promotion, the count of errors and
`check_tls_errors`. How far a handshake gets, whether it fails and which resets
arrive are free choices of the peer.

Definitions that begin with a comment `Mutant:` are deliberately wrong variants
of the definition that follows; each shows that a property notices the mistake.

## 3. Runs

| run | bounds | shows |
|---|---|---|
| `pause_live` | 1 network, default preferences, 1 binder thread, 2 posted runnables, 1 unread message, fair | `ReleasedUnlessOvertaken` |
| `pause_screenoff` | 2 networks (symmetric), pause on screen off, 1 binder thread, 1 posted runnable, 2 unread messages | `TypeOK`, `HoldIsKnown`, `NoLostWakeup` |
| `pause_lost_release` | as `pause_live` | `WantedIsReleased` is violated |
| `session` | 3 sessions, 2 once the order is broken (`MaxHasty`), fair | `TypeOK`, `NewSessionIntact`, `OneProcess`, `OldIsInterrupted`, `ServiceIsReleased`, `StopEnds` |
| `routes` | every set of at most 4 routes, 3 bits | `TypeOK`, `RoutesAsPromised`, `DoneIsFinal`, `AssertionsHold`, `Terminates` |
| `delivery` | 5 updates | `TypeOK`, `LatestIsHeardLast` |
| `flow_calm` | 2 user actions, no report of openvpn's own, the VPN stays up, `Smooth`, fair | `InformedAtRest`, `ClickComesBack` |
| `flow_rough` | 1 user action, 1 report, drops, failing starts, silent ads | `TypeOK`, `ClickableAtRest` |
| `control_channel` | 5 packets one way, 1 the other, windows of 3 and 2, an ack array of 1, records of up to 2 packets, 2 packets in flight | `TypeOK`, `RecordFits`, `AckedIsStored`, `NeverClogged`, `Streams` |
| `control_live` | 3 packets one way, 1 the other, windows of 2, an ack array of 1, fair | `LiveStreams`, `HandshakeStarts` |
| `replay_window` | 4 ids, windows 0 and 2, no time limit or 1 s, short and long form, 3 clock values | `TypeOK`, `NoReplay`, `NoReuse`, `WindowIsOpen`, `LateIsRefused` |
| `tls_keys` | handshake 2 s, key age 2 s, lame duck 4 s, UDP and TCP, with and without `--single-session`, unbounded time, fair | `TypeOK`, `AssertionsHold`, `NoNeedlessRestart`, `KeyIsKept`, `SilenceIsNoticed`, `UntrustedIsFreed` |

Finding. `WantedIsReleased` (`pause_lost_release`): `resume()` of a VPN that is
wanted already is meant to "update the reason why we currently paused"; it
removes a posted release, and openvpn stays on hold for good. `NoLostWakeup` and
`ReleasedUnlessOvertaken` show that such a `pause()` is the only way to lose a
release.

Known deviations. The models reach further behaviour that the code's comments
and interfaces do not lead one to expect; the notes under `hazards` name it, and
the properties above exclude it by a named condition rather than deny it:

* a release decided before the user's pause, or made without a look at it
  (`networkChange`, also when the same network returns within the delay), is
  carried out after it, and openvpn runs while the user's pause is in force;
* a pause that openvpn reads right behind a release is ignored, too
  (`man_signal` while `released`);
* SCREEN_ON cancels the pause that a lost network has scheduled, and a byte
  count tested before SCREEN_ON is applied after it: the screen state then keeps
  the VPN paused until the next screen event;
* an old process that outlives the two sleeps ends the new session, although
  the comment after `stopOldOpenVPNProcess` says it "should now be exited", and
  two quick starts leave two receivers registered (`NewSessionIntact` and
  `OneProcess` are about behaviours that are `orderly`); `stopVPN()` returns the
  answer of the last management thread only; a replaced session erases the
  profile remembered for a restart;
* of three nested routes the most specific can be forgotten (`Shadow`), and an
  assertion of `generateIPList` fails for three routes (`Clash`), for instance
  0.0.0.0/0 excluded with 128.0.0.0/1 and 128.0.0.0/2 included;
* a state published between the test and the registration in
  `registerStatusCallback` reaches nobody;
* the home screen keeps its connection panel when the VPN ends on its own, and
  its button blocked when a flow is abandoned (`dropped`);
* a key whose expansion fails stays in `S_ERROR` after the loop that would have
  reset its session, and the next control packet fails an assertion of
  `tls_pre_decrypt`; `tls_keys` assumes `ExpansionMayFail = FALSE`.

Simplifications inside mapped code: an exception `writeConfigFileOutput()` does
not declare (a `CancellationException` of its future) would end the command
handler's runnable where `ConfigWritten` ends the session; `ReliableChannel` has
no tls-crypt-v2 (`ssl.c` 3076-3088, an ack that travels in a packet with the
wrapped key) and no packet that is too big for a receive buffer (`ssl.c`
3833-3838); `TlsSessions` restarts for TLS errors, not for ping-restart nor for
restarts pushed by the server.

Every cfg but `tls_keys` sets `CHECK_DEADLOCK FALSE`,
because a device on which nothing happens, a stopped service, a finished route
computation, an idle app and a silent channel are all legitimate ends; a TLS
client always has a timer to wait for.

Why the bounds are enough: the pause protocol's methods keep at most one call
in flight per thread, so two unread messages (`pause_screenoff`) and one unread
command hold the shortest overtakings, while the fair run reads one message at
a time and lets a repeated `>HOLD` post a second release, without the screen
preference, whose pauses from the reader thread would block on a socket of one
message (a real one holds many); one binder thread is
enough to overtake the main and the management thread, and the theorems hold for
any number; three sessions are the smallest number with a session that
is replaced while `active` still holds an earlier one, and two are enough for a
process that lingers beside the next; three bits and four routes contain every
nesting of three networks plus an unrelated one, and the ill-handled
constellations need three; two user actions are a connect followed by a
disconnect or an optimisation. The send window is larger than the receive
window and five packets pass both, so that either can fill, wrap its slots and
meet a gap, and the ack array of one overflows; the real sizes (6, 12, 8) only
add distance, and the safety properties are proved for all of them. Four ids
cross the window of two, jump over it and roll over. In `tls_keys`
a handshake is not longer than a key's age, and both together are not longer than a lame duck lives, so that a handshake can fail and be repeated
in its time; the defaults (60 s, 3600 s, 3600 s) differ in scale, and the
safety properties are proved for every choice.

Fairness: a thread inside a method continues; runnables and broadcasts of the
main looper are served in queue order and therefore get strong fairness; the
socket reader reads; a signalled process exits; a served start connects in the
runs without `Drops`; in `flow_calm` starts are served and ads report their
end (`Smooth`). In
`control_live` openvpn's event loop turns and finds its link buffer free again
and again (strong fairness of `TlsProcess`, without any
duty to have a TLS record to send), timers fire, and the
network does not lose a packet, or an acknowledgement of it, that is sent for
ever (strong fairness of its arrival): without that assumption no
retransmission could promise anything. In `tls_keys` time passes, the event
loop turns, the push request's timeout is looked at and SIGUSR1 is acted upon;
traffic that wears a key out is not assumed. No fairness is assumed for users,
networks, screens and resets.

## 4. Proofs

Each theorem below holds for every value of the constants that its module's
ASSUME allows, and under the conditions named here, which are those of the run
that checks the same property. Each invariant was model-checked before it was
proved. Every proof has the same shape: the initial states satisfy the
invariant, one lemma per action or group of actions shows that a step keeps it,
and the property follows from it.

**PauseProofs** (`ReceiverAssumption`, `SocketAssumption`):

* `TypeCorrect`: `TypeOK` is inductive by itself.
* `HoldIsAlwaysKnown`: together with `TypeOK`, `HoldIsKnown` is inductive, for
  user pauses on any number of binder threads. The interesting step is
  `releaseHoldCmd`, which clears the flag before its command is in the socket.
* `NoWakeupIsLost`: `NoLostWakeup`, for any set of binder threads whose clients
  pause and resume at any time. It is not inductive: `pause()` removes the posted
  release. One on the main or a binder thread after the VPN was wanted is what
  the property names (`overtaken`, `Overtaking`); one on the management thread
  follows a byte count, and it has to be shown that openvpn announces a later
  hold behind that count in the same socket (`HoldBehindCounts`,
  `PauseBeforeHold`). SCREEN_ON never pauses a VPN that is wanted, because what
  it has read of the screen still holds when it assigns it (`ScreenIsRead`).
  `WakeupInv` is the conjunction. Without the exception the release can be lost
  (`pause_lost_release`).

**SessionProofs** (`SessionAssumption`), for every number of sessions and in
every environment:

* `TypeCorrect` and `TheServiceIsReleased`. The second needs that somebody is
  always left who will take the service out of the foreground
  (`ForegroundEnds`): a posted start, the command handler, or a process thread
  that has not finished; and that the process thread the service knows has not
  yet run `endVpnService()` (`KnownThread`). `EndRest` keeps the foreground only
  while `mStarting`, which is exactly the stages before the new management
  thread (`Numbered`).
* `OldSessionsAreInterrupted`: `OldIsInterrupted`. A session whose process runs is
  the one `mProcessThread` names, or interrupted, or forgotten (`RunsKnown`), the
  field names no session but the newest (`KnownIsNewest`), and that one has been
  interrupted once `forceStopOpenVpnProcess` has run (`KnownIsInterrupted`).

**DeliveryProofs** (`MCStatusDelivery`): `OnlyStatesTravel` and
`NothingOvertakes`, for any number of updates. The latest state is always at
the end of what is queued, under way or heard.

**ReliableProofs** (`SizesAssumption`, `NoWrapAssumption`: at least one packet
each way and ids that do not wrap), for every size of the windows, the ack
arrays and the records. The invariant `ChannelInv` says that both windows fit
their arrays, that every copy of a packet anywhere carries the data of its id,
and that an id which is acknowledged anywhere, in an ack list, an lru list or a
packet under way, is delivered or stored by its receiver.

* `WindowsFit`, `RecordsFit`, `PurgedIsStored`, `WindowNeverClogs`.
* `ImplementsStreams`: every step is a step of `ControlStream` or a stutter of
  it, in both directions; what was delivered is a prefix of what was sent.

**ReplayProofs** (`ReplayAssumption`): `TypeCorrect`, `IdsAreNeverReused`,
`NothingIsReplayed`, `WindowStaysOpen`, `LatePacketsAreRefused`, for every
window size, time limit and id range. `NoReplay` is about history and not
inductive: `ListedInv` says that an accepted packet within the window is listed
with its time or as expired, `EntriesInv` where the entries come from, and
`ClosedInv` that expiry is closed downwards, which is what lets
`packet_id_reap` stop at the first expired entry.

**TlsProofs**: `TypeCorrect`, `NoAssertionFails` (under `~ExpansionMayFail`),
`RestartsAreNeeded`, and the action property `LastKeyIsKept`, for every choice
of the timers (`WindowsAssumption`). `TlsInv` adds that the lame duck session
never negotiates, that a lame duck key is undefined or a working key with an
expiry, that an untrusted session without a peer has not begun to negotiate,
and that no session has data channel keys before the tunnel is up; without the
last two a promotion or a restart could take the last key unseen.

**FlowProofs** (`FlowAssumption`), for any number of clicks and reports, over
`ConnectFlow` and the status delivery under it:

* `TypesHold`: `TypeOK`. A step of the app runs as much as the code runs
  between two suspensions (a coroutine that resumes may finish the flow, start
  the VPN or free the button), so the type lemmas follow the helpers, not the
  actions.
* `TheButtonIsFreed`: `ClickableAtRest`, with `Drops` and `Smooth` arbitrary:
  connections drop, starts fail silently, ads say nothing. Its invariant
  `ClickInv` names, for a blocked button of a flow that was not abandoned, who
  will free it (`Freed`): the engine has yet to report, a status is on its way
  or in a coroutine that has not run, a wait that ends in `prohibit(true)` is
  pending, or the app works on the connection it believes in. `WayInv` orders
  the statuses on their way: the newest is the last, `"..."` precedes all others,
  and before it is through neither flow runs (`Quiet`); without this a late
  greeting could end a flow that is under way. `StartInv` says what cannot be under
  way between the two readings of `startUp()`.
* `TheAppIsInformed`: `InformedAtRest`, for a VPN that neither drops nor
  restarts on its own (`~Drops`, as in `flow_calm`), where the environment is
  `Smooth` or no flow was abandoned. The invariant `CalmInv` says that the engine
  still moves, a status is in the pipe, `"..."` is not yet taken up, or the app
  is informed, as long as nothing has disturbed the flow (`Undisturbed`). With
  drops the property is not claimed.

**RouteProofs** (`RouteAssumption`), for addresses of any width and any number
of routes:

* `RoutesArePromised`, `FinishedIsFinal` and `TheAssertionsHold`, for routes
  that are `Handled`, as in the run. The invariant `LoopOk` says of the queue
  with the current network that its longest prefixes decide each address from
  the current network on as the routes do (`Decides`), and that the finished
  networks decide those below. A step then has to replace a network without a
  change of decision (`Redundant`): it may go where a longer one takes over, or
  where nothing of the other type stands between it and a shorter one. That
  needs the absence of `Clash` and `Shadow` not only of the routes but of all
  networks of the loop, with no network twice (`Good`); `SplitNextNoConflict` and
  `SplitCurrentNoConflict` show that the halves of a split bring neither.
* `NetworksAreAligned`: `TypeOK`, for every set of routes. With conflicting ones a
  host can be split into networks with one mask bit too many; `HostsOk` says why
  it does not happen to these again: `networks.contains()` keeps the queue free of
  such a host twice, and the current one is never among them.
* Under them lies a small theory of networks: powers of two (`TwoToSum`,
  `SizesDivide`), two networks are nested or disjoint (`Nesting`), what halves and
  parents are. What an induction would show of every number is shown of the
  least number of which it fails (`LeastNumber`, from the well-foundedness of
  `<` on the natural numbers).

Only model-checked: liveness (`ReleasedUnlessOvertaken`, `StopEnds`, `Terminates`,
`ClickComesBack`, `LiveStreams`, `HandshakeStarts`, `SilenceIsNoticed`,
`UntrustedIsFreed`), since the prover does not handle fairness; and
`NewSessionIntact` and `OneProcess`, which need an order (`orderly`) the code does
not enforce, so that a theorem would promise more than the program does.

## 5. Not modelled

`PROJECT.json` lists each part with its reason. In short: the third-party
libraries (OpenSSL, mbedTLS, OpenVPN 3, compression, asio) are most of the
repository's lines and none of its own logic; of openvpn, the data channel,
option parsing, routing tables and sockets are cryptography, text and system
calls; the configuration parser, the profile store and the key store
helpers are sequential text and I/O; views, adapters and notifications carry no
state that a property is about. Within modelled parts: `onDestroy` and the
openvpn3 branch of the service, the management commands other than hold, the
speed-test button and the duration timer of the home screen, the exit of the
app in a restricted region, the death of the `:openvpn` process;
`--replay-persist`, which the app's profiles do not set; id wrap-around of the
control channel; the server's side of `ssl.c`, deferred authentication, and
which of several usable keys a packet is encrypted with.

## 6. Plan

Done: the pause protocol with its first theorems and both ends of the hold,
the session lifecycle, the route computation, the status delivery and the home
screen flow; openvpn's control channel with the stream it implements, its
packet ids, its sessions and keys. Next, in this order:

1. `AdSlot`: loading, caching, expiry and showing in `AdManager`, with the
   screens that wait for a slot; an abstract slot that loads at most one ad at
   a time, refined by it.
2. `ManagementCommands`: the remaining commands of the management thread, with
   proxy and password answers and the tun descriptor; `TunConfig`: the
   collection of addresses and routes and `openTun` with its early returns and
   the reuse of an unchanged tun.
3. `SplashFlow`: `LDApplication`, `LiverActivity`, the restart from the
   background; the speed test and the retry loops.
4. `LogBuffer`, `LogFile`, `TrafficHistory`, `StatusMirror`, `ProfileStore`.
5. Composition of `VpnSession` with `StatusDelivery` and `ConnectFlow`, and an
   abstract connection with three states that the home screen refines when it
   is informed.

Theorems worth proving next: the
refinement of the abstract connection by `ConnectFlow` (item 5), and the safety
half of the liveness properties, for instance a measure that every `Iterate` of
`RouteSpace` lowers.
