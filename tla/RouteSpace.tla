------------------------------ MODULE RouteSpace ------------------------------
(***************************************************************************)
(* core/NetworkSpace.java: the routes a server pushes and the profile      *)
(* excludes are collected in a TreeSet; generateIPList() turns them into   *)
(* disjoint networks so that Android versions without excludeRoute() can   *)
(* install only the included ones.  generateIPList() is a loop over a      *)
(* priority queue; here every iteration is one step.                       *)
(***************************************************************************)
EXTENDS Naturals, FiniteSets

CONSTANTS
    Bits,        \* width of an address: 32 or 128 in the code
    MaxRoutes    \* bound on the routes added

ASSUME RouteAssumption == Bits \in Nat \ {0} /\ MaxRoutes \in Nat \ {0}

VARIABLES
    mIpAddresses,   \* the TreeSet of routes
    phase,          \* "adding", "generating" or "done"
    networks,       \* the PriorityQueue
    currentNet,
    ipsDone         \* the resulting TreeSet

vars == <<mIpAddresses, phase, networks, currentNet, ipsDone>>

-----------------------------------------------------------------------------
(* IpAddress: the netAddress is only looked at through getFirstAddress(),  *)
(* which clears its host bits, so a network is kept in that form.          *)

\* Powers of two by recursion, which the proofs can unfold.
TwoTo[n \in Nat] == IF n = 0 THEN 1 ELSE 2 * TwoTo[n - 1]

Address == 0 .. TwoTo[Bits] - 1
Size(mask) == IF mask >= Bits THEN 1 ELSE TwoTo[Bits - mask]

\* Mutant: host bits stay.
AddressUnmasked(addr, mask) == addr

getMaskedAddress(addr, mask) == addr - (addr % Size(mask))

Net(addr, mask, included) ==
    [first |-> getMaskedAddress(addr, mask), mask |-> mask, included |-> included]
Last(n) == n.first + Size(n.mask) - 1
NoNet == [first |-> 0, mask |-> 0, included |-> FALSE, none |-> TRUE]

Covers(n, a) == n.first <= a /\ a <= Last(n)
containsNet(m, n) == m.first <= n.first /\ Last(n) <= Last(m)

\* compareTo() and equals() ignore "included".
Before(m, n) == m.first < n.first \/ (m.first = n.first /\ m.mask > n.mask)

SameNet(m, n) == m.first = n.first /\ m.mask = n.mask
Contains(S, n) == \E m \in S : SameNet(m, n)
TreeAdd(S, n) == IF Contains(S, n) THEN S ELSE S \cup {n}

FirstHalf(n) == Net(n.first, n.mask + 1, n.included)
SecondHalf(n) == Net(Last(FirstHalf(n)) + 1, n.mask + 1, n.included)

-----------------------------------------------------------------------------
Init ==
    /\ mIpAddresses = {} /\ phase = "adding"
    /\ networks = {} /\ currentNet = NoNet /\ ipsDone = {}

\* A route equal to an earlier one is dropped, whatever its type.
addIP(addr, mask, include) ==
    /\ phase = "adding" /\ Cardinality(mIpAddresses) < MaxRoutes
    /\ mIpAddresses' = TreeAdd(mIpAddresses, Net(addr, mask, include))
    /\ UNCHANGED <<phase, networks, currentNet, ipsDone>>

\* poll(): any of the least elements; the heap may order equal ones either way.
Least(S) == {n \in S : \A m \in S : ~Before(m, n)}

generateIPList ==
    /\ phase = "adding"
    /\ IF mIpAddresses = {}
       THEN phase' = "done" /\ UNCHANGED <<networks, currentNet>>
       ELSE /\ phase' = "generating"
            /\ currentNet' \in Least(mIpAddresses)
            /\ networks' = mIpAddresses \ {currentNet'}
    /\ UNCHANGED <<mIpAddresses, ipsDone>>

\* Mutant: the next network is compared with the beginning of the current one.
CurrentIsDoneEarly ==
    /\ ipsDone' = TreeAdd(ipsDone, currentNet)
    /\ \/ /\ networks = {}
          /\ phase' = "done"
          /\ UNCHANGED <<currentNet, networks>>
       \/ \E next \in Least(networks) :
             /\ currentNet.first < next.first
             /\ currentNet' = next
             /\ networks' = networks \ {next}
             /\ UNCHANGED phase
    /\ UNCHANGED mIpAddresses

\* No next network, or it begins behind the current one.
CurrentIsDone ==
    /\ ipsDone' = TreeAdd(ipsDone, currentNet)
    /\ \/ /\ networks = {}
          /\ phase' = "done"
          /\ UNCHANGED <<currentNet, networks>>
       \/ \E next \in Least(networks) :
             /\ Last(currentNet) < next.first
             /\ currentNet' = next
             /\ networks' = networks \ {next}
             /\ UNCHANGED phase
    /\ UNCHANGED mIpAddresses

SameBase(next) == currentNet.first = next.first /\ currentNet.mask >= next.mask

\* Mutant: halves are queued without asking networks.contains().
HalvesUnchecked(next) ==
    /\ SameBase(next)
    /\ \/ /\ currentNet.included = next.included
          /\ currentNet' = next
          /\ networks' = networks \ {next}
       \/ /\ currentNet.included # next.included
          /\ LET rest == (networks \ {next}) \cup {SecondHalf(next)}
             IN  networks' = IF Last(FirstHalf(next)) = Last(currentNet)
                             THEN rest ELSE rest \cup {FirstHalf(next)}
          /\ UNCHANGED currentNet

\* Mutant: the lower half of a split network is never queued.
LowerHalfLost(next) ==
    /\ SameBase(next)
    /\ \/ /\ currentNet.included = next.included
          /\ currentNet' = next
          /\ networks' = networks \ {next}
       \/ /\ currentNet.included # next.included
          /\ networks' = TreeAdd(networks \ {next}, SecondHalf(next))
          /\ UNCHANGED currentNet

\* The current network is the beginning of the next one.
CurrentInsideNext(next) ==
    /\ SameBase(next)
    /\ \/ /\ currentNet.included = next.included
          /\ currentNet' = next
          /\ networks' = networks \ {next}
       \/ /\ currentNet.included # next.included
          /\ LET rest == TreeAdd(networks \ {next}, SecondHalf(next))
             IN  networks' = IF Last(FirstHalf(next)) = Last(currentNet)
                             THEN rest ELSE TreeAdd(rest, FirstHalf(next))
          /\ UNCHANGED currentNet

\* Mutant: an ignored network goes back to the queue.
NextStays(next) ==
    /\ ~SameBase(next)
    /\ \/ /\ currentNet.included = next.included
          /\ UNCHANGED <<networks, currentNet>>
       \/ /\ currentNet.included # next.included
          /\ networks' = IF SecondHalf(currentNet).mask = next.mask
                         THEN networks ELSE networks \cup {SecondHalf(currentNet)}
          /\ currentNet' = FirstHalf(currentNet)

\* The next network is inside the current one.
NextInsideCurrent(next) ==
    /\ ~SameBase(next)
    /\ \/ /\ currentNet.included = next.included
          /\ networks' = networks \ {next}
          /\ UNCHANGED currentNet
       \/ /\ currentNet.included # next.included
          /\ networks' = IF SecondHalf(currentNet).mask = next.mask
                         THEN networks ELSE networks \cup {SecondHalf(currentNet)}
          /\ currentNet' = FirstHalf(currentNet)

Overlap ==
    /\ \E next \in Least(networks) :
          /\ Last(currentNet) >= next.first
          /\ CurrentInsideNext(next) \/ NextInsideCurrent(next)
    /\ UNCHANGED <<mIpAddresses, phase, ipsDone>>

Iterate == phase = "generating" /\ (CurrentIsDone \/ Overlap)

Next ==
    \/ \E a \in Address, m \in 0..Bits, include \in BOOLEAN : addIP(a, m, include)
    \/ generateIPList
    \/ Iterate

Spec == Init /\ [][Next]_vars
FairSpec == Spec /\ WF_vars(Iterate)

getPositiveIPList == {n \in ipsDone : n.included}

-----------------------------------------------------------------------------
(* A network starts at a multiple of its size.  Splitting a host route     *)
(* (Clash, below) gives it one mask bit too many.                          *)
Nets == {n \in [first : 0 .. TwoTo[Bits], mask : 0 .. Bits + 1, included : BOOLEAN] :
            n.first % Size(n.mask) = 0}

(* The TreeSets and the queue of NetworkSpace hold networks.               *)
TypeOK ==
    /\ mIpAddresses \subseteq Nets
    /\ phase \in {"adding", "generating", "done"}
    /\ networks \subseteq Nets
    /\ currentNet \in Nets \cup {NoNet}
    /\ ipsDone \subseteq Nets

(* What excludeRoute() does on newer versions: the longest matching prefix *)
(* decides.                                                                *)
Matching(a) == {n \in mIpAddresses : Covers(n, a)}
Promised(a) == \E n \in Matching(a) :
                  n.included /\ \A m \in Matching(a) : m.mask <= n.mask

(* Two constellations of three routes that generateIPList() does not       *)
(* handle; both need a network p and networks of the other type in it.     *)
(* Clash: x is the upper half of a network of which y is a part of the     *)
(* lower half; splitting p for y queues p's half although x is queued.     *)
Parent(n) == Net(n.first, n.mask - 1, n.included)
Clash(p, x, y) ==
    /\ p.included # x.included /\ y.included = x.included /\ x.mask > 0
    /\ containsNet(p, Parent(x)) /\ x.first # Parent(x).first
    /\ Parent(x).first < y.first /\ y.first <= x.first /\ y.mask > x.mask

(* Shadow: x of the other type lies in p and y of p's type at the          *)
(* beginning of x; y is polled before x and forgotten.                     *)
Shadow(p, x, y) ==
    /\ p.included # x.included /\ y.included = p.included
    /\ containsNet(p, x) /\ p.mask < x.mask
    /\ y.first = x.first /\ x.mask < y.mask

NoClash == \A p, x, y \in mIpAddresses : ~Clash(p, x, y)
Handled == NoClash /\ \A p, x, y \in mIpAddresses : ~Shadow(p, x, y)

AsPromised == \A a \in Address :
                 (\E n \in getPositiveIPList : Covers(n, a)) = Promised(a)

(* Installing getPositiveIPList() on an old Android version sends exactly  *)
(* the same addresses through the VPN as installing the routes and their   *)
(* exclusions on a new one (installRoutesPostiveOnly against               *)
(* installRoutesExcluded), for every set of routes without the two         *)
(* constellations above.                                                   *)
RoutesAsPromised == (phase = "done" /\ Handled) => AsPromised

(* At every moment of the loop the finished networks are disjoint and lie  *)
(* below everything still to be done: no address is decided twice.         *)
DoneIsFinal ==
    (phase = "generating" /\ Handled) =>
        /\ \A m, n \in ipsDone : m # n => Last(m) < n.first \/ Last(n) < m.first
        /\ \A m \in ipsDone, n \in networks \cup {currentNet} : Last(m) < n.first

(* The assertTrue() calls of split() and generateIPList().                 *)
SplitAssertion(n) == Last(SecondHalf(n)) = Last(n)
IterationAssertions(next) ==
    Last(currentNet) >= next.first =>
        /\ ~SameBase(next) => /\ currentNet.mask < next.mask
                              /\ next.first > currentNet.first
                              /\ Last(currentNet) >= Last(next)
        /\ currentNet.included # next.included =>
              /\ SameBase(next) =>
                    /\ SplitAssertion(next)
                    /\ Last(FirstHalf(next)) = Last(currentNet) =>
                          FirstHalf(next).mask = currentNet.mask
              /\ ~SameBase(next) =>
                    /\ SplitAssertion(currentNet)
                    /\ SecondHalf(currentNet).mask = next.mask =>
                          SecondHalf(currentNet).first = next.first
Assertions == phase = "generating" => \A next \in Least(networks) : IterationAssertions(next)

(* The assertions of the debug build hold in every iteration, for every    *)
(* set of routes without the two constellations.                           *)
AssertionsHold == Handled => Assertions

(* generateIPList() terminates, for every set of routes.                   *)
Terminates == (phase = "generating") ~> (phase = "done")
=============================================================================
