------------------------- MODULE HostTopologyProofs -------------------------
(***************************************************************************)
(* What Phases 1, 2 and 7 give, for every set of partitions, holders and   *)
(* mount points and every number of host actions: no user of the target    *)
(* appears while the claim is held, nothing that mountinfo identifies is   *)
(* mounted on it when success is said, and a host that is left alone and   *)
(* can be cleared is.                                                      *)
(***************************************************************************)
EXTENDS HostTopology, SequenceTheorems, FiniteSetTheorems, TLAPS

\* What a line of the mount table can say.
Line == UNION {Lines(n, p) : n \in Nodes, p \in Paths}

\* The table is one, and the claim excludes every user.
IInv ==
  /\ mounts \in Seq(Line)
  /\ swaps \subseteq Nodes
  /\ QuietWhileClaimed

\* No entry of the table t is on the target.
Untouched(t) == \A i \in DOMAIN t : t[i].dev \notin Target

LEMMA UntouchedIsUnmounted == MountsOn(Target) = {} <=> Untouched(mounts)
  BY DEF MountsOn, Untouched

\* A mount of n is a line of the table, and names n or no device at all.
LEMMA LinesNameDevice ==
  ASSUME NEW n \in Nodes, NEW p \in Paths, NEW m \in Lines(n, p)
  PROVE  m \in Line /\ m.dev = n /\ m.source \in {n, NoNode}
<1>1. m \in Line
  BY DEF Line
<1>2. m.dev = n /\ m.source \in {n, NoNode}
  BY DEF Lines
<1> QED  BY <1>1, <1>2

\* The source of a line is its device, or no device at all.
LEMMA LineNamesDevice ==
  ASSUME NEW m \in Line
  PROVE  m.source \in {m.dev, NoNode}
  BY LinesNameDevice DEF Line

\* An umount takes one entry out and moves the ones after it up.
LEMMA RemoveAtElements ==
  ASSUME NEW S, NEW s \in Seq(S), NEW i \in DOMAIN s
  PROVE  /\ RemoveAt(s, i) \in Seq(S)
         /\ Len(s) \in Nat /\ DOMAIN s = 1 .. Len(s)
         /\ DOMAIN RemoveAt(s, i) = 1 .. Len(s) - 1
         /\ \A j \in 1 .. Len(s) - 1 :
              RemoveAt(s, i)[j] = IF j < i THEN s[j] ELSE s[j + 1]
<1> DEFINE a == SubSeq(s, 1, i - 1)
           b == SubSeq(s, i + 1, Len(s))
<1>0. DOMAIN s = 1 .. Len(s)
  OBVIOUS
<1>1. i \in 1 .. Len(s) /\ Len(s) \in Nat
  OBVIOUS
<1>2. a \in Seq(S) /\ Len(a) = i - 1 /\ \A j \in 1 .. i - 1 : a[j] = s[j]
  BY <1>1
<1>3. /\ b \in Seq(S) /\ Len(b) = Len(s) - i
      /\ \A j \in 1 .. Len(s) - i : b[j] = s[i + j]
  BY <1>1
<1>4. RemoveAt(s, i) = a \o b
  BY DEF RemoveAt
<1> HIDE DEF a, b
<1>5. /\ a \o b \in Seq(S) /\ Len(a \o b) = Len(s) - 1
      /\ \A j \in 1 .. Len(s) - 1 : (a \o b)[j] = IF j < i THEN a[j] ELSE b[j - i + 1]
  BY <1>1, <1>2, <1>3
<1>6. ASSUME NEW j \in 1 .. Len(s) - 1
      PROVE  (a \o b)[j] = IF j < i THEN s[j] ELSE s[j + 1]
  <2>1. CASE j < i
    BY <1>1, <1>2, <1>5, <2>1
  <2>2. CASE ~(j < i)
    <3>1. (a \o b)[j] = IF j < i THEN a[j] ELSE b[j - i + 1]
      BY <1>5
    <3>2. (a \o b)[j] = b[j - i + 1]
      BY <2>2, <3>1, Zenon
    <3>3. j - i + 1 \in 1 .. Len(s) - i /\ i + (j - i + 1) = j + 1
      BY <1>1, <2>2
    <3>4. b[j - i + 1] = s[i + (j - i + 1)]
      BY <1>3, <3>3
    <3>5. (a \o b)[j] = s[j + 1]
      BY <3>2, <3>3, <3>4
    <3> QED  BY <2>2, <3>5, Zenon
  <2> QED  BY <2>1, <2>2
<1>7. DOMAIN (a \o b) = 1 .. Len(s) - 1
  BY <1>5
<1> QED  BY <1>0, <1>1, <1>4, <1>5, <1>6, <1>7

LEMMA RemoveAtKeeps ==
  ASSUME NEW S, NEW s \in Seq(S), NEW i \in DOMAIN s
  PROVE  /\ RemoveAt(s, i) \in Seq(S)
         /\ \A j \in DOMAIN RemoveAt(s, i) : \E k \in DOMAIN s : RemoveAt(s, i)[j] = s[k]
<1> DEFINE r == RemoveAt(s, i)
<1>1. /\ r \in Seq(S) /\ Len(s) \in Nat /\ DOMAIN s = 1 .. Len(s)
      /\ DOMAIN r = 1 .. Len(s) - 1
      /\ \A j \in 1 .. Len(s) - 1 : r[j] = IF j < i THEN s[j] ELSE s[j + 1]
  BY RemoveAtElements
<1> HIDE DEF r
<1>2. ASSUME NEW j \in DOMAIN r
      PROVE  \E k \in DOMAIN s : r[j] = s[k]
  <2>1. j \in 1 .. Len(s) - 1 /\ j \in DOMAIN s /\ j + 1 \in DOMAIN s
    BY <1>1
  <2>2. r[j] = s[j] \/ r[j] = s[j + 1]
    BY <1>1, <2>1
  <2> QED  BY <2>1, <2>2
<1> QED  BY <1>1, <1>2 DEF r

\* An umount makes no new user.
LEMMA UmountKeeps ==
  ASSUME mounts \in Seq(Line), NEW p, Umount(p)
  PROVE  mounts' \in Seq(Line) /\ (Untouched(mounts) => Untouched(mounts'))
<1>1. PICK i \in DOMAIN mounts : mounts' = RemoveAt(mounts, i)
  BY DEF Umount, TopAt
<1> QED  BY <1>1, RemoveAtKeeps DEF Untouched

LEMMA InitIInv == ASSUME Init PROVE IInv
<1>1. mounts \in Seq(Line)
  <2>1. PICK n \in 0 .. MaxMounts :
          mounts \in [1 .. n -> UNION {Lines(d, p) : d \in Nodes, p \in Paths}]
    BY DEF Init
  <2>3. n \in Nat
    BY TopologyAssumption
  <2> QED  BY <2>1, <2>3 DEF Line
<1>2. swaps \subseteq Nodes /\ ~excl
  <2>1. parts \subseteq Partitions /\ swaps \subseteq parts \cup {Foreign} /\ excl = FALSE
    BY DEF Init
  <2> QED  BY <2>1 DEF Nodes, Target
<1> QED  BY <1>1, <1>2 DEF IInv, QuietWhileClaimed

\* A step that adds no user keeps the invariant, whether it drops the claim or not.
LEMMA NoNewUser ==
  ASSUME IInv, mounts' \in Seq(Line), Untouched(mounts) => Untouched(mounts'),
         swaps' \subseteq swaps, holders' = holders, excl' = excl \/ ~excl'
  PROVE  IInv'
<1>1. swaps' \subseteq Nodes
  BY DEF IInv
<1>2. ASSUME excl' PROVE ~InUse'
  <2>1. ~InUse
    BY <1>2 DEF IInv, QuietWhileClaimed
  <2>2. Untouched(mounts') /\ swaps' \cap Target = {} /\ HeldBy(Target)' = {}
    BY <2>1, UntouchedIsUnmounted DEF InUse, HeldBy
  <2>3. MountsOn(Target)' = {}
    BY <2>2 DEF Untouched, MountsOn
  <2> QED  BY <2>2, <2>3 DEF InUse
<1> QED  BY <1>1, <1>2 DEF IInv, QuietWhileClaimed

LEMMA SameHost ==
  ASSUME IInv, mounts' = mounts, swaps' = swaps, holders' = holders,
         excl' = excl \/ ~excl'
  PROVE  IInv'
  BY NoNewUser DEF IInv

LEMMA RunKeeps == ASSUME IInv, Run PROVE IInv'
<1> USE DEF Refuse, Stop, GoTo, hostVars, runVars
<1>1. CASE \/ RejectStacked \/ BuildDevts \/ Scan \/ ScanSwaps \/ SwapoffFails \/ SwapsOff
  BY <1>1, SameHost DEF RejectStacked, BuildDevts, Scan, ScanSwaps, SwapoffFails, SwapsOff
<1>2. CASE Swapoff
  <2>1. swaps' \subseteq swaps /\ mounts' = mounts /\ holders' = holders /\ excl' = excl
    BY <1>2 DEF Swapoff
  <2> QED  BY <2>1, NoNewUser DEF IInv
<1>3. CASE Unmount
  <2>1. PICK i \in DOMAIN todo : Umount(todo[i].path)
    BY <1>3 DEF Unmount
  <2>2. swaps' = swaps /\ holders' = holders /\ excl' = excl
    BY <1>3 DEF Unmount
  <2> QED  BY <2>1, <2>2, UmountKeeps, NoNewUser DEF IInv
<1>4. CASE UnmountRefused \/ UnmountBusy \/ Unmounted \/ Rescan
  BY <1>4, SameHost DEF UnmountRefused, UnmountBusy, Unmounted, Rescan
<1>5. CASE Claim
  <2>1. CASE InUse
    BY <1>5, <2>1, SameHost DEF Claim
  <2>2. CASE ~InUse
    <3>1. mounts' = mounts /\ swaps' = swaps /\ holders' = holders
      BY <1>5, <2>2 DEF Claim
    <3>2. ~InUse'
      BY <2>2, <3>1 DEF InUse, MountsOn, HeldBy
    <3> QED  BY <3>1, <3>2 DEF IInv, QuietWhileClaimed
  <2> QED  BY <2>1, <2>2
<1>6. CASE RecheckStacked \/ RecheckMounts \/ Write \/ Release \/ Rebuild
  BY <1>6, SameHost DEF RecheckStacked, RecheckMounts, Write, Release, Rebuild
<1>7. CASE Sweep \/ SweepAgain \/ Verdict
  BY <1>7, SameHost DEF Sweep, SweepAgain, Verdict
<1>8. CASE SweepUnmount
  <2>1. swaps' = swaps /\ holders' = holders /\ excl' = excl
    BY <1>8 DEF SweepUnmount
  <2>2. Umount(Head(todo).path) \/ mounts' = mounts
    BY <1>8 DEF SweepUnmount
  <2> QED  BY <2>1, <2>2, UmountKeeps, NoNewUser DEF IInv
<1> QED  BY <1>1, <1>2, <1>3, <1>4, <1>5, <1>6, <1>7, <1>8 DEF Run

\* While the claim is held the host reaches the other disk only.
LEMMA FreeUnderClaim ==
  ASSUME excl, NEW n, Free(n)
  PROVE  n \notin Target
  BY TopologyAssumption DEF Free, Target

LEMMA HostKeeps == ASSUME IInv, Host PROVE IInv'
<1>0. excl' = excl
  BY DEF Host, HostMounts, HostUnmounts, HostSwaps, HostStacks, HostRepartitions,
         HostActs, runVars
<1>1. CASE HostMounts
  <2>0. PICK n \in Nodes, p \in Paths :
          Free(n) /\ \E m \in Lines(n, p) : mounts' = Append(mounts, m)
    BY <1>1 DEF HostMounts
  <2>1. PICK m \in Lines(n, p) : mounts' = Append(mounts, m)
    BY <2>0
  <2>2. swaps' = swaps /\ holders' = holders
    BY <1>1 DEF HostMounts
  <2>3. m \in Line /\ m.dev = n
    BY LinesNameDevice
  <2>4. /\ mounts' \in Seq(Line)
        /\ DOMAIN mounts' = 1 .. Len(mounts) + 1
        /\ \A i \in 1 .. Len(mounts) : mounts'[i] = mounts[i]
        /\ mounts'[Len(mounts) + 1] = m
    BY <2>1, <2>3 DEF IInv
  <2>5. CASE ~excl
    BY <1>0, <2>2, <2>4, <2>5 DEF IInv, QuietWhileClaimed
  <2>6. CASE excl
    <3>1. n \notin Target
      BY <2>0, <2>6, FreeUnderClaim
    <3>2. ASSUME Untouched(mounts), NEW i \in DOMAIN mounts'
          PROVE  mounts'[i].dev \notin Target
      <4>1. Len(mounts) \in Nat /\ DOMAIN mounts = 1 .. Len(mounts)
        BY DEF IInv
      <4>2. CASE i \in 1 .. Len(mounts)
        BY <2>4, <3>2, <4>1, <4>2 DEF Untouched
      <4>3. CASE i = Len(mounts) + 1
        BY <2>3, <2>4, <3>1, <4>3
      <4> QED  BY <2>4, <4>1, <4>2, <4>3
    <3> QED  BY <1>0, <2>2, <2>4, <3>2, NoNewUser DEF Untouched
  <2> QED  BY <2>5, <2>6
<1>2. CASE HostUnmounts
  BY <1>0, <1>2, UmountKeeps, NoNewUser DEF HostUnmounts, IInv
<1>3. CASE HostSwaps
  <2>1. PICK n \in Nodes : Free(n) /\ swaps' = swaps \cup {n}
    BY <1>3 DEF HostSwaps
  <2>2. mounts' = mounts /\ holders' = holders
    BY <1>3 DEF HostSwaps
  <2>3. ASSUME excl PROVE ~InUse'
    <3>1. n \notin Target /\ ~InUse
      BY <2>1, <2>3, FreeUnderClaim DEF IInv, QuietWhileClaimed
    <3> QED  BY <2>1, <2>2, <3>1 DEF InUse, MountsOn, HeldBy
  <2> QED  BY <1>0, <2>1, <2>2, <2>3 DEF IInv, QuietWhileClaimed
<1>4. CASE HostStacks
  <2>1. PICK n \in DiskAndPartitions, u \in Upper :
          Free(n) /\ holders' = holders \cup {<<n, u>>}
    BY <1>4 DEF HostStacks
  <2>2. mounts' = mounts /\ swaps' = swaps
    BY <1>4 DEF HostStacks
  <2>3. ASSUME excl PROVE ~InUse'
    <3>1. n \notin Target /\ ~InUse
      BY <2>1, <2>3, FreeUnderClaim DEF IInv, QuietWhileClaimed
    <3>2. HeldBy(Target)' = {}
      BY <2>1, <3>1 DEF InUse, HeldBy
    <3> QED  BY <2>2, <3>1, <3>2 DEF InUse, MountsOn
  <2> QED  BY <1>0, <2>2, <2>3 DEF IInv, QuietWhileClaimed
<1>5. CASE HostRepartitions
  BY <1>0, <1>5, SameHost DEF HostRepartitions
<1> QED  BY <1>1, <1>2, <1>3, <1>4, <1>5 DEF Host

\* Nothing is mounted, swapped on or stacked on the target while it is claimed,
\* whatever the host does and however often.
THEOREM ClaimIsQuiet == Spec => []QuietWhileClaimed
<1>1. Init => IInv
  BY InitIInv
<1>2. IInv /\ [Next]_vars => IInv'
  <2> SUFFICES ASSUME IInv, [Next]_vars PROVE IInv'
    OBVIOUS
  <2>1. CASE Terminated \/ UNCHANGED vars
    BY <2>1, SameHost DEF Terminated, vars, hostVars, runVars
  <2> QED  BY <2>1, RunKeeps, HostKeeps DEF Next
<1>3. IInv => QuietWhileClaimed
  BY DEF IInv
<1> QED  BY <1>1, <1>2, <1>3, PTL DEF Spec

-----------------------------------------------------------------------------
(* The verdict of Phase 7. *)

Sweeping == pc \in {"sweep", "sweep_unmount", "verdict"}

\* The sweep knows every partition that was there when it began.
NumbersAreNew == Sweeping => {Disk} \cup (parts \ late) \subseteq devts

LEMMA RunKeepsNumbers == ASSUME NumbersAreNew, Run PROVE NumbersAreNew'
<1> USE DEF Refuse, Stop, GoTo, hostVars, runVars, NumbersAreNew, Sweeping
<1>1. CASE \/ RejectStacked \/ BuildDevts \/ Scan \/ ScanSwaps \/ Swapoff
           \/ SwapoffFails \/ SwapsOff \/ Unmount \/ UnmountRefused \/ UnmountBusy
  BY <1>1 DEF RejectStacked, BuildDevts, Scan, ScanSwaps, Swapoff, SwapoffFails,
              SwapsOff, Unmount, UnmountRefused, UnmountBusy
<1>2. CASE \/ Unmounted \/ Rescan \/ Claim \/ RecheckStacked \/ RecheckMounts
           \/ Write \/ Release
  BY <1>2 DEF Unmounted, Rescan, Claim, RecheckStacked, RecheckMounts, Write, Release
<1>3. CASE Rebuild
  BY <1>3 DEF Rebuild, DiskAndPartitions
<1>4. CASE Sweep \/ Verdict
  BY <1>4 DEF Sweep, Verdict
<1>5. CASE SweepUnmount
  BY <1>5 DEF SweepUnmount
<1>6. CASE SweepAgain
  BY <1>6 DEF SweepAgain
<1> QED  BY <1>1, <1>2, <1>3, <1>4, <1>5, <1>6 DEF Run

LEMMA HostKeepsNumbers == ASSUME NumbersAreNew, Host PROVE NumbersAreNew'
<1>1. pc' = pc /\ devts' = devts
  BY DEF Host, HostMounts, HostUnmounts, HostSwaps, HostStacks, HostRepartitions,
         HostActs, runVars
<1>2. CASE HostRepartitions
  BY <1>1, <1>2 DEF HostRepartitions, NumbersAreNew, Sweeping
<1>3. CASE HostMounts \/ HostUnmounts \/ HostSwaps \/ HostStacks
  BY <1>1, <1>3 DEF HostMounts, HostUnmounts, HostSwaps, HostStacks, NumbersAreNew,
                    Sweeping
<1> QED  BY <1>2, <1>3 DEF Host

\* Only a scan that found nothing says ok.
LEMMA OkAfterEmptyScan ==
  ASSUME Next, result' = "ok", result # "ok"
  PROVE  Sweeping /\ NoneSeen(devts)
<1>1. CASE Run
  <2>1. Sweep \/ Verdict
    BY <1>1 DEF Run, Refuse, Stop, GoTo, RejectStacked, BuildDevts, Scan, ScanSwaps,
         Swapoff, SwapoffFails, SwapsOff, Unmount, UnmountRefused, UnmountBusy,
         Unmounted, Rescan, Claim, RecheckStacked, RecheckMounts, Write, Release,
         Rebuild, SweepUnmount, SweepAgain
  <2> QED  BY <2>1 DEF Sweep, Verdict, Stop, GoTo, Sweeping
<1>2. CASE Host \/ Terminated
  BY <1>2 DEF Host, HostMounts, HostUnmounts, HostSwaps, HostStacks, HostRepartitions,
              HostActs, Terminated, vars
<1> QED  BY <1>1, <1>2 DEF Next

\* Success is said over a device of which nothing is mounted by its own name.
THEOREM OkIsSafeToUnplug == Spec => SafeToUnplug
<1>1. Init => IInv /\ NumbersAreNew
  <2>1. Init => NumbersAreNew
    BY DEF Init, NumbersAreNew, Sweeping
  <2> QED  BY <2>1, InitIInv
<1>2. IInv /\ NumbersAreNew /\ [Next]_vars => (IInv /\ NumbersAreNew)'
  <2> SUFFICES ASSUME IInv, NumbersAreNew, [Next]_vars PROVE (IInv /\ NumbersAreNew)'
    OBVIOUS
  <2>1. CASE Terminated \/ UNCHANGED vars
    BY <2>1, SameHost DEF Terminated, vars, hostVars, runVars, NumbersAreNew, Sweeping
  <2> QED  BY <2>1, RunKeeps, HostKeeps, RunKeepsNumbers, HostKeepsNumbers DEF Next
<1>3. ASSUME IInv, NumbersAreNew, [Next]_vars
      PROVE  [(result' = "ok" /\ result # "ok") =>
                \A i \in MountsOn({Disk} \cup (parts \ late)) :
                  mounts[i].source = NoNode]_vars
  <2> SUFFICES ASSUME Next, result' = "ok", result # "ok",
                      NEW i \in MountsOn({Disk} \cup (parts \ late))
               PROVE  mounts[i].source = NoNode
    BY <1>3
  <2>1. NoneSeen(devts) /\ {Disk} \cup (parts \ late) \subseteq devts
    BY <1>3, OkAfterEmptyScan DEF NumbersAreNew
  <2>2. i \in DOMAIN mounts /\ mounts[i].dev \in devts
    BY <2>1 DEF MountsOn
  <2>3. mounts[i] \in Line
    BY <1>3, <2>2 DEF IInv
  <2>4. mounts[i].source \notin devts
    BY <2>1, <2>2 DEF NoneSeen, Seen
  <2> QED  BY <2>2, <2>3, <2>4, LineNamesDevice
<1> QED  BY <1>1, <1>2, <1>3, PTL DEF Spec, SafeToUnplug
-----------------------------------------------------------------------------
(* A host that is left alone is cleared. *)

BeforeWrite == {"stacked", "devts", "scan", "swap_scan", "swapoff", "unmount",
                "rescan", "claim", "recheck", "remounts"}

\* The entries of s at the path p, and how many there are.
At(s, p) == {i \in DOMAIN s : s[i].path = p}
Count(s, p) == Cardinality(At(s, p))

\* No entry of s is above an earlier one.
Nested(s) == \A i, j \in DOMAIN s : i < j => ~Under(s[i].path, s[j].path)

\* Phase 1 was given a host it can clear, and nothing has interfered.
LeftAlone == clean /\ ~busy /\ acts = 0

\* What Clearable says of the table.
ClearTable ==
  /\ \A i \in MountsOn(Target) :
       mounts[i].source # NoNode /\ IsWhitelisted(mounts[i].path)
  /\ \A i \in MountsOn(Partitions) : mounts[i].dev \in parts
  /\ MountsOn({Foreign}) = {} \/ MountsOn(Target) = {}

\* What is listed is what is mounted.
AllListed == todo \in Seq(Line) /\ \A p \in Paths : Count(todo, p) = Count(mounts, p)

\* What is left to unmount is all that is mounted, or nothing of the target is.
Listed ==
  \/ todo = << >> /\ MountsOn(Target) = {}
  \/ AllListed

Quiet == HeldBy(Target) = {} /\ Nested(mounts) /\ parts \subseteq Partitions
           /\ swaps \cap Target \subseteq parts

Cleared ==
  /\ result # "refused"
  /\ pc \in BeforeWrite => Quiet
  /\ pc \in BeforeWrite \ {"stacked", "devts"} => devts = DiskAndPartitions
  /\ pc \in {"stacked", "devts", "scan"} => ClearTable
  /\ pc \in {"swap_scan", "swapoff", "unmount"} => Listed
  /\ pc = "swapoff" => swaps \cap Target \subseteq offs
  /\ pc \in {"unmount", "rescan", "claim", "recheck", "remounts"} =>
       swaps \cap Target = {}
  /\ pc \in {"rescan", "claim", "recheck", "remounts"} => MountsOn(Target) = {}

Clears == acts \in Nat /\ (LeftAlone => Cleared)

\* A finite set of numbers that is not empty has a largest.
LEMMA LargestExists ==
  ASSUME NEW K, K \subseteq Nat, IsFiniteSet(K), K # {}
  PROVE  \E m \in K : \A j \in K : j <= m
<1> DEFINE From(k) == {j \in K : j >= k}
           Tails == {From(k) : k \in K}
<1>1. Tails \subseteq SUBSET K /\ Tails # {}
  OBVIOUS
<1>2. IsWellFoundedOn(StrictSubsetOrdering(K), SUBSET K)
  <2>1. IsWellFoundedOn(StrictSubsetOrdering(K), FiniteSubsetsOf(K))
    BY FS_StrictSubsetOrderingWellFounded
  <2>2. FiniteSubsetsOf(K) = SUBSET K
    BY FS_FiniteSubsetsOfFinite
  <2> QED  BY <2>1, <2>2
<1>3. PICK T \in Tails : \A U \in Tails : <<U, T>> \notin StrictSubsetOrdering(K)
  <2> HIDE DEF Tails
  <2> QED  BY <1>1, <1>2, WFMin
<1>4. PICK m \in K : T = From(m)
  OBVIOUS
<1>5. ASSUME NEW j \in K, j > m
      PROVE  FALSE
  <2>0. m \in Nat /\ j \in Nat /\ \A l \in K : l \in Nat
    OBVIOUS
  <2>1. From(j) \subseteq From(m)
    <3>1. \A l \in From(j) : l >= m
      BY <1>5, <2>0
    <3> QED  BY <3>1
  <2>4. m \in From(m) /\ m \notin From(j)
    BY <1>5, <2>0
  <2>2. From(j) \in SUBSET K /\ From(m) \in SUBSET K /\ From(j) \in Tails
    OBVIOUS
  <2>3. <<From(j), From(m)>> \in StrictSubsetOrdering(K)
    BY <2>1, <2>2, <2>4 DEF StrictSubsetOrdering
  <2> QED  BY <1>3, <1>4, <2>2, <2>3
<1>6. \A j \in K : j \in Nat /\ m \in Nat
  OBVIOUS
<1> QED  BY <1>5, <1>6

-----------------------------------------------------------------------------
(* What a scan finds. *)

\* A filter that keeps nothing, and one that keeps all.
LEMMA PickedNone ==
  ASSUME NEW s
  PROVE  Picked(s, {}) = << >>
<1>1. Cardinality({}) = 0
  BY FS_EmptySet
<1> QED  BY <1>1 DEF Picked

LEMMA PickedAll ==
  ASSUME NEW S, NEW s \in Seq(S)
  PROVE  Picked(s, DOMAIN s) = s
<1> DEFINE n == Len(s)
           rank(i) == Cardinality({j \in DOMAIN s : j <= i})
<1>1. n \in Nat /\ DOMAIN s = 1 .. n /\ s = [k \in 1 .. n |-> s[k]]
  OBVIOUS
<1>2. Cardinality(DOMAIN s) = n
  <2>1. Cardinality(1 .. n) = n
    BY <1>1, FS_Interval
  <2> QED  BY <1>1, <2>1
<1>3. ASSUME NEW i \in 1 .. n
      PROVE  rank(i) = i
  <2>1. {j \in DOMAIN s : j <= i} = 1 .. i
    BY <1>1
  <2>2. i \in Int /\ ~(1 > i) /\ i - 1 + 1 = i
    BY <1>1
  <2>3. Cardinality(1 .. i) = i
    BY <2>2, FS_Interval
  <2> QED  BY <2>1, <2>3
<1> HIDE DEF n, rank
<1>4. \A k \in 1 .. n : (CHOOSE i \in DOMAIN s : rank(i) = k) = k
  BY <1>1, <1>3
<1>5. Picked(s, DOMAIN s) = [k \in 1 .. n |-> s[CHOOSE i \in DOMAIN s : rank(i) = k]]
  BY <1>2 DEF Picked, rank
<1> QED  BY <1>1, <1>4, <1>5

-----------------------------------------------------------------------------
(* What an umount leaves. *)

LEMMA CountType ==
  ASSUME NEW S, NEW s \in Seq(S), NEW p
  PROVE  /\ IsFiniteSet(At(s, p)) /\ Count(s, p) \in Nat
         /\ Count(s, p) = 0 <=> At(s, p) = {}
<1>1. IsFiniteSet(DOMAIN s)
  <2>1. DOMAIN s = 1 .. Len(s) /\ Len(s) \in Int
    OBVIOUS
  <2>2. IsFiniteSet(1 .. Len(s))
    BY <2>1, FS_Interval
  <2> QED  BY <2>1, <2>2
<1>2. At(s, p) \in SUBSET (DOMAIN s)
  BY DEF At
<1>3. IsFiniteSet(At(s, p))
  BY <1>1, <1>2, FS_Subset
<1> QED  BY <1>3, FS_CardinalityType, FS_EmptySet DEF Count

\* The entry taken out is missed at its path and nowhere else.
LEMMA CountRemoved ==
  ASSUME NEW S, NEW s \in Seq(S), NEW i \in DOMAIN s, NEW p
  PROVE  Count(RemoveAt(s, i), p) =
           IF s[i].path = p THEN Count(s, p) - 1 ELSE Count(s, p)
<1> DEFINE r == RemoveAt(s, i)
           f == [j \in At(r, p) |-> IF j < i THEN j ELSE j + 1]
<1>1. /\ r \in Seq(S) /\ Len(s) \in Nat /\ DOMAIN s = 1 .. Len(s)
      /\ DOMAIN r = 1 .. Len(s) - 1
      /\ \A j \in 1 .. Len(s) - 1 : r[j] = IF j < i THEN s[j] ELSE s[j + 1]
  BY RemoveAtElements
<1> HIDE DEF r
<1>2. i \in 1 .. Len(s)
  BY <1>1
<1>3. ASSUME NEW j \in At(r, p)
      PROVE  f[j] \in At(s, p) \ {i}
  <2>1. j \in 1 .. Len(s) - 1 /\ r[j].path = p
    BY <1>1 DEF At
  <2>2. CASE j < i
    BY <1>1, <1>2, <2>1, <2>2 DEF At
  <2>3. CASE ~(j < i)
    BY <1>1, <1>2, <2>1, <2>3 DEF At
  <2> QED  BY <2>2, <2>3
<1>4. f \in [At(r, p) -> At(s, p) \ {i}]
  BY <1>3
<1>5. ASSUME NEW j \in At(r, p), NEW k \in At(r, p), f[j] = f[k]
      PROVE  j = k
  <2>1. j \in Int /\ k \in Int /\ i \in Int
    BY <1>1, <1>2 DEF At
  <2> QED  BY <1>5, <2>1
<1>6. ASSUME NEW k \in At(s, p) \ {i}
      PROVE  \E j \in At(r, p) : f[j] = k
  <2>1. k \in 1 .. Len(s) /\ k # i /\ s[k].path = p
    BY <1>1 DEF At
  <2>2. CASE k < i
    <3>1. k \in 1 .. Len(s) - 1
      BY <1>1, <1>2, <2>1, <2>2
    <3>2. k \in At(r, p)
      BY <1>1, <2>1, <2>2, <3>1 DEF At
    <3> QED  BY <2>2, <3>2
  <2>3. CASE k > i
    <3>1. k - 1 \in 1 .. Len(s) - 1 /\ ~(k - 1 < i) /\ (k - 1) + 1 = k
      BY <1>1, <1>2, <2>1, <2>3
    <3>2. k - 1 \in At(r, p)
      BY <1>1, <2>1, <3>1 DEF At
    <3> QED  BY <3>1, <3>2
  <2> QED  BY <1>2, <2>1, <2>2, <2>3
<1>7. ExistsBijection(At(r, p), At(s, p) \ {i})
  <2> HIDE DEF f
  <2>1. f \in Bijection(At(r, p), At(s, p) \ {i})
    BY <1>4, <1>5, <1>6 DEF Bijection, Injection, Surjection, IsInjective
  <2> QED  BY <2>1 DEF ExistsBijection
<1>8. Count(r, p) = Cardinality(At(s, p) \ {i})
  <2>1. IsFiniteSet(At(r, p))
    BY <1>1, CountType
  <2> QED  BY <1>7, <2>1, FS_Bijection DEF Count
<1>9. IsFiniteSet(At(s, p)) /\ (i \in At(s, p) <=> s[i].path = p)
  BY CountType DEF At
<1> QED  BY <1>8, <1>9, FS_RemoveElement DEF Count, r

\* The order of what is left is the order of the table.
LEMMA NestedRemoved ==
  ASSUME NEW S, NEW s \in Seq(S), NEW i \in DOMAIN s, Nested(s)
  PROVE  Nested(RemoveAt(s, i))
<1> DEFINE r == RemoveAt(s, i)
<1>1. /\ Len(s) \in Nat /\ DOMAIN s = 1 .. Len(s)
      /\ DOMAIN r = 1 .. Len(s) - 1
      /\ \A j \in 1 .. Len(s) - 1 : r[j] = IF j < i THEN s[j] ELSE s[j + 1]
  BY RemoveAtElements
<1> HIDE DEF r
<1>2. ASSUME NEW j \in DOMAIN r, NEW k \in DOMAIN r, j < k
      PROVE  ~Under(r[j].path, r[k].path)
  <2>1. PICK a \in DOMAIN s : r[j] = s[a] /\ (a = IF j < i THEN j ELSE j + 1)
    BY <1>1
  <2>2. PICK b \in DOMAIN s : r[k] = s[b] /\ (b = IF k < i THEN k ELSE k + 1)
    BY <1>1
  <2>3. a < b
    BY <1>1, <1>2, <2>1, <2>2
  <2> QED  BY <2>1, <2>2, <2>3 DEF Nested
<1> QED  BY <1>2 DEF Nested, r

-----------------------------------------------------------------------------
(* The order of the umounts. *)

LEMMA LinePath ==
  ASSUME NEW m \in Line
  PROVE  m.path \in Paths /\ Len(m.path) \in Nat
<1>1. m.path \in Paths
  BY DEF Line, Lines
<1> QED  BY <1>1, TopologyAssumption

\* Where something is mounted there is a last one.
LEMMA TopExists ==
  ASSUME mounts \in Seq(Line), NEW p, At(mounts, p) # {}
  PROVE  TopAt(p) # {}
<1>1. IsFiniteSet(At(mounts, p))
  BY CountType
<1>3. At(mounts, p) \subseteq Nat
  BY DEF At
<1>2. PICK k \in At(mounts, p) : \A j \in At(mounts, p) : j <= k
  BY <1>1, <1>3, LargestExists
<1> QED  BY <1>2 DEF At, TopAt

\* The deepest of all that is mounted has nothing beneath or above it.
LEMMA DeepestIsDetachable ==
  ASSUME mounts \in Seq(Line), AllListed, Nested(mounts),
         NEW i \in DOMAIN todo, DeepestFirst(i)
  PROVE  \E k \in TopAt(todo[i].path) : Detachable(k)
<1> DEFINE p == todo[i].path
<1>1. todo[i] \in Line /\ \A j \in DOMAIN todo : todo[j] \in Line
  BY DEF AllListed
<1>2. p \in Paths /\ Len(p) \in Nat
  BY <1>1, LinePath
<1>3. At(mounts, p) # {}
  <2>1. At(todo, p) # {}
    BY DEF At
  <2> QED  BY <1>2, <2>1, CountType DEF AllListed
<1>4. PICK k \in TopAt(p) : TRUE
  BY <1>3, TopExists
<1>5. k \in DOMAIN mounts /\ mounts[k].path = p
  BY <1>4 DEF TopAt
<1>6. ASSUME NEW j \in k + 1 .. Len(mounts)
      PROVE  ~Under(mounts[j].path, p) /\ ~Under(p, mounts[j].path)
  <2>0. k \in Nat /\ j \in DOMAIN mounts /\ k < j
    BY <1>5
  <2>1. ~Under(p, mounts[j].path)
    BY <1>5, <2>0 DEF Nested
  <2>2. mounts[j] \in Line
    BY <2>0
  <2>3. mounts[j].path \in Paths /\ Len(mounts[j].path) \in Nat
    BY <2>2, LinePath
  <2>4. At(mounts, mounts[j].path) # {}
    BY <2>0 DEF At
  <2>5. At(todo, mounts[j].path) # {}
    BY <2>3, <2>4, CountType DEF AllListed
  <2>6. PICK l \in DOMAIN todo : todo[l].path = mounts[j].path
    BY <2>5 DEF At
  <2>7. Len(mounts[j].path) <= Len(p)
    BY <2>6 DEF DeepestFirst
  <2>8. ~(Len(p) < Len(mounts[j].path))
    BY <1>2, <2>3, <2>7
  <2> QED  BY <2>1, <2>8 DEF Under
<1> QED  BY <1>4, <1>5, <1>6 DEF Detachable

\* Its umount leaves a list of all that is mounted.
LEMMA UnmountKeepsListed ==
  ASSUME mounts \in Seq(Line), AllListed, NEW i \in DOMAIN todo,
         NEW k \in TopAt(todo[i].path),
         mounts' = RemoveAt(mounts, k), todo' = RemoveAt(todo, i)
  PROVE  AllListed'
<1>1. k \in DOMAIN mounts /\ mounts[k].path = todo[i].path
  BY DEF TopAt
<1>2. todo' \in Seq(Line)
  BY RemoveAtElements DEF AllListed
<1>3. ASSUME NEW p \in Paths
      PROVE  Count(todo', p) = Count(mounts', p)
  <2>1. Count(todo', p) = IF todo[i].path = p THEN Count(todo, p) - 1 ELSE Count(todo, p)
    BY CountRemoved DEF AllListed
  <2>2. Count(mounts', p) =
          IF mounts[k].path = p THEN Count(mounts, p) - 1 ELSE Count(mounts, p)
    BY <1>1, CountRemoved
  <2>3. Count(todo, p) = Count(mounts, p)
    BY DEF AllListed
  <2> QED  BY <1>1, <2>1, <2>2, <2>3
<1> QED  BY <1>2, <1>3 DEF AllListed

\* With nothing left to do nothing is mounted.
LEMMA NothingListed ==
  ASSUME mounts \in Seq(Line), AllListed, todo = << >>
  PROVE  MountsOn(Target) = {}
<1>1. ASSUME NEW i \in DOMAIN mounts
      PROVE  FALSE
  <2>1. mounts[i] \in Line
    OBVIOUS
  <2>2. mounts[i].path \in Paths
    BY <2>1, LinePath
  <2>3. At(mounts, mounts[i].path) # {}
    BY DEF At
  <2>4. At(todo, mounts[i].path) # {}
    BY <2>2, <2>3, CountType DEF AllListed
  <2> QED  BY <2>4 DEF At
<1> QED  BY <1>1 DEF MountsOn

-----------------------------------------------------------------------------
(* What Phase 1 finds on a host it can clear. *)

LEMMA NothingStacked ==
  ASSUME HeldBy(Target) = {}, parts \subseteq Partitions
  PROVE  ~Stacked
<1>1. ASSUME NEW n \in DiskAndPartitions
      PROVE  HoldersOf(n) = {}
  <2>1. HeldBy({n} \cup {}) = {}
    BY DEF DiskAndPartitions, Target, HeldBy
  <2> QED  BY <2>1 DEF HoldersOf
<1> QED  BY <1>1 DEF Stacked

\* The scan takes all of the table or nothing of it.
LEMMA ScanFindsAll ==
  ASSUME mounts \in Seq(Line), ClearTable, parts \subseteq Partitions,
         devts = DiskAndPartitions
  PROVE  /\ ~Offender(MountsSeen(devts))
         /\ \/ MountsSeen(devts) = << >> /\ MountsOn(Target) = {}
            \/ MountsSeen(devts) = mounts
<1> DEFINE kept == {i \in DOMAIN mounts : Seen(mounts[i], devts)}
<1>1. MountsSeen(devts) = Picked(mounts, kept)
  BY DEF MountsSeen
<1>2. devts \subseteq Target /\ NoNode \notin devts /\ Foreign \notin devts
  BY TopologyAssumption DEF TopologyAssumption, DiskAndPartitions, Target
<1>3. ASSUME NEW m \in Line
      PROVE  /\ m.dev \in Nodes
             /\ m.devt \in {m.dev, NoNode} /\ m.source \in {m.dev, NoNode}
  BY DEF Line, Lines
<1>4. ASSUME NEW i \in DOMAIN mounts
      PROVE  mounts[i] \in Line
  OBVIOUS
<1>5. CASE MountsOn(Target) = {}
  <2>1. ASSUME NEW i \in DOMAIN mounts
        PROVE  ~Seen(mounts[i], devts)
    <3>1. mounts[i].dev \notin Target
      BY <1>5 DEF MountsOn
    <3>2. mounts[i].dev \notin devts
      BY <1>2, <3>1
    <3> QED  BY <1>2, <1>3, <1>4, <3>2 DEF Seen
  <2>2. kept = {}
    BY <2>1
  <2>3. MountsSeen(devts) = << >>
    BY <1>1, <2>2, PickedNone
  <2> QED  BY <1>5, <2>3 DEF Offender
<1>6. CASE MountsOn({Foreign}) = {}
  <2>1. ASSUME NEW i \in DOMAIN mounts
        PROVE  /\ Seen(mounts[i], devts)
               /\ IsWhitelisted(mounts[i].path)
    <3>1. mounts[i].dev \in Target
      BY <1>3, <1>4, <1>6 DEF MountsOn, Nodes
    <3>2. mounts[i].source # NoNode /\ IsWhitelisted(mounts[i].path)
      BY <3>1 DEF ClearTable, MountsOn
    <3>3. mounts[i].dev \in devts
      BY <3>1 DEF ClearTable, MountsOn, Target, DiskAndPartitions
    <3> QED  BY <1>3, <1>4, <3>2, <3>3 DEF Seen
  <2>2. kept = DOMAIN mounts
    BY <2>1
  <2>3. MountsSeen(devts) = mounts
    BY <1>1, <2>2, PickedAll
  <2> QED  BY <2>1, <2>3 DEF Offender
<1> QED  BY <1>5, <1>6 DEF ClearTable

\* A target on which nothing is mounted is not in the table.
LEMMA NothingSeen ==
  ASSUME mounts \in Seq(Line), MountsOn(Target) = {}, parts \subseteq Partitions,
         devts = DiskAndPartitions
  PROVE  NoneSeen(devts)
<1>1. devts \subseteq Target /\ NoNode \notin devts
  BY TopologyAssumption DEF TopologyAssumption, DiskAndPartitions, Target
<1>2. ASSUME NEW i \in DOMAIN mounts
      PROVE  ~Seen(mounts[i], devts)
  <2>1. mounts[i] \in Line
    OBVIOUS
  <2>2. mounts[i].devt \in {mounts[i].dev, NoNode}
          /\ mounts[i].source \in {mounts[i].dev, NoNode}
    BY <2>1 DEF Line, Lines
  <2>3. mounts[i].dev \notin devts
    BY <1>1 DEF MountsOn
  <2> QED  BY <1>1, <2>2, <2>3 DEF Seen
<1> QED  BY <1>2 DEF NoneSeen

-----------------------------------------------------------------------------
(* Phase 1 does clear it. *)

LEMMA InitClears == ASSUME Init PROVE Clears
<1>1. ASSUME LeftAlone PROVE Cleared
  <2>1. Clearable /\ pc = "stacked" /\ result = "running"
    BY <1>1 DEF Init, LeftAlone
  <2>2. ClearTable
    <3>1. \A i \in MountsOn(Partitions) : mounts[i].dev \in parts
      BY DEF Init
    <3> QED  BY <2>1, <3>1 DEF ClearTable, Clearable, MountsOn
  <2>3. Quiet
    <3>1. HeldBy(Target) = {} /\ parts \subseteq Partitions
      BY <2>1 DEF Init, Clearable
    <3>2. Nested(mounts)
      BY DEF Init, Nested
    <3>3. swaps \cap Target \subseteq parts
      <4>1. swaps \subseteq parts \cup {Foreign} /\ Foreign \notin Target
        BY TopologyAssumption DEF Init, TopologyAssumption, Target
      <4> QED  BY <4>1
    <3> QED  BY <3>1, <3>2, <3>3 DEF Quiet
  <2> QED  BY <2>1, <2>2, <2>3 DEF Cleared, BeforeWrite
<1>2. acts \in Nat
  BY DEF Init
<1> QED  BY <1>1, <1>2 DEF Clears

\* The host as Phase 1 knows it, unchanged.
LEMMA QuietStays ==
  ASSUME hostVars' = hostVars
  PROVE  /\ Quiet' = Quiet /\ DiskAndPartitions' = DiskAndPartitions
         /\ ClearTable' = ClearTable /\ MountsOn(Target)' = MountsOn(Target)
  BY DEF hostVars, Quiet, DiskAndPartitions, ClearTable, MountsOn, HeldBy, Nested

LEMMA ListedStays ==
  ASSUME mounts' = mounts, todo' = todo
  PROVE  Listed' = Listed
<1>1. MountsOn(Target)' = MountsOn(Target)
  BY DEF MountsOn
<1>2. AllListed' = AllListed
  BY DEF AllListed, Count, At
<1> QED  BY <1>1, <1>2 DEF Listed

\* No step of Phase 1 or of Phase 2 is refused.
LEMMA Phase1Clears ==
  ASSUME IInv, LeftAlone, Cleared, LeftAlone', Run,
         pc \in BeforeWrite \ {"claim", "recheck", "remounts"}
  PROVE  Cleared'
<1> USE DEF Refuse, Stop, GoTo, runVars, BeforeWrite
<1>0. /\ mounts \in Seq(Line) /\ Quiet /\ parts \subseteq Partitions
      /\ HeldBy(Target) = {} /\ Nested(mounts) /\ ~busy'
  BY DEF IInv, Cleared, Quiet, LeftAlone
<1>1. CASE RejectStacked
  <2>1. ~Stacked
    BY <1>0, NothingStacked
  <2>2. pc = "stacked" /\ pc' = "devts" /\ hostVars' = hostVars /\ result' = result
    BY <1>1, <2>1 DEF RejectStacked
  <2> QED  BY <2>2, QuietStays DEF Cleared
<1>2. CASE BuildDevts
  <2>1. /\ pc = "devts" /\ pc' = "scan" /\ hostVars' = hostVars /\ result' = result
        /\ devts' = DiskAndPartitions
    BY <1>2 DEF BuildDevts
  <2> QED  BY <2>1, QuietStays DEF Cleared
<1>3. CASE Scan
  <2>1. pc = "scan" /\ ClearTable /\ devts = DiskAndPartitions
    BY <1>3 DEF Scan, Cleared
  <2>2. /\ ~Offender(MountsSeen(devts))
        /\ \/ MountsSeen(devts) = << >> /\ MountsOn(Target) = {}
           \/ MountsSeen(devts) = mounts
    BY <1>0, <2>1, ScanFindsAll
  <2>3. /\ todo' = MountsSeen(devts) /\ pc' = "swap_scan" /\ hostVars' = hostVars
        /\ devts' = devts /\ result' = result
    BY <1>3, <2>2 DEF Scan
  <2>4. Listed'
    <3>1. CASE MountsSeen(devts) = << >> /\ MountsOn(Target) = {}
      BY <2>3, <3>1, QuietStays DEF Listed
    <3>2. CASE MountsSeen(devts) = mounts
      <4>1. todo' = mounts /\ mounts' = mounts
        BY <2>3, <3>2 DEF hostVars
      <4> QED  BY <1>0, <4>1 DEF Listed, AllListed, Count, At
    <3> QED  BY <2>2, <3>1, <3>2
  <2> QED  BY <2>1, <2>3, <2>4, QuietStays DEF Cleared
<1>4. CASE ScanSwaps
  <2>1. /\ pc = "swap_scan" /\ pc' = "swapoff" /\ hostVars' = hostVars /\ result' = result
        /\ devts' = devts /\ todo' = todo /\ offs' = swaps \cap devts
    BY <1>4 DEF ScanSwaps
  <2>2. Listed' /\ devts = DiskAndPartitions
    BY <2>1, ListedStays DEF Cleared, hostVars
  <2>3. (swaps \cap Target \subseteq offs)'
    BY <1>0, <2>1, <2>2 DEF Quiet, DiskAndPartitions, hostVars
  <2> QED  BY <2>1, <2>2, <2>3, QuietStays DEF Cleared
<1>5. CASE Swapoff
  <2>1. /\ pc = "swapoff" /\ pc' = "swapoff" /\ result' = result
        /\ parts' = parts /\ mounts' = mounts /\ holders' = holders
        /\ devts' = devts /\ todo' = todo
    BY <1>5 DEF Swapoff
  <2>2. PICK n \in offs : swaps' = swaps \ {n} /\ offs' = offs \ {n}
    BY <1>5 DEF Swapoff
  <2>3. Listed' /\ devts' = DiskAndPartitions'
    BY <2>1, ListedStays DEF Cleared, DiskAndPartitions
  <2>4. (swaps \cap Target \subseteq offs)'
    BY <2>1, <2>2 DEF Cleared
  <2>5. Quiet'
    BY <1>0, <2>1, <2>2 DEF Quiet, HeldBy, Nested
  <2> QED  BY <2>1, <2>3, <2>4, <2>5 DEF Cleared
<1>6. CASE SwapoffFails \/ UnmountBusy
  BY <1>0, <1>6 DEF SwapoffFails, UnmountBusy
<1>7. CASE SwapsOff
  <2>1. /\ pc = "swapoff" /\ pc' = "unmount" /\ hostVars' = hostVars /\ result' = result
        /\ devts' = devts /\ todo' = todo /\ offs = {}
    BY <1>7 DEF SwapsOff
  <2>2. Listed' /\ swaps' \cap Target = {}
    BY <2>1, ListedStays DEF Cleared, hostVars
  <2> QED  BY <2>1, <2>2, QuietStays DEF Cleared
<1>8. CASE Unmount
  <2>1. /\ pc = "unmount" /\ pc' = "unmount" /\ result' = result
        /\ parts' = parts /\ swaps' = swaps /\ holders' = holders /\ devts' = devts
    BY <1>8 DEF Unmount
  <2>2. PICK i \in DOMAIN todo :
          Next1(i) /\ Umount(todo[i].path) /\ todo' = RemoveAt(todo, i)
    BY <1>8 DEF Unmount
  <2>3. PICK k \in TopAt(todo[i].path) : mounts' = RemoveAt(mounts, k)
    BY <2>2 DEF Umount
  <2>4. AllListed
    <3>1. todo # << >>
      BY <2>2
    <3> QED  BY <2>1, <3>1 DEF Cleared, Listed
  <2>5. AllListed'
    BY <1>0, <2>2, <2>3, <2>4, UnmountKeepsListed
  <2>6. k \in DOMAIN mounts
    BY <2>3 DEF TopAt
  <2>7. Nested(mounts')
    BY <1>0, <2>3, <2>6, NestedRemoved
  <2>8. Quiet'
    BY <1>0, <2>1, <2>7 DEF Quiet, HeldBy, Nested
  <2>9. swaps' \cap Target = {} /\ devts' = DiskAndPartitions'
    BY <2>1 DEF Cleared, DiskAndPartitions
  <2> QED  BY <2>1, <2>5, <2>8, <2>9 DEF Cleared, Listed
<1>9. CASE UnmountRefused
  <2>1. PICK i \in DOMAIN todo :
          Next1(i) /\ ~\E k \in TopAt(todo[i].path) : Detachable(k)
    BY <1>9 DEF UnmountRefused
  <2>2. AllListed
    <3>1. todo # << >> /\ pc = "unmount"
      BY <1>9, <2>1 DEF UnmountRefused
    <3> QED  BY <3>1 DEF Cleared, Listed
  <2> QED  BY <1>0, <2>1, <2>2, DeepestIsDetachable DEF Next1
<1>10. CASE Unmounted
  <2>1. /\ pc = "unmount" /\ pc' = "rescan" /\ hostVars' = hostVars /\ result' = result
        /\ devts' = devts /\ todo = << >>
    BY <1>10 DEF Unmounted
  <2>2. MountsOn(Target) = {}
    BY <1>0, <2>1, NothingListed DEF Cleared, Listed
  <2>3. swaps' \cap Target = {}
    BY <2>1 DEF Cleared, hostVars
  <2> QED  BY <2>1, <2>2, <2>3, QuietStays DEF Cleared
<1>11. CASE Rescan
  <2>1. /\ pc = "rescan" /\ devts = DiskAndPartitions /\ MountsOn(Target) = {}
        /\ swaps \cap Target = {}
    BY <1>11 DEF Rescan, Cleared
  <2>2. NoneSeen(devts)
    BY <1>0, <2>1, NothingSeen
  <2>3. pc' = "claim" /\ hostVars' = hostVars /\ result' = result /\ devts' = devts
    BY <1>11, <2>2 DEF Rescan
  <2>4. swaps' \cap Target = {}
    BY <2>1, <2>3 DEF hostVars
  <2> QED  BY <2>1, <2>3, <2>4, QuietStays DEF Cleared
<1>12. ~(\/ Claim \/ RecheckStacked \/ RecheckMounts \/ Write \/ Release \/ Rebuild
         \/ Sweep \/ SweepUnmount \/ SweepAgain \/ Verdict)
  BY DEF Claim, RecheckStacked, RecheckMounts, Write, Release, Rebuild, Sweep,
         SweepUnmount, SweepAgain, Verdict
<1> QED  BY <1>1, <1>2, <1>3, <1>4, <1>5, <1>6, <1>7, <1>8, <1>9, <1>10, <1>11, <1>12
            DEF Run

\* Nor is the claim, or what is looked at again under it.
LEMMA Phase2Clears ==
  ASSUME IInv, LeftAlone, Cleared, Run, pc \in {"claim", "recheck", "remounts"}
  PROVE  Cleared'
<1> USE DEF Refuse, Stop, GoTo, runVars, BeforeWrite
<1>0. /\ mounts \in Seq(Line) /\ Quiet /\ parts \subseteq Partitions
      /\ HeldBy(Target) = {} /\ MountsOn(Target) = {} /\ swaps \cap Target = {}
      /\ devts = DiskAndPartitions
  BY DEF IInv, Cleared, Quiet
<1>1. CASE Claim
  <2>1. ~InUse
    BY <1>0 DEF InUse
  <2>2. /\ pc = "claim" /\ pc' = "recheck" /\ hostVars' = hostVars /\ result' = result
        /\ devts' = devts
    BY <1>1, <2>1 DEF Claim
  <2>3. swaps' \cap Target = {}
    BY <1>0, <2>2 DEF hostVars
  <2> QED  BY <1>0, <2>2, <2>3, QuietStays DEF Cleared
<1>2. CASE RecheckStacked
  <2>1. ~Stacked
    BY <1>0, NothingStacked
  <2>2. /\ pc = "recheck" /\ pc' = "remounts" /\ hostVars' = hostVars
        /\ result' = result /\ devts' = devts
    BY <1>2, <2>1 DEF RecheckStacked
  <2>3. swaps' \cap Target = {}
    BY <1>0, <2>2 DEF hostVars
  <2> QED  BY <1>0, <2>2, <2>3, QuietStays DEF Cleared
<1>3. CASE RecheckMounts
  <2>1. NoneSeen(devts)
    BY <1>0, NothingSeen
  <2>2. pc' = "write" /\ result' = result
    BY <1>3, <2>1 DEF RecheckMounts
  <2> QED  BY <2>2 DEF Cleared
<1>4. ~(\/ RejectStacked \/ BuildDevts \/ Scan \/ ScanSwaps \/ Swapoff \/ SwapoffFails
        \/ SwapsOff \/ Unmount \/ UnmountRefused \/ UnmountBusy \/ Unmounted \/ Rescan)
  BY DEF RejectStacked, BuildDevts, Scan, ScanSwaps, Swapoff, SwapoffFails, SwapsOff,
         Unmount, UnmountRefused, UnmountBusy, Unmounted, Rescan
<1>5. ~(\/ Write \/ Release \/ Rebuild \/ Sweep \/ SweepUnmount \/ SweepAgain \/ Verdict)
  BY DEF Write, Release, Rebuild, Sweep, SweepUnmount, SweepAgain, Verdict
<1> QED  BY <1>1, <1>2, <1>3, <1>4, <1>5 DEF Run

\* From the write on nothing is refused any more.
LEMMA LaterClears ==
  ASSUME LeftAlone, Cleared, Run, pc \notin BeforeWrite
  PROVE  Cleared'
<1> USE DEF Refuse, Stop, GoTo, BeforeWrite
<1>1. Write \/ Release \/ Rebuild \/ Sweep \/ SweepUnmount \/ SweepAgain \/ Verdict
  BY DEF Run, RejectStacked, BuildDevts, Scan, ScanSwaps, Swapoff, SwapoffFails,
         SwapsOff, Unmount, UnmountRefused, UnmountBusy, Unmounted, Rescan, Claim,
         RecheckStacked, RecheckMounts
<1>2. CASE Write \/ Release \/ Rebuild
  BY <1>2 DEF Write, Release, Rebuild, Cleared
<1>3. CASE Sweep
  BY <1>3 DEF Sweep, Cleared
<1>4. CASE SweepUnmount
  BY <1>4 DEF SweepUnmount, Cleared
<1>5. CASE SweepAgain
  BY <1>5 DEF SweepAgain, Cleared
<1>6. CASE Verdict
  BY <1>6 DEF Verdict, Cleared
<1> QED  BY <1>1, <1>2, <1>3, <1>4, <1>5, <1>6

\* The run neither makes the host clearable nor calls back what has happened.
LEMMA RunIsAlone ==
  ASSUME Run, acts \in Nat
  PROVE  acts' \in Nat /\ (LeftAlone' => LeftAlone)
<1> USE DEF Refuse, Stop, GoTo, LeftAlone
<1>1. CASE \/ RejectStacked \/ BuildDevts \/ Scan \/ ScanSwaps \/ Swapoff
           \/ SwapoffFails \/ SwapsOff \/ Unmount \/ UnmountRefused \/ UnmountBusy
  BY <1>1 DEF RejectStacked, BuildDevts, Scan, ScanSwaps, Swapoff, SwapoffFails,
              SwapsOff, Unmount, UnmountRefused, UnmountBusy
<1>2. CASE \/ Unmounted \/ Rescan \/ Claim \/ RecheckStacked \/ RecheckMounts
           \/ Write \/ Release \/ Rebuild
  BY <1>2 DEF Unmounted, Rescan, Claim, RecheckStacked, RecheckMounts, Write, Release,
              Rebuild
<1>3. CASE Sweep \/ SweepUnmount \/ SweepAgain \/ Verdict
  BY <1>3 DEF Sweep, SweepUnmount, SweepAgain, Verdict
<1> QED  BY <1>1, <1>2, <1>3 DEF Run

LEMMA HostInterferes ==
  ASSUME Host, acts \in Nat
  PROVE  acts' \in Nat /\ ~LeftAlone'
<1>1. acts' = acts + 1
  BY DEF Host, HostMounts, HostUnmounts, HostSwaps, HostStacks, HostRepartitions,
         HostActs
<1> QED  BY <1>1 DEF LeftAlone

\* A refusal has a cause: something was in the way that Phase 1 may not or cannot
\* take away, a device was in use, or somebody else acted.
THEOREM RefusalsHaveCause == Spec => []RefusalHasCause
<1>1. Init => IInv /\ Clears
  BY InitIInv, InitClears
<1>2. IInv /\ Clears /\ [Next]_vars => (IInv /\ Clears)'
  <2> SUFFICES ASSUME IInv, Clears, [Next]_vars PROVE (IInv /\ Clears)'
    OBVIOUS
  <2>1. CASE Run
    <3>1. acts' \in Nat /\ (LeftAlone' => LeftAlone)
      BY <2>1, RunIsAlone DEF Clears
    <3>2. ASSUME LeftAlone' PROVE Cleared'
      <4>1. LeftAlone /\ Cleared
        BY <3>1, <3>2 DEF Clears
      <4> QED  BY <2>1, <3>2, <4>1, Phase1Clears, Phase2Clears, LaterClears
    <3> QED  BY <2>1, <3>1, <3>2, RunKeeps DEF Clears
  <2>2. CASE Host
    BY <2>2, HostKeeps, HostInterferes DEF Clears
  <2>3. CASE Terminated \/ UNCHANGED vars
    <3>1. UNCHANGED vars
      BY <2>3 DEF Terminated
    <3>2. IInv'
      BY <3>1, SameHost DEF vars, hostVars, runVars
    <3>3. hostVars' = hostVars /\ mounts' = mounts /\ todo' = todo
      BY <3>1 DEF vars, hostVars, runVars
    <3>4. Listed' = Listed /\ Quiet' = Quiet /\ DiskAndPartitions' = DiskAndPartitions
            /\ ClearTable' = ClearTable /\ MountsOn(Target)' = MountsOn(Target)
      BY <3>3, ListedStays, QuietStays
    <3>5. (LeftAlone' = LeftAlone) /\ (Cleared' = Cleared) /\ acts' = acts
      BY <3>1, <3>4 DEF LeftAlone, Cleared, vars, hostVars, runVars
    <3> QED  BY <3>2, <3>5 DEF Clears
  <2> QED  BY <2>1, <2>2, <2>3 DEF Next
<1>3. Clears => RefusalHasCause
  BY DEF Clears, LeftAlone, Cleared, RefusalHasCause
<1> QED  BY <1>1, <1>2, <1>3, PTL DEF Spec

-----------------------------------------------------------------------------
(* The types of the state. *)

\* The elements of a finite set of numbers have the ranks from 1 to their number.
LEMMA RanksAreOnto ==
  ASSUME NEW K, K \subseteq Nat, IsFiniteSet(K), NEW k \in 1 .. Cardinality(K)
  PROVE  \E i \in K : Cardinality({j \in K : j <= i}) = k
<1> DEFINE upTo(i) == {j \in K : j <= i}
           N == 1 .. Cardinality(K)
           rank == [i \in K |-> Cardinality(upTo(i))]
<1>1. Cardinality(K) \in Nat
  BY FS_CardinalityType
<1>2. ASSUME NEW i \in K
      PROVE  /\ IsFiniteSet(upTo(i)) /\ Cardinality(upTo(i)) \in N
             /\ \A j \in K : Cardinality(upTo(j)) = Cardinality(upTo(i)) => i = j
  <2>1. upTo(i) \in SUBSET K /\ i \in upTo(i)
    OBVIOUS
  <2>2. IsFiniteSet(upTo(i)) /\ Cardinality(upTo(i)) <= Cardinality(K)
    BY <2>1, FS_Subset
  <2>3. Cardinality(upTo(i)) \in Nat /\ Cardinality(upTo(i)) # 0
    BY <2>1, <2>2, FS_CardinalityType, FS_EmptySet
  <2>4. ASSUME NEW j \in K, Cardinality(upTo(j)) = Cardinality(upTo(i))
        PROVE  i = j
    <3>0. i \in Nat /\ j \in Nat /\ \A l \in K : l \in Nat
      OBVIOUS
    <3>1. upTo(j) \in SUBSET K /\ j \in upTo(j)
      OBVIOUS
    <3>2. IsFiniteSet(upTo(j))
      BY <3>1, FS_Subset
    <3>3. CASE j <= i
      <4>0. \A l \in K : l <= j => l <= i
        BY <3>0, <3>3
      <4>1. upTo(j) \in SUBSET upTo(i)
        BY <4>0
      <4>2. upTo(i) = upTo(j)
        BY <2>2, <2>4, <4>1, FS_Subset
      <4>3. i \in upTo(j)
        BY <2>1, <4>2
      <4>4. i <= j
        BY <4>3
      <4> QED
        BY <3>0, <3>3, <4>4
    <3>4. CASE i <= j
      <4>0. \A l \in K : l <= i => l <= j
        BY <3>0, <3>4
      <4>1. upTo(i) \in SUBSET upTo(j)
        BY <4>0
      <4>2. upTo(i) = upTo(j)
        BY <2>4, <3>2, <4>1, FS_Subset
      <4>3. j \in upTo(i)
        BY <3>1, <4>2
      <4>4. j <= i
        BY <4>3
      <4> QED
        BY <3>0, <3>4, <4>4
    <3> QED
      BY <3>0, <3>3, <3>4
  <2> HIDE DEF upTo
  <2>5. Cardinality(upTo(i)) \in N
    BY <1>1, <2>2, <2>3
  <2> QED
    BY <2>2, <2>4, <2>5
<1> HIDE DEF upTo
<1>3. rank \in Injection(K, N)
  BY <1>2 DEF Injection, IsInjective
<1>4. IsFiniteSet(N) /\ Cardinality(N) = Cardinality(K)
  BY <1>1, FS_Interval
<1> HIDE DEF rank, N
<1>5. rank \in Surjection(K, N)
  BY <1>3, <1>4, FS_Injection
<1>6. PICK i \in K : rank[i] = k
  BY <1>5 DEF Surjection, N
<1>7. Cardinality(upTo(i)) = k
  BY <1>6 DEF rank
<1> QED
  BY <1>7 DEF upTo

\* A filter yields elements that it keeps.
LEMMA PickedElements ==
  ASSUME NEW S, NEW s, NEW kept, kept \subseteq Nat, IsFiniteSet(kept),
         \A i \in kept : s[i] \in S
  PROVE  Picked(s, kept) \in Seq(S)
<1> DEFINE n == Cardinality(kept)
           at(k) == CHOOSE i \in kept : Cardinality({j \in kept : j <= i}) = k
<1>1. n \in Nat
  BY FS_CardinalityType
<1>2. ASSUME NEW k \in 1 .. n
      PROVE  at(k) \in kept
  <2>1. \E i \in kept : Cardinality({j \in kept : j <= i}) = k
    BY RanksAreOnto
  <2> QED
    BY <2>1, Zenon
<1>3. Picked(s, kept) = [k \in 1 .. n |-> s[at(k)]]
  BY DEF Picked
<1> HIDE DEF n, at
<1>4. [k \in 1 .. n |-> s[at(k)]] \in [1 .. n -> S]
  BY <1>2
<1> DEFINE picked == Picked(s, kept)
<1>5. picked \in [1 .. n -> S]
  BY <1>3, <1>4, Zenon
<1> HIDE DEF picked
<1>6. picked \in Seq(S)
  BY <1>1, <1>5
<1> QED
  BY <1>6 DEF picked

\* What a scan lists are lines of the table.
LEMMA SeenAreMounts ==
  ASSUME NEW T, mounts \in Seq(T), NEW S
  PROVE  MountsSeen(S) \in Seq(T)
<1> DEFINE kept == {i \in DOMAIN mounts : Seen(mounts[i], S)}
<1>1. DOMAIN mounts = 1 .. Len(mounts) /\ Len(mounts) \in Nat
  OBVIOUS
<1>2. kept \in SUBSET (1 .. Len(mounts)) /\ IsFiniteSet(1 .. Len(mounts))
  BY <1>1, FS_Interval
<1>3. IsFiniteSet(kept) /\ kept \subseteq Nat
  BY <1>1, <1>2, FS_Subset
<1>4. \A i \in kept : mounts[i] \in T
  OBVIOUS
<1>5. MountsSeen(S) = Picked(mounts, kept)
  BY DEF MountsSeen
<1> HIDE DEF kept
<1> QED
  BY <1>3, <1>4, <1>5, PickedElements

\* The types, and that the sweep has at most three passes.
Types == TypeOK /\ (pc \notin {"verdict", "done"} => pass <= 3)

LEMMA InitTypes == ASSUME Init PROVE Types
<1>1. PICK n \in 0 .. MaxMounts :
        mounts \in [1 .. n -> UNION {Lines(d, p) : d \in Nodes, p \in Paths}]
  BY DEF Init
<1>2. n \in Nat /\ n <= MaxMounts /\ MaxMounts \in Nat /\ MaxActs \in Nat
  BY <1>1, TopologyAssumption DEF TopologyAssumption
<1>3. Line \subseteq Mount
  BY DEF Line, Lines, Mount, Target
<1>4. mounts \in Seq(Mount) /\ Len(mounts) = n
  BY <1>1, <1>2, <1>3 DEF Line
<1>5. parts \subseteq Partitions /\ swaps \subseteq Nodes
  BY DEF Init, Nodes, Target
<1>6. holders \subseteq (Nodes \cup Upper) \X Upper
  <2>1. holders \subseteq (parts \X Upper) \cup {h \in Upper \X Upper : h[1] # h[2]}
    BY DEF Init
  <2>2. parts \subseteq Nodes
    BY <1>5 DEF Nodes, Target
  <2> QED
    BY <2>1, <2>2
<1>7. clean \in BOOLEAN
  BY DEF Init, Clearable
<1>8. /\ acts = 0 /\ pc = "stacked" /\ devts = {} /\ todo = << >> /\ offs = {}
      /\ pass = 1 /\ excl = FALSE /\ busy = FALSE /\ late = {} /\ result = "running"
  BY DEF Init
<1>9. pc \in Steps /\ todo \in Seq(Mount) /\ acts \in 0 .. MaxActs
  BY <1>2, <1>8 DEF Steps
<1>10. excl \in BOOLEAN /\ busy \in BOOLEAN
  BY <1>8, Zenon
<1>11. devts \subseteq Target /\ offs \subseteq Nodes /\ late \subseteq Partitions
       /\ pass \in 1 .. 4 /\ pass <= 3
  BY <1>8
<1>12. Len(mounts) <= MaxMounts /\ result \in {"running", "refused", "mounted", "ok"}
  BY <1>2, <1>4, <1>8
<1> QED
  BY <1>4, <1>5, <1>6, <1>7, <1>9, <1>10, <1>11, <1>12 DEF Types, TypeOK

\* A step of the run that lists mounts at most.
LEMMA ListTypes ==
  ASSUME Types, hostVars' = hostVars, UNCHANGED <<acts, late, clean>>,
         pc' \in Steps, devts' \subseteq Target, todo' \in Seq(Mount),
         offs' \subseteq Nodes, pass' = pass,
         pc' \notin {"verdict", "done"} => pass <= 3,
         excl' \in BOOLEAN, busy' \in BOOLEAN,
         result' \in {"running", "refused", "mounted", "ok"}
  PROVE  Types'
<1>1. parts' = parts /\ mounts' = mounts /\ swaps' = swaps /\ holders' = holders
  BY DEF hostVars
<1> QED
  BY <1>1 DEF Types, TypeOK

LEMMA DomainTellsLen ==
  ASSUME NEW T, NEW s \in Seq(T), NEW n \in Nat, DOMAIN s = 1 .. n
  PROVE  Len(s) = n
OBVIOUS

LEMMA UmountTypes ==
  ASSUME mounts \in Seq(Mount), Len(mounts) <= MaxMounts, NEW p, Umount(p)
  PROVE  mounts' \in Seq(Mount) /\ Len(mounts') <= MaxMounts
<1>1. PICK i \in DOMAIN mounts : mounts' = RemoveAt(mounts, i)
  BY DEF Umount, TopAt
<1>2. /\ mounts' \in Seq(Mount) /\ Len(mounts) \in Nat
      /\ DOMAIN mounts' = 1 .. Len(mounts) - 1 /\ DOMAIN mounts = 1 .. Len(mounts)
  BY <1>1, RemoveAtElements
<1>3. Len(mounts') = Len(mounts) - 1
  <2>1. i \in 1 .. Len(mounts)
    BY <1>2
  <2>2. Len(mounts) - 1 \in Nat
    BY <1>2, <2>1
  <2> QED
    BY <1>2, <2>2, DomainTellsLen
<1>4. MaxMounts \in Nat
  BY TopologyAssumption DEF TopologyAssumption
<1> QED
  BY <1>2, <1>3, <1>4

LEMMA RunTypes == ASSUME Types, Run PROVE Types'
<1>0. /\ parts \subseteq Partitions /\ mounts \in Seq(Mount) /\ swaps \subseteq Nodes
      /\ Len(mounts) <= MaxMounts /\ acts \in 0 .. MaxActs /\ late \subseteq Partitions
      /\ holders \subseteq (Nodes \cup Upper) \X Upper
      /\ pc \in Steps /\ devts \subseteq Target /\ todo \in Seq(Mount)
      /\ offs \subseteq Nodes /\ pass \in 1 .. 4
      /\ excl \in BOOLEAN /\ clean \in BOOLEAN /\ busy \in BOOLEAN
      /\ result \in {"running", "refused", "mounted", "ok"}
      /\ pc \notin {"verdict", "done"} => pass <= 3
  BY DEF Types, TypeOK
<1>1. MountsSeen(devts) \in Seq(Mount)
  BY <1>0, SeenAreMounts
<1>2. ASSUME Refuse PROVE Types'
  <2>1. /\ hostVars' = hostVars
        /\ UNCHANGED <<acts, late, clean, devts, todo, offs, pass, busy>>
        /\ pc' = "done" /\ result' = "refused" /\ excl' = FALSE
    BY <1>2 DEF Refuse, Stop
  <2> QED
    BY <1>0, <2>1, ListTypes DEF Steps
<1>3. CASE RejectStacked \/ SwapsOff \/ Unmounted \/ Rescan \/ RecheckStacked \/ RecheckMounts
  <2>1. CASE Refuse
    BY <1>2, <2>1
  <2>2. CASE ~Refuse
    <3>1. /\ hostVars' = hostVars
          /\ UNCHANGED <<acts, late, clean, devts, todo, offs, pass, excl, busy, result>>
          /\ pc \notin {"verdict", "done"} /\ pc' \in Steps
      BY <1>3, <2>2 DEF RejectStacked, SwapsOff, Unmounted, Rescan, RecheckStacked,
                        RecheckMounts, GoTo, runVars, Steps
    <3> QED
      BY <1>0, <3>1, ListTypes
  <2> QED
    BY <2>1, <2>2
<1>4. CASE BuildDevts \/ Rebuild
  <2>1. /\ hostVars' = hostVars
        /\ UNCHANGED <<acts, late, clean, todo, offs, pass, excl, busy, result>>
        /\ devts' = DiskAndPartitions
        /\ pc \notin {"verdict", "done"} /\ pc' \in {"scan", "sweep"}
    BY <1>4 DEF BuildDevts, Rebuild, GoTo
  <2>2. devts' \subseteq Target
    BY <1>0, <2>1 DEF DiskAndPartitions, Target
  <2> QED
    BY <1>0, <2>1, <2>2, ListTypes DEF Steps
<1>5. CASE Scan
  <2>1. CASE Refuse
    BY <1>2, <2>1
  <2>2. CASE ~Refuse
    <3>1. /\ hostVars' = hostVars
          /\ UNCHANGED <<acts, late, clean, devts, offs, pass, excl, busy, result>>
          /\ todo' = MountsSeen(devts) /\ pc = "scan" /\ pc' = "swap_scan"
      BY <1>5, <2>2 DEF Scan, GoTo
    <3> QED
      BY <1>0, <1>1, <3>1, ListTypes DEF Steps
  <2> QED
    BY <2>1, <2>2
<1>6. CASE ScanSwaps
  <2>1. /\ hostVars' = hostVars
        /\ UNCHANGED <<acts, late, clean, devts, todo, pass, excl, busy, result>>
        /\ offs' = swaps \cap devts /\ pc = "swap_scan" /\ pc' = "swapoff"
    BY <1>6 DEF ScanSwaps, GoTo
  <2>2. offs' \subseteq Nodes
    BY <1>0, <2>1
  <2> QED
    BY <1>0, <2>1, <2>2, ListTypes DEF Steps
<1>7. CASE Swapoff
  <2>1. PICK n \in offs : swaps' = swaps \ {n} /\ offs' = offs \ {n}
    BY <1>7 DEF Swapoff, GoTo
  <2>2. /\ UNCHANGED <<parts, mounts, holders, acts, late, clean>>
        /\ UNCHANGED <<devts, todo, pass, excl, busy, result>>
        /\ pc = "swapoff" /\ pc' = "swapoff"
    BY <1>7 DEF Swapoff, GoTo
  <2>3. swaps' \subseteq Nodes /\ offs' \subseteq Nodes
    BY <1>0, <2>1
  <2> QED
    BY <2>2, <2>3 DEF Types, TypeOK
<1>8. CASE SwapoffFails \/ UnmountBusy
  <2>1. /\ hostVars' = hostVars
        /\ UNCHANGED <<acts, late, clean, devts, todo, offs, pass>>
        /\ pc' = "done" /\ result' = "refused" /\ excl' = FALSE /\ busy' = TRUE
    BY <1>8 DEF SwapoffFails, UnmountBusy, Stop
  <2> QED
    BY <1>0, <2>1, ListTypes DEF Steps
<1>9. CASE Unmount
  <2>1. PICK i \in DOMAIN todo : Umount(todo[i].path) /\ todo' = RemoveAt(todo, i)
    BY <1>9 DEF Unmount, GoTo
  <2>2. mounts' \in Seq(Mount) /\ Len(mounts') <= MaxMounts
    BY <1>0, <2>1, UmountTypes
  <2>3. todo' \in Seq(Mount)
    BY <1>0, <2>1, RemoveAtElements
  <2>4. /\ UNCHANGED <<parts, swaps, holders, acts, late, clean>>
        /\ UNCHANGED <<devts, offs, pass, excl, busy, result>>
        /\ pc = "unmount" /\ pc' = "unmount"
    BY <1>9 DEF Unmount, GoTo
  <2> QED
    BY <2>2, <2>3, <2>4 DEF Types, TypeOK
<1>10. CASE UnmountRefused
  BY <1>2, <1>10 DEF UnmountRefused
<1>11. CASE Claim \/ Release
  <2>1. CASE Refuse
    BY <1>2, <2>1
  <2>2. CASE ~Refuse
    <3>1. /\ hostVars' = hostVars
          /\ UNCHANGED <<acts, late, clean, devts, todo, offs, pass, busy, result>>
          /\ pc \in {"claim", "release"} /\ pc' \in {"recheck", "rebuild"}
          /\ excl' \in BOOLEAN
      BY <1>11, <2>2 DEF Claim, Release, GoTo
    <3> QED
      BY <1>0, <3>1, ListTypes DEF Steps
  <2> QED
    BY <2>1, <2>2
<1>12. CASE Write
  <2>1. /\ parts' \subseteq Partitions
        /\ UNCHANGED <<mounts, swaps, holders, acts, late, clean>>
        /\ UNCHANGED <<devts, todo, offs, pass, excl, busy, result>>
        /\ pc = "write" /\ pc' = "release"
    BY <1>12 DEF Write, runVars, GoTo
  <2> QED
    BY <2>1 DEF Types, TypeOK, Steps
<1>13. CASE Sweep
  <2>1. CASE Stop("ok")
    <3>1. /\ hostVars' = hostVars
          /\ UNCHANGED <<acts, late, clean, devts, offs, pass, busy>>
          /\ todo' \in {todo, MountsSeen(devts)}
          /\ pc' = "done" /\ result' = "ok" /\ excl' = FALSE
      BY <1>13, <2>1 DEF Sweep, GoTo, Stop
    <3> QED
      BY <1>0, <1>1, <3>1, ListTypes DEF Steps
  <2>2. CASE ~Stop("ok")
    <3>1. /\ hostVars' = hostVars
          /\ UNCHANGED <<acts, late, clean, devts, offs, pass, excl, busy, result>>
          /\ todo' = MountsSeen(devts) /\ pc = "sweep" /\ pc' = "sweep_unmount"
      BY <1>13, <2>2 DEF Sweep, GoTo, Stop
    <3> QED
      BY <1>0, <1>1, <3>1, ListTypes DEF Steps
  <2> QED
    BY <2>1, <2>2
<1>14. CASE SweepUnmount
  <2>1. Umount(Head(todo).path) \/ mounts' = mounts
    BY <1>14 DEF SweepUnmount, GoTo
  <2>2. mounts' \in Seq(Mount) /\ Len(mounts') <= MaxMounts
    BY <1>0, <2>1, UmountTypes
  <2>3. todo' \in Seq(Mount)
    BY <1>0, <1>14 DEF SweepUnmount, GoTo
  <2>4. /\ UNCHANGED <<parts, swaps, holders, acts, late, clean>>
        /\ UNCHANGED <<devts, offs, pass, excl, busy, result>>
        /\ pc = "sweep_unmount" /\ pc' = "sweep_unmount"
    BY <1>14 DEF SweepUnmount, GoTo
  <2> QED
    BY <2>2, <2>3, <2>4 DEF Types, TypeOK
<1>15. CASE SweepAgain
  <2>1. /\ UNCHANGED <<parts, mounts, swaps, holders, acts, late, clean>>
        /\ UNCHANGED <<devts, todo, offs, excl, busy, result>>
        /\ pc = "sweep_unmount" /\ pass' = pass + 1
        /\ pc' = IF pass < 3 THEN "sweep" ELSE "verdict"
    BY <1>15 DEF SweepAgain, hostVars, GoTo
  <2>2. pass \in 1 .. 3
    BY <1>0, <2>1
  <2>3. /\ pass' \in 1 .. 4 /\ pc' \in Steps
        /\ pc' \notin {"verdict", "done"} => pass' <= 3
    BY <2>1, <2>2 DEF Steps
  <2> QED
    BY <2>1, <2>3 DEF Types, TypeOK
<1>16. CASE Verdict
  <2>1. /\ hostVars' = hostVars
        /\ UNCHANGED <<acts, late, clean, devts, todo, offs, pass, busy>>
        /\ pc' = "done" /\ result' \in {"ok", "mounted"} /\ excl' = FALSE
    BY <1>16 DEF Verdict, Stop
  <2> QED
    BY <1>0, <2>1, ListTypes DEF Steps
<1> QED
  BY <1>3, <1>4, <1>5, <1>6, <1>7, <1>8, <1>9, <1>10, <1>11, <1>12, <1>13, <1>14,
     <1>15, <1>16 DEF Run

LEMMA HostTypes == ASSUME Types, Host PROVE Types'
<1>0. /\ parts \subseteq Partitions /\ mounts \in Seq(Mount) /\ swaps \subseteq Nodes
      /\ Len(mounts) <= MaxMounts /\ acts \in 0 .. MaxActs /\ late \subseteq Partitions
      /\ holders \subseteq (Nodes \cup Upper) \X Upper
  BY DEF Types, TypeOK
<1>1. /\ UNCHANGED <<pc, devts, todo, offs, pass, excl, clean, busy, result>>
      /\ acts' = acts + 1 /\ acts < MaxActs
  BY DEF Host, HostMounts, HostUnmounts, HostSwaps, HostStacks, HostRepartitions,
         HostActs, runVars
<1>2. acts' \in 0 .. MaxActs
  BY <1>0, <1>1, TopologyAssumption DEF TopologyAssumption
<1>3. ASSUME parts' \subseteq Partitions, mounts' \in Seq(Mount),
             Len(mounts') <= MaxMounts, swaps' \subseteq Nodes,
             holders' \subseteq (Nodes \cup Upper) \X Upper, late' \subseteq Partitions
      PROVE  Types'
  BY <1>1, <1>2, <1>3 DEF Types, TypeOK
<1>4. CASE HostMounts
  <2>1. PICK n \in Nodes, p \in Paths : \E m \in Lines(n, p) : mounts' = Append(mounts, m)
    BY <1>4 DEF HostMounts
  <2>2. PICK m \in Lines(n, p) : mounts' = Append(mounts, m)
    BY <2>1
  <2>3. m \in Mount
    BY DEF Lines, Mount
  <2>4. Len(mounts) < MaxMounts /\ UNCHANGED <<parts, swaps, holders, late>>
    BY <1>4 DEF HostMounts
  <2>5. mounts' \in Seq(Mount) /\ Len(mounts') <= MaxMounts
    BY <1>0, <2>2, <2>3, <2>4, TopologyAssumption DEF TopologyAssumption
  <2> QED
    BY <1>0, <1>3, <2>4, <2>5
<1>5. CASE HostUnmounts
  <2>1. PICK p \in Paths : Umount(p)
    BY <1>5 DEF HostUnmounts
  <2>2. UNCHANGED <<parts, swaps, holders, late>>
    BY <1>5 DEF HostUnmounts
  <2> QED
    BY <1>0, <1>3, <2>1, <2>2, UmountTypes
<1>6. CASE HostSwaps
  <2>1. PICK n \in Nodes : swaps' = swaps \cup {n}
    BY <1>6 DEF HostSwaps
  <2>2. UNCHANGED <<parts, mounts, holders, late>>
    BY <1>6 DEF HostSwaps
  <2> QED
    BY <1>0, <1>3, <2>1, <2>2
<1>7. CASE HostStacks
  <2>1. PICK n \in DiskAndPartitions, u \in Upper : holders' = holders \cup {<<n, u>>}
    BY <1>7 DEF HostStacks
  <2>2. UNCHANGED <<parts, mounts, swaps, late>>
    BY <1>7 DEF HostStacks
  <2>3. <<n, u>> \in (Nodes \cup Upper) \X Upper
    BY <1>0 DEF DiskAndPartitions, Nodes, Target
  <2> QED
    BY <1>0, <1>3, <2>1, <2>2, <2>3
<1>8. CASE HostRepartitions
  <2>1. parts' \subseteq Partitions /\ UNCHANGED <<mounts, swaps, holders>>
    BY <1>8 DEF HostRepartitions
  <2>2. late' \subseteq Partitions
    BY <1>0, <1>8, <2>1 DEF HostRepartitions
  <2> QED
    BY <1>0, <1>3, <2>1, <2>2
<1> QED
  BY <1>4, <1>5, <1>6, <1>7, <1>8 DEF Host

\* Every variable has its type: in particular the sweep ends after three passes,
\* and what is to be unmounted was in the table.
THEOREM HostTopologyTypes == Spec => []TypeOK
<1>1. Init => Types
  BY InitTypes
<1>2. Types /\ [Next]_vars => Types'
  <2> SUFFICES ASSUME Types, [Next]_vars PROVE Types'
    OBVIOUS
  <2>1. CASE Terminated \/ UNCHANGED vars
    <3>1. UNCHANGED vars
      BY <2>1 DEF Terminated
    <3> QED
      BY <3>1 DEF vars, hostVars, runVars, Types, TypeOK
  <2> QED
    BY <2>1, RunTypes, HostTypes DEF Next
<1>3. Types => TypeOK
  BY DEF Types
<1> QED
  BY <1>1, <1>2, <1>3, PTL DEF Spec

=============================================================================
