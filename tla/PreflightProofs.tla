--------------------------- MODULE PreflightProofs ---------------------------
(***************************************************************************)
(* What Phase 0 finds and refuses, on every host: with any number of       *)
(* disks, loop devices and stacks, any links between them, any sticks, and *)
(* however often these are exchanged.  The loops over the block stack are  *)
(* the least fixpoints they are meant to be, two of them the same one;     *)
(* what was read at three moments before the prompt is what is claimed.    *)
(***************************************************************************)
EXTENDS Preflight, FiniteSetTheorems, SequenceTheorems, WellFoundedInduction, TLAPS

-----------------------------------------------------------------------------
(* What a loop arrives at. *)

\* A loop that widens a subset of a finite set, and widens no less what has
\* more in it, arrives at the least set that has the first one in it and that a
\* pass leaves alone.
LEMMA LeastFixpoint ==
  ASSUME NEW N, IsFiniteSet(N),
         NEW step \in [SUBSET N -> SUBSET N],
         \A S \in SUBSET N : S \subseteq step[S],
         \A S, T \in SUBSET N : S \subseteq T => step[S] \subseteq step[T],
         NEW T \in SUBSET N
  PROVE  /\ Saturate(step, T) \in SUBSET N
         /\ T \subseteq Saturate(step, T)
         /\ step[Saturate(step, T)] = Saturate(step, T)
         /\ \A C \in SUBSET N : T \subseteq C /\ step[C] \subseteq C
                                  => Saturate(step, T) \subseteq C
<1> DEFINE Closed(S) == {C \in SUBSET N : S \subseteq C /\ step[C] = C}
           Least(S) == {n \in N : \A C \in Closed(S) : n \in C}
           Rule(f) == [S \in DOMAIN step |-> IF step[S] = S THEN S ELSE f[step[S]]]
           loop == CHOOSE f : f = Rule(f)
<1>1. \A S \in SUBSET N : Least(S) \in SUBSET N /\ S \subseteq Least(S)
  OBVIOUS
<1>2. \A S \in SUBSET N : step[S] = S => Least(S) = S
  OBVIOUS
<1>3. ASSUME NEW S \in SUBSET N
      PROVE  Least(step[S]) = Least(S)
  <2>1. step[S] \in SUBSET N
    OBVIOUS
  <2>2. ASSUME NEW C \in SUBSET N, step[C] = C
        PROVE  S \subseteq C <=> step[S] \subseteq C
    BY <2>2
  <2>3. Closed(step[S]) = Closed(S)
    BY <2>2
  <2> QED
    BY <2>3
<1>4. ASSUME NEW S \in SUBSET N
      PROVE  step[Least(S)] = Least(S)
  <2>1. ASSUME NEW C \in Closed(S)
        PROVE  step[Least(S)] \subseteq C
    <3>1. Least(S) \subseteq C /\ C \in SUBSET N /\ step[C] = C
      BY <2>1
    <3> HIDE DEF Least
    <3> QED
      BY <1>1, <3>1
  <2>2. step[Least(S)] \subseteq N
    <3> HIDE DEF Least
    <3> QED
      BY <1>1
  <2>3. step[Least(S)] \subseteq Least(S)
    BY <2>1, <2>2
  <2> HIDE DEF Least
  <2> QED
    BY <1>1, <2>3
<1>5. ASSUME NEW S \in SUBSET N, NEW C \in SUBSET N, S \subseteq C, step[C] \subseteq C
      PROVE  Least(S) \subseteq C
  <2>1. step[C] = C
    BY <1>5
  <2> QED
    BY <1>5, <2>1
<1> HIDE DEF Least, Closed
<1>6. loop = Rule(loop)
  <2> DEFINE g == [S \in SUBSET N |-> Least(S)]
  <2>1. ASSUME NEW S \in SUBSET N
        PROVE  g[S] = IF step[S] = S THEN S ELSE g[step[S]]
    BY <1>2, <1>3
  <2>2. g = Rule(g)
    BY <2>1
  <2> HIDE DEF g, Rule
  <2> QED
    BY <2>2
<1> HIDE DEF loop
<1>7. \A S \in SUBSET N : loop[S] = IF step[S] = S THEN S ELSE loop[step[S]]
  BY <1>6
<1>8. Saturate(step, T) = loop[T]
  BY DEF Saturate, loop
<1>9. \A S \in SUBSET N : loop[S] = Least(S)
  <2> DEFINE Bad == {S \in SUBSET N : loop[S] # Least(S)}
             Rest == {N \ S : S \in Bad}
  <2>1. SUFFICES ASSUME Bad # {}
                 PROVE  FALSE
    OBVIOUS
  <2>2. Rest \subseteq SUBSET N /\ Rest # {}
    <3>1. PICK S \in Bad : TRUE
      BY <2>1
    <3>2. N \ S \in Rest
      OBVIOUS
    <3>3. ASSUME NEW R \in Rest
          PROVE  R \in SUBSET N
      OBVIOUS
    <3> HIDE DEF Rest
    <3> QED
      BY <3>2, <3>3
  <2>3. IsWellFoundedOn(StrictSubsetOrdering(N), SUBSET N)
    <3>1. IsWellFoundedOn(StrictSubsetOrdering(N), FiniteSubsetsOf(N))
      BY FS_StrictSubsetOrderingWellFounded
    <3>2. FiniteSubsetsOf(N) = SUBSET N
      BY FS_FiniteSubsetsOfFinite
    <3> QED
      BY <3>1, <3>2
  <2>4. PICK R \in Rest : \A Q \in Rest : <<Q, R>> \notin StrictSubsetOrdering(N)
    <3> HIDE DEF Rest
    <3> QED
      BY <2>2, <2>3, WFMin
  <2>5. PICK S \in Bad : R = N \ S
    OBVIOUS
  <2>6. S \in SUBSET N /\ loop[S] # Least(S) /\ step[S] \in SUBSET N
        /\ S \subseteq step[S]
    OBVIOUS
  <2>7. step[S] # S
    BY <1>2, <1>7, <2>6
  <2>8. loop[step[S]] # Least(step[S])
    BY <1>3, <1>7, <2>6, <2>7
  <2>9. N \ step[S] \in Rest
    BY <2>6, <2>8
  <2>10. <<N \ step[S], N \ S>> \in StrictSubsetOrdering(N)
    BY <2>6, <2>7 DEF StrictSubsetOrdering
  <2> QED
    BY <2>4, <2>5, <2>9, <2>10
<1> QED
  BY <1>1, <1>4, <1>5, <1>8, <1>9

-----------------------------------------------------------------------------
(* The questions about the block stack, each the least answer of its kind. *)

\* What every host considered has: links that lead to stacks, and a mount table
\* in which each mount is deeper than those before it.
Host ==
  /\ links \subseteq Node \X Stacks
  /\ \A i \in DOMAIN mounts : Len(mounts[i].path) \in Nat
  /\ DOMAIN mounts \subseteq Nat
  /\ \A i, j \in DOMAIN mounts : i < j => Len(mounts[i].path) < Len(mounts[j].path)

LEMMA Kinds ==
  /\ IsFiniteSet(Node) /\ IsFiniteSet(Stacks)
  /\ Disks \subseteq Node /\ Loops \subseteq Node
  /\ Stacks \subseteq Node /\ Partitions \subseteq Node
  /\ (Disks \cup Loops) \cap (Stacks \cup Partitions) = {}
  /\ \A p \in Partitions : Parent[p] \in Disks \cup Loops
<1>1. /\ Disks \subseteq Node /\ Loops \subseteq Node
      /\ Stacks \subseteq Node /\ Partitions \subseteq Node
  BY DEF Node
<1>2. IsFiniteSet(Node)
  BY BlockAssumption DEF BlockAssumption
<1>3. IsFiniteSet(Stacks)
  BY <1>1, <1>2, FS_Subset
<1> QED
  BY <1>1, <1>2, <1>3, BlockAssumption DEF BlockAssumption

\* holders_recursive: the nodes that links lead to, however many of them.
LEMMA HoldersAreLeast ==
  ASSUME Host, NEW n
  PROVE  /\ holders_recursive(n) \subseteq Stacks
         /\ \A l \in links : l[1] \in {n} \cup holders_recursive(n)
                              => l[2] \in holders_recursive(n)
         /\ \A C \in SUBSET Stacks :
              (\A l \in links : l[1] \in {n} \cup C => l[2] \in C)
                => holders_recursive(n) \subseteq C
<1> DEFINE Next1(S) == {h[2] : h \in {l \in links : l[1] \in {n} \cup S}}
           walk == [S \in SUBSET Stacks |-> S \cup Next1(S)]
<1>1. \A l \in links : l[2] \in Stacks
  BY DEF Host
<1>2. \A S \in SUBSET Stacks : Next1(S) \subseteq Stacks
  BY <1>1
<1>3. \A S \in SUBSET Stacks, T \in SUBSET Stacks : S \subseteq T => Next1(S) \subseteq Next1(T)
  OBVIOUS
<1>4. \A S : \A l \in links : l[1] \in {n} \cup S => l[2] \in Next1(S)
  OBVIOUS
<1>5. \A S, C : (\A l \in links : l[1] \in {n} \cup S => l[2] \in C) => Next1(S) \subseteq C
  OBVIOUS
<1>6. holders_recursive(n) = Saturate(walk, {})
  BY DEF holders_recursive
<1> HIDE DEF Next1
<1>7. /\ walk \in [SUBSET Stacks -> SUBSET Stacks]
      /\ \A S \in SUBSET Stacks : S \subseteq walk[S]
      /\ \A S, T \in SUBSET Stacks : S \subseteq T => walk[S] \subseteq walk[T]
      /\ \A S \in SUBSET Stacks : walk[S] = S \cup Next1(S)
  BY <1>2, <1>3
<1> HIDE DEF walk
<1> DEFINE H == Saturate(walk, {})
<1>8. /\ H \in SUBSET Stacks
      /\ walk[H] = H
      /\ \A C \in SUBSET Stacks : {} \subseteq C /\ walk[C] \subseteq C => H \subseteq C
  <2>1. IsFiniteSet(Stacks) /\ {} \in SUBSET Stacks
    BY Kinds
  <2>2. /\ walk \in [SUBSET Stacks -> SUBSET Stacks]
        /\ \A S \in SUBSET Stacks : S \subseteq walk[S]
        /\ \A S, T \in SUBSET Stacks : S \subseteq T => walk[S] \subseteq walk[T]
    BY <1>7
  <2> QED
    BY ONLY <2>1, <2>2, LeastFixpoint
<1> HIDE DEF H
<1>9. Next1(H) \subseteq H
  BY <1>7, <1>8
<1>10. ASSUME NEW C \in SUBSET Stacks, \A l \in links : l[1] \in {n} \cup C => l[2] \in C
       PROVE  H \subseteq C
  <2>1. Next1(C) \subseteq C
    BY <1>5, <1>10
  <2>2. walk[C] \subseteq C
    BY <1>7, <2>1
  <2> QED
    BY <1>8, <2>2
<1>11. \A l \in links : l[1] \in {n} \cup H => l[2] \in H
  BY <1>4, <1>9
<1>12. holders_recursive(n) = H
  BY <1>6 DEF H
<1> QED
  BY <1>8, <1>10, <1>11, <1>12

\* What is really on top of d: the least set that has d in it and whatever has
\* content on a member.
LEMMA OnTopIsLeast ==
  ASSUME NEW d \in Node
  PROVE  /\ OnTopOf(d) \subseteq Node
         /\ d \in OnTopOf(d)
         /\ \A n \in Node : Below(n) \cap OnTopOf(d) # {} => n \in OnTopOf(d)
         /\ \A C \in SUBSET Node :
              d \in C /\ (\A n \in Node : Below(n) \cap C # {} => n \in C)
                => OnTopOf(d) \subseteq C
<1> DEFINE Rests(S) == {n \in Node : Below(n) \cap S # {}}
           rise == [S \in SUBSET Node |-> S \cup Rests(S)]
<1>1. \A S, T : S \subseteq T => Rests(S) \subseteq Rests(T)
  OBVIOUS
<1>2. \A S : Rests(S) \in SUBSET Node
  OBVIOUS
<1>3. OnTopOf(d) = Saturate(rise, {d})
  BY DEF OnTopOf
<1>4. \A S, C : (\A n \in Node : Below(n) \cap S # {} => n \in C) <=> Rests(S) \subseteq C
  OBVIOUS
<1> HIDE DEF Rests
<1>5. /\ rise \in [SUBSET Node -> SUBSET Node]
      /\ \A S \in SUBSET Node : S \subseteq rise[S]
      /\ \A S, T \in SUBSET Node : S \subseteq T => rise[S] \subseteq rise[T]
      /\ \A S \in SUBSET Node : rise[S] = S \cup Rests(S)
  BY <1>1, <1>2
<1> HIDE DEF rise
<1> DEFINE first == {d}
           B == Saturate(rise, first)
<1>6. /\ B \in SUBSET Node
      /\ first \subseteq B
      /\ rise[B] = B
      /\ \A C \in SUBSET Node : first \subseteq C /\ rise[C] \subseteq C => B \subseteq C
  <2>1. IsFiniteSet(Node) /\ first \in SUBSET Node
    BY Kinds
  <2>2. /\ rise \in [SUBSET Node -> SUBSET Node]
        /\ \A S \in SUBSET Node : S \subseteq rise[S]
        /\ \A S, T \in SUBSET Node : S \subseteq T => rise[S] \subseteq rise[T]
    BY <1>5
  <2> HIDE DEF first
  <2> QED
    BY ONLY <2>1, <2>2, LeastFixpoint
<1> HIDE DEF B
<1>7. Rests(B) \subseteq B
  BY <1>5, <1>6
<1>8. ASSUME NEW C \in SUBSET Node, d \in C, \A n \in Node : Below(n) \cap C # {} => n \in C
      PROVE  B \subseteq C
  <2>1. Rests(C) \subseteq C
    BY <1>4, <1>8
  <2>2. rise[C] \subseteq C
    BY <1>5, <2>1
  <2> QED
    BY <1>6, <1>8, <2>2
<1>9. \A n \in Node : Below(n) \cap B # {} => n \in B
  BY <1>4, <1>7
<1>10. OnTopOf(d) = B
  BY <1>3 DEF B
<1> QED
  BY <1>6, <1>8, <1>9, <1>10

\* Of mounts each deeper than those before it, the deepest on a path is the last.
LEMMA DeepestIsLast ==
  ASSUME Host, NEW dir
  PROVE  block_kname_backing_path(dir) = FsOf(dir).on
<1>1. ASSUME NEW i \in DOMAIN mounts, NEW j \in DOMAIN mounts
      PROVE  (i = j) \/ (j <= i <=> Len(mounts[j].path) < Len(mounts[i].path))
  BY DEF Host
<1>2. ASSUME NEW i \in DOMAIN mounts
      PROVE  (\A j \in DOMAIN mounts : Covers(mounts[j].path, dir) => j <= i)
             <=> (\A j \in DOMAIN mounts \ {i} :
                    Covers(mounts[j].path, dir) =>
                      \/ Len(mounts[j].path) < Len(mounts[i].path)
                      \/ Len(mounts[j].path) = Len(mounts[i].path) /\ j < i)
  <2>1. ASSUME NEW j \in DOMAIN mounts \ {i}
        PROVE  j <= i <=> \/ Len(mounts[j].path) < Len(mounts[i].path)
                          \/ Len(mounts[j].path) = Len(mounts[i].path) /\ j < i
    BY DEF Host
  <2>2. i <= i
    BY DEF Host
  <2> QED
    BY <2>1, <2>2
<1>3. source_of_longest_mount_prefix(dir) = FsOf(dir).on
  BY <1>2 DEF source_of_longest_mount_prefix, FsOf
<1> QED
  BY <1>3 DEF block_kname_backing_path

\* One pass adds, and adds no less to what has more in it.
LEMMA WidenGrows ==
  ASSUME Host
  PROVE  /\ \A S \in SUBSET Node : Widen(S) \in SUBSET Node /\ S \subseteq Widen(S)
         /\ \A S, T \in SUBSET Node : S \subseteq T => Widen(S) \subseteq Widen(T)
<1> DEFINE Held(S) == S \cup UNION {holders_recursive(n) : n \in S}
           Over(S) == LoopsOver(Held(S))
           Parts(L) == UNION {partitions_of(l) : l \in L}
<1>1. \A S : Widen(S) = Held(S) \cup Over(S) \cup Parts(Over(S))
  BY DEF Widen
<1>2. \A n : holders_recursive(n) \subseteq Stacks
  BY HoldersAreLeast
<1>3. \A S \in SUBSET Node : Held(S) \in SUBSET Node /\ S \subseteq Held(S)
  BY <1>2, Kinds
<1>4. \A S, T : S \subseteq T => Held(S) \subseteq Held(T)
  OBVIOUS
<1>5. \A S : LoopsOver(S) \in SUBSET Loops
  BY DEF LoopsOver
<1>6. \A S, T : S \subseteq T => LoopsOver(S) \subseteq LoopsOver(T)
  BY DEF LoopsOver
<1>7. \A L : Parts(L) \in SUBSET Partitions
  BY DEF partitions_of
<1>8. \A L, M : L \subseteq M => Parts(L) \subseteq Parts(M)
  OBVIOUS
<1> HIDE DEF Held, Parts
<1>9. \A S, T : S \subseteq T => Over(S) \subseteq Over(T)
  BY <1>4, <1>6
<1>10. \A S : Over(S) \in SUBSET Loops
  BY <1>5
<1> HIDE DEF Over
<1>11. \A S \in SUBSET Node : Widen(S) \in SUBSET Node /\ S \subseteq Widen(S)
  BY <1>1, <1>3, <1>7, <1>10, Kinds
<1>12. \A S, T : S \subseteq T => Widen(S) \subseteq Widen(T)
  BY <1>1, <1>4, <1>8, <1>9
<1> QED
  BY <1>11, <1>12

\* target_block_subtree: the least set with the disk and its partitions in it
\* that a pass leaves alone.
LEMMA SubtreeIsLeast ==
  ASSUME Host, NEW d \in Disks \cup Loops
  PROVE  /\ target_block_subtree(d) \in SUBSET Node
         /\ {d} \cup partitions_of(d) \subseteq target_block_subtree(d)
         /\ Widen(target_block_subtree(d)) = target_block_subtree(d)
         /\ \A C \in SUBSET Node :
              {d} \cup partitions_of(d) \subseteq C /\ Widen(C) \subseteq C
                => target_block_subtree(d) \subseteq C
<1> DEFINE pass == [S \in SUBSET Node |-> Widen(S)]
           first == {d} \cup partitions_of(d)
           A == Saturate(pass, first)
<1>1. target_block_subtree(d) = A
  BY DEF target_block_subtree
<1>2. first \in SUBSET Node
  BY Kinds DEF partitions_of
<1>3. /\ pass \in [SUBSET Node -> SUBSET Node]
      /\ \A S \in SUBSET Node : pass[S] = Widen(S)
      /\ \A S \in SUBSET Node : S \subseteq pass[S]
      /\ \A S, T \in SUBSET Node : S \subseteq T => pass[S] \subseteq pass[T]
  BY WidenGrows
<1>4. IsFiniteSet(Node)
  BY Kinds
<1> HIDE DEF pass, first
<1>5. /\ A \in SUBSET Node
      /\ first \subseteq A
      /\ pass[A] = A
      /\ \A C \in SUBSET Node : first \subseteq C /\ pass[C] \subseteq C => A \subseteq C
  <2>0. IsFiniteSet(Node) /\ first \in SUBSET Node
    BY <1>2, <1>4
  <2>1. /\ pass \in [SUBSET Node -> SUBSET Node]
        /\ \A S \in SUBSET Node : S \subseteq pass[S]
        /\ \A S, T \in SUBSET Node : S \subseteq T => pass[S] \subseteq pass[T]
    BY <1>3
  <2> QED
    BY ONLY <2>0, <2>1, LeastFixpoint
<1> HIDE DEF A
<1>6. /\ A \in SUBSET Node
      /\ first \subseteq A
      /\ Widen(A) = A
      /\ \A C \in SUBSET Node : first \subseteq C /\ Widen(C) \subseteq C => A \subseteq C
  BY <1>3, <1>5
<1> QED
  BY <1>1, <1>6 DEF first

\* What one pass adds to a set is on top of the set: a holder, a loop device over
\* a file, a partition of one each have something of it below them.
LEMMA PassStaysOnTop ==
  ASSUME Host, NEW B \in SUBSET Node,
         \A n \in Node : Below(n) \cap B # {} => n \in B
  PROVE  /\ Widen(B) \subseteq B
         /\ \A l \in B : partitions_of(l) \subseteq B
<1>1. \A l \in links : l[2] \in Node /\ l[2] \in Stacks /\ l[1] \in Below(l[2])
  <2>1. \A l \in links : l[2] \in Stacks
    BY DEF Host
  <2> QED
    BY <2>1, Kinds DEF Below
<1>2. ASSUME NEW n \in B
      PROVE  holders_recursive(n) \subseteq B
  <2> DEFINE C == B \cap Stacks
  <2>1. \A l \in links : l[1] \in {n} \cup C => l[2] \in C
    BY <1>1
  <2>2. C \in SUBSET Stacks
    OBVIOUS
  <2> HIDE DEF C
  <2>3. holders_recursive(n) \subseteq C
    BY <2>1, <2>2, HoldersAreLeast
  <2> QED
    BY <2>3 DEF C
<1>3. ASSUME NEW l \in LoopsOver(B)
      PROVE  l \in B
  <2>1. l \in Loops /\ backing[l] # NoFile /\ FsOf(backing[l].dir).on \in B
    BY DeepestIsLast DEF LoopsOver
  <2>2. FsOf(backing[l].dir).on \in Below(l) /\ l \in Node
    BY <2>1, Kinds DEF Below
  <2> QED
    BY <2>1, <2>2
<1>4. ASSUME NEW l \in B
      PROVE  partitions_of(l) \subseteq B
  <2>1. \A p \in partitions_of(l) : p \in Node /\ l \in Below(p)
    BY Kinds DEF partitions_of, Below
  <2> QED
    BY <2>1
<1>5. B \cup UNION {holders_recursive(n) : n \in B} = B
  BY <1>2
<1>6. LoopsOver(B \cup UNION {holders_recursive(n) : n \in B}) = LoopsOver(B)
  BY <1>5
<1>7. Widen(B) = B \cup LoopsOver(B) \cup UNION {partitions_of(l) : l \in LoopsOver(B)}
  BY <1>5, <1>6 DEF Widen
<1> QED
  BY <1>3, <1>4, <1>7

\* What a pass finds in a set that a pass leaves alone is in it already.
LEMMA PassIsComplete ==
  ASSUME Host, NEW A \in SUBSET Node, Widen(A) = A
  PROVE  /\ \A n \in A : holders_recursive(n) \subseteq A
         /\ LoopsOver(A) \subseteq A
         /\ \A l \in LoopsOver(A) : partitions_of(l) \subseteq A
<1> DEFINE Held == A \cup UNION {holders_recursive(n) : n \in A}
<1>1. Widen(A) = Held \cup LoopsOver(Held) \cup UNION {partitions_of(l) : l \in LoopsOver(Held)}
  BY DEF Widen
<1>2. Held = A
  BY <1>1
<1> HIDE DEF Held
<1>3. A = A \cup LoopsOver(A) \cup UNION {partitions_of(l) : l \in LoopsOver(A)}
  BY <1>1, <1>2
<1>4. \A n \in A : holders_recursive(n) \subseteq Held
  BY DEF Held
<1> QED
  BY <1>2, <1>3, <1>4

\* A disk or loop device in the subtree is the target or a loop device over the
\* subtree: the pass that adds one adds its partitions too.
LEMMA WholeDisksOfSubtree ==
  ASSUME Host, NEW d \in Disks \cup Loops,
         NEW x \in target_block_subtree(d), x \in Disks \cup Loops
  PROVE  x = d \/ x \in LoopsOver(target_block_subtree(d))
<1> DEFINE A == target_block_subtree(d)
           C == {y \in A : y \in Disks \cup Loops => y = d \/ y \in LoopsOver(A)}
           HeldBy(S) == S \cup UNION {holders_recursive(n) : n \in S}
<1>1. /\ A \in SUBSET Node /\ {d} \cup partitions_of(d) \subseteq A /\ Widen(A) = A
      /\ \A D \in SUBSET Node :
           {d} \cup partitions_of(d) \subseteq D /\ Widen(D) \subseteq D => A \subseteq D
  BY SubtreeIsLeast
<1> HIDE DEF A
<1>2. C \in SUBSET Node /\ C \subseteq A
  BY <1>1
<1>3. {d} \cup partitions_of(d) \subseteq C
  <2>1. partitions_of(d) \cap (Disks \cup Loops) = {}
    BY Kinds DEF partitions_of
  <2> QED
    BY <1>1, <2>1
<1>4. Widen(C) \subseteq A
  BY <1>1, <1>2, WidenGrows
<1>5. HeldBy(C) \subseteq A
  <2>1. \A n \in A : holders_recursive(n) \subseteq A
    BY <1>1, PassIsComplete
  <2> QED
    BY <1>2, <2>1
<1>6. LoopsOver(HeldBy(C)) \subseteq LoopsOver(A)
  <2> HIDE DEF HeldBy
  <2> QED
    BY <1>5 DEF LoopsOver
<1>7. ASSUME NEW y \in Widen(C), y \in Disks \cup Loops
      PROVE  y \in C
  <2>1. Widen(C) = HeldBy(C) \cup LoopsOver(HeldBy(C))
                     \cup UNION {partitions_of(l) : l \in LoopsOver(HeldBy(C))}
    <3> HIDE DEF C
    <3> QED
      BY DEF Widen
  <2>2. \A l : partitions_of(l) \cap (Disks \cup Loops) = {}
    BY Kinds DEF partitions_of
  <2>3. \A n : holders_recursive(n) \cap (Disks \cup Loops) = {}
    BY HoldersAreLeast, Kinds
  <2>4. y \in C \/ y \in LoopsOver(HeldBy(C))
    <3> HIDE DEF C
    <3> QED
      BY <1>7, <2>1, <2>2, <2>3
  <2>5. y \in A
    BY <1>4, <1>7
  <2> QED
    BY <1>6, <2>4, <2>5
<1>8. Widen(C) \subseteq C
  BY <1>4, <1>7
<1>9. A \subseteq C
  <2> HIDE DEF C
  <2> QED
    BY <1>1, <1>2, <1>3, <1>8
<1>10. x \in C
  BY <1>9 DEF A
<1> QED
  BY <1>10 DEF A

\* The fixpoint is the stack.
LEMMA SubtreeIsOnTop ==
  ASSUME Host, NEW d \in Disks \cup Loops
  PROVE  target_block_subtree(d) = OnTopOf(d)
<1> DEFINE A == target_block_subtree(d)
           B == OnTopOf(d)
<1>1. d \in Node
  BY Kinds
<1>2. /\ B \in SUBSET Node /\ d \in B
      /\ \A n \in Node : Below(n) \cap B # {} => n \in B
      /\ \A C \in SUBSET Node :
           d \in C /\ (\A n \in Node : Below(n) \cap C # {} => n \in C) => B \subseteq C
  BY <1>1, OnTopIsLeast
<1>3. /\ A \in SUBSET Node /\ {d} \cup partitions_of(d) \subseteq A /\ Widen(A) = A
      /\ \A C \in SUBSET Node :
           {d} \cup partitions_of(d) \subseteq C /\ Widen(C) \subseteq C => A \subseteq C
  BY SubtreeIsLeast
<1>4. \A y \in A : y \in Disks \cup Loops => y = d \/ y \in LoopsOver(A)
  BY WholeDisksOfSubtree
<1> HIDE DEF A, B
<1>5. A \subseteq B
  BY <1>2, <1>3, PassStaysOnTop
<1>6. /\ \A n \in A : holders_recursive(n) \subseteq A
      /\ LoopsOver(A) \subseteq A
      /\ \A l \in LoopsOver(A) : partitions_of(l) \subseteq A
  BY <1>3, PassIsComplete
<1>7. ASSUME NEW n \in Node, NEW y \in Below(n), y \in A
      PROVE  n \in A
  <2>1. CASE n \in Partitions /\ y = Parent[n]
    <3>1. y \in Disks \cup Loops /\ n \in partitions_of(y)
      BY <2>1, Kinds DEF partitions_of
    <3> QED
      BY <1>3, <1>4, <1>6, <1>7, <3>1
  <2>2. CASE \E l \in links : l[2] = n /\ l[1] = y
    <3>1. n \in holders_recursive(y)
      BY <2>2, HoldersAreLeast
    <3> QED
      BY <1>6, <1>7, <3>1
  <2>3. CASE n \in Loops /\ backing[n] # NoFile /\ y = FsOf(backing[n].dir).on
    <3>1. n \in LoopsOver(A)
      BY <1>7, <2>3, DeepestIsLast DEF LoopsOver
    <3> QED
      BY <1>6, <3>1
  <2> QED
    BY <1>7, <2>1, <2>2, <2>3 DEF Below
<1>8. B \subseteq A
  <2>1. d \in A
    BY <1>3
  <2>2. \A n \in Node : Below(n) \cap A # {} => n \in A
    BY <1>7
  <2> QED
    BY <1>2, <1>3, <2>1, <2>2
<1> QED
  BY <1>5, <1>8 DEF A, B

-----------------------------------------------------------------------------
(* The inductive invariant. *)

PastWholeDisk == {"on_target", "format", "geometry", "capture", "model", "confirm", "claim"}

Ended == result # "running" <=> pc = "done"

Plugged == plug \in Units /\ rdev \in {0, 1} /\ since \in Nat

\* From ensure_whole_disk on the target is a whole disk.
WholeDisk == pc \in PastWholeDisk => target \in Disks \cup Loops

\* The geometry that passed.
Sized ==
  pc \in {"capture", "model", "confirm", "claim"} =>
    /\ size \in Nat /\ size \in Values
    /\ tail_wipe_offset(size) # Unset
    /\ ensure_image_fits(size)

\* The identity is of the stick that was seen, but for the size, which was read
\* before it; and the stick seen is in the slot until one is exchanged.
Captured ==
  pc \in {"model", "confirm", "claim"} =>
    /\ id # Unset /\ seen \in Attributes
    /\ id.model = seen.model /\ id.serial = seen.serial /\ id.wwid = seen.wwid
    /\ id.size = size
    /\ since = 0 => Device(target) = seen

\* What the prompt shows is of the stick seen, of one that has taken its place, or
\* of one that had.
Prompted ==
  pc \in {"confirm", "claim"} =>
    /\ shown.size = size
    /\ \/ shown.model = seen.model
       \/ since >= 1 /\ shown.model = Device(target).model
       \/ since >= 2

IInv ==
  /\ Host
  /\ Ended
  /\ Plugged
  /\ WholeDisk
  /\ ImageVerdictIsExact
  /\ Sized
  /\ Captured
  /\ Prompted
  /\ ClaimedIsShown

-----------------------------------------------------------------------------
(* What the conjuncts are made of. *)

\* Every device says its size and its names.
LEMMA DeviceSays ==
  ASSUME Plugged, NEW n \in Node
  PROVE  /\ Device(n) \in Attributes
         /\ Device(n).size \in Nat /\ Device(n).size \in Values
         /\ DeviceNumber(n) \in {0, 1, 2}
<1>1. /\ Units \subseteq Attributes /\ Fixed \in [Node \ {Slot} -> Attributes]
  BY PreflightAssumption DEF PreflightAssumption
<1>2. CASE n = Slot
  BY <1>1, <1>2 DEF Plugged, Device, DeviceNumber, Attributes, Values
<1>3. CASE n # Slot
  <2>1. n \in DOMAIN Fixed /\ Fixed[n] \in Attributes
    BY <1>1, <1>3
  <2> QED
    BY <1>3, <2>1 DEF Device, DeviceNumber, Attributes, Values
<1> QED
  BY <1>2, <1>3

\* A disk that is large enough for both wipes has room for the second.
LEMMA LargeEnoughForTail ==
  ASSUME NEW bytes \in Nat, ensure_device_large_enough(bytes)
  PROVE  tail_wipe_offset(bytes) # Unset
<1>1. WIPE_REGION \in Nat \ {0} /\ Unset \notin Nat
  BY PreflightAssumption DEF PreflightAssumption
<1>2. bytes >= 2 * WIPE_REGION
  BY DEF ensure_device_large_enough
<1>3. ~(bytes < WIPE_REGION) /\ ~(bytes - WIPE_REGION < WIPE_REGION)
      /\ bytes - WIPE_REGION \in Nat
  BY <1>1, <1>2
<1>4. tail_wipe_offset(bytes) = bytes - WIPE_REGION
  BY <1>3 DEF tail_wipe_offset
<1> QED
  BY <1>1, <1>3, <1>4

\* The first check that looks at the stack is right about the image.
LEMMA VerdictOnImage ==
  ASSUME Host, NEW img, NEW d \in Disks \cup Loops
  PROVE  ensure_image_not_on_target(img, d) <=> ~ImageOn(img, d)
<1>1. target_block_subtree(d) = OnTopOf(d)
  BY SubtreeIsOnTop
<1>2. block_kname_backing_path(img.dir) = FsOf(img.dir).on
  BY DeepestIsLast
<1> QED
  BY <1>1, <1>2 DEF ensure_image_not_on_target, ImageOn

\* A host that does not change has the same things on top of each other.
LEMMA HostStays ==
  ASSUME UNCHANGED hostVars
  PROVE  /\ Host => Host'
         /\ target' = target => (ImageOn(image, target)' <=> ImageOn(image, target))
<1>1. links' = links /\ mounts' = mounts /\ backing' = backing /\ image' = image
  BY DEF hostVars, stackVars
<1>2. Host => Host'
  BY <1>1 DEF Host
<1>3. ASSUME NEW dir
      PROVE  FsOf(dir)' = FsOf(dir)
  BY <1>1 DEF FsOf
<1>4. ASSUME NEW n
      PROVE  Below(n)' = Below(n)
  BY <1>1, <1>3, SMT DEF Below
<1>5. ASSUME target' = target
      PROVE  OnTopOf(target)' = OnTopOf(target)
  <2> DEFINE rise == [S \in SUBSET Node |-> S \cup {n \in Node : Below(n) \cap S # {}}]
  <2>1. rise' = rise
    BY <1>4
  <2>2. OnTopOf(target) = Saturate(rise, {target})
    BY DEF OnTopOf
  <2>3. OnTopOf(target)' = Saturate(rise', {target'})
    BY DEF OnTopOf
  <2> HIDE DEF rise
  <2> QED
    BY <1>5, <2>1, <2>2, <2>3
<1>6. ASSUME target' = target
      PROVE  ImageOn(image, target)' <=> ImageOn(image, target)
  <2>1. OnTopOf(target)' = OnTopOf(target)
    BY <1>5, <1>6
  <2>2. FsOf(image.dir)' = FsOf(image.dir)
    BY <1>1 DEF FsOf
  <2>3. IsBackingFile(image, OnTopOf(target))' <=> IsBackingFile(image, OnTopOf(target))
    BY <1>1, <2>1 DEF IsBackingFile
  <2> QED
    BY <2>1, <2>2, <2>3 DEF ImageOn
<1> QED
  BY <1>2, <1>6

\* A check goes on or refuses, and changes nothing else.
LEMMA CheckEffect ==
  ASSUME NEW step, NEW STATE holds, NEW next, Check(step, holds, next)
  PROVE  /\ pc = step
         /\ UNCHANGED <<hostVars, stickVars, runVars, since, seen>>
         /\ IF holds THEN pc' = next /\ result' = result
            ELSE pc' = "done" /\ result' = step
  BY DEF Check, GoTo, Stop

\* The steps before the identity is captured change nothing that was recorded, and
\* a check of the target leads no further than one step.
Quiet == UNCHANGED <<hostVars, stickVars, target, raw, size, id, shown, since, seen>>

\* A step that changes nothing recorded and goes on to a step that asks for no more.
LEMMA QuietStep ==
  ASSUME IInv, Quiet, UNCHANGED result, pc # "done", pc' # "done",
         pc' \in PastWholeDisk => target \in Disks \cup Loops,
         pc' = "format" => ~ImageOn(image, target),
         pc' \in {"capture", "model", "confirm", "claim"} =>
           pc \in {"capture", "model", "confirm", "claim"},
         pc' \in {"model", "confirm", "claim"} => pc \in {"model", "confirm", "claim"},
         pc' \in {"confirm", "claim"} => pc \in {"confirm", "claim"}
  PROVE  IInv'
<1>1. /\ UNCHANGED hostVars /\ plug' = plug /\ rdev' = rdev /\ target' = target
      /\ raw' = raw /\ size' = size /\ id' = id /\ shown' = shown
      /\ since' = since /\ seen' = seen /\ result' = result
  BY DEF Quiet, stickVars
<1>2. result = "running" /\ result' = "running"
  BY <1>1 DEF IInv, Ended
<1>3. Host' /\ (ImageOn(image, target)' <=> ImageOn(image, target))
  BY <1>1, HostStays DEF IInv
<1>4. \A n : Device(n)' = Device(n)
  BY <1>1 DEF Device
<1>5. Device(target)' = Device(target)
  BY <1>1 DEF Device
<1>6. Ended'
  BY <1>2 DEF Ended
<1>7. Plugged' /\ WholeDisk'
  BY <1>1 DEF IInv, Plugged, WholeDisk
<1>8. ImageVerdictIsExact'
  BY <1>2, <1>3 DEF ImageVerdictIsExact
<1>9. Sized'
  BY <1>1 DEF IInv, Sized, ensure_image_fits
<1>10. Captured'
  BY <1>1, <1>5 DEF IInv, Captured
<1>11. Prompted'
  BY <1>1, <1>5 DEF IInv, Prompted
<1>12. ClaimedIsShown'
  BY <1>2 DEF ClaimedIsShown
<1> QED
  BY <1>3, <1>6, <1>7, <1>8, <1>9, <1>10, <1>11, <1>12 DEF IInv

\* A refusal records its own name; the two that say more are looked at here.
LEMMA StopStep ==
  ASSUME IInv, Quiet, pc # "done", pc' = "done", result' # "running",
         result' = "on_target" => ImageOn(image, target),
         result' = "claimed" => ClaimedIsShown'
  PROVE  IInv'
<1>1. /\ UNCHANGED hostVars /\ plug' = plug /\ rdev' = rdev /\ target' = target
      /\ since' = since
  BY DEF Quiet, stickVars
<1>2. Host' /\ (ImageOn(image, target)' <=> ImageOn(image, target))
  BY <1>1, HostStays DEF IInv
<1>3. Ended' /\ Plugged' /\ WholeDisk'
  BY <1>1 DEF IInv, Ended, Plugged, WholeDisk, PastWholeDisk
<1>4. ImageVerdictIsExact'
  BY <1>2 DEF ImageVerdictIsExact
<1>5. Sized' /\ Captured' /\ Prompted'
  BY DEF Sized, Captured, Prompted
<1>6. ClaimedIsShown'
  BY DEF ClaimedIsShown
<1> QED
  BY <1>2, <1>3, <1>4, <1>5, <1>6 DEF IInv

-----------------------------------------------------------------------------
(* The initial states. *)

\* One element, then up to one of each of two others.
LEMMA UpToThree ==
  ASSUME NEW X, NEW s \in Seq(X), NEW t \in Seq(X), NEW u \in Seq(X),
         Len(s) = 1, Len(t) \in {0, 1}, Len(u) \in {0, 1}
  PROVE  /\ DOMAIN (s \o t \o u) = 1 .. 1 + Len(t) + Len(u)
         /\ (s \o t \o u)[1] = s[1]
         /\ Len(t) = 1 => (s \o t \o u)[2] = t[1]
         /\ Len(u) = 1 => (s \o t \o u)[2 + Len(t)] = u[1]
<1> DEFINE st == s \o t
<1>1. /\ st \in Seq(X) /\ Len(st) = 1 + Len(t) /\ st[1] = s[1]
      /\ Len(t) = 1 => st[2] = t[1]
  BY ConcatProperties
<1> HIDE DEF st
<1>2. /\ st \o u \in Seq(X) /\ Len(st \o u) = Len(st) + Len(u)
      /\ \A i \in 1 .. Len(st) + Len(u) :
           (st \o u)[i] = IF i <= Len(st) THEN st[i] ELSE u[i - Len(st)]
  BY <1>1, ConcatProperties
<1>3. DOMAIN (st \o u) = 1 .. 1 + Len(t) + Len(u)
  BY <1>1, <1>2
<1>4. /\ (st \o u)[1] = s[1]
      /\ Len(t) = 1 => (st \o u)[2] = t[1]
      /\ Len(u) = 1 => (st \o u)[2 + Len(t)] = u[1]
  BY <1>1, <1>2
<1> QED
  BY <1>3, <1>4 DEF st

\* The tables considered are nested: each mount is made in the one before it.
LEMMA InitHost ==
  ASSUME Init
  PROVE  Host
<1>1. links \subseteq Node \X Stacks
  <2>1. links \in SUBSET ((Node \ Stacks) \X Stacks)
    BY DEF Init
  <2> QED
    BY <2>1
<1>2. PICK outer \in {<< >>} \cup Filesystem(<<"media">>),
           inner \in {<< >>} \cup Filesystem(<<"media", "x">>),
           root \in Stacks \cup UNION {partitions_of(d) : d \in Disks \ {Slot}} :
        mounts = <<[on |-> root, anon |-> FALSE, path |-> << >>]>> \o outer \o inner
  BY DEF Init
<1> DEFINE r == [on |-> root, anon |-> FALSE, path |-> << >>]
           X == {r, outer[1], inner[1]}
<1>3. outer = << >> \/ (outer = <<outer[1]>> /\ outer[1].path = <<"media">>)
  BY DEF Filesystem
<1>4. inner = << >> \/ (inner = <<inner[1]>> /\ inner[1].path = <<"media", "x">>)
  BY DEF Filesystem
<1>5. r.path = << >> /\ mounts = <<r>> \o outer \o inner
  BY <1>2
<1> HIDE DEF r
<1>6. /\ outer \in Seq(X) /\ Len(outer) \in {0, 1}
      /\ Len(outer) = 1 => outer[1].path = <<"media">>
  <2> DEFINE o == outer[1]
  <2>1. o \in X
    OBVIOUS
  <2>2. outer = << >> \/ (outer = <<o>> /\ o.path = <<"media">>)
    BY <1>3
  <2> HIDE DEF o, X
  <2>3. CASE outer = << >>
    BY <2>3
  <2>4. CASE outer = <<o>> /\ o.path = <<"media">>
    <3>1. <<o>> \in Seq(X) /\ Len(<<o>>) = 1 /\ <<o>>[1] = o
      BY <2>1
    <3> QED
      BY <2>4, <3>1
  <2> QED
    BY <2>2, <2>3, <2>4
<1>7. /\ inner \in Seq(X) /\ Len(inner) \in {0, 1}
      /\ Len(inner) = 1 => inner[1].path = <<"media", "x">>
  <2> DEFINE i == inner[1]
  <2>1. i \in X
    OBVIOUS
  <2>2. inner = << >> \/ (inner = <<i>> /\ i.path = <<"media", "x">>)
    BY <1>4
  <2> HIDE DEF i, X
  <2>3. CASE inner = << >>
    BY <2>3
  <2>4. CASE inner = <<i>> /\ i.path = <<"media", "x">>
    <3>1. <<i>> \in Seq(X) /\ Len(<<i>>) = 1 /\ <<i>>[1] = i
      BY <2>1
    <3> QED
      BY <2>4, <3>1
  <2> QED
    BY <2>2, <2>3, <2>4
<1>8. <<r>> \in Seq(X) /\ Len(<<r>>) = 1 /\ <<r>>[1] = r
  OBVIOUS
<1> HIDE DEF X
<1> DEFINE lo == Len(outer)
           li == Len(inner)
           deep(i) == Len(mounts[i].path)
<1>9. /\ DOMAIN mounts = 1 .. 1 + lo + li
      /\ mounts[1] = r
      /\ lo = 1 => mounts[2] = outer[1]
      /\ li = 1 => mounts[2 + lo] = inner[1]
  BY <1>5, <1>6, <1>7, <1>8, UpToThree
<1>10. lo \in {0, 1} /\ li \in {0, 1}
  BY <1>6, <1>7
<1>11. /\ Len(<< >>) = 0 /\ Len(<<"media">>) = 1 /\ Len(<<"media", "x">>) = 2
  OBVIOUS
<1>12. deep(1) = 0
  BY <1>5, <1>9, <1>11
<1>13. lo = 1 => deep(2) = 1
  <2>1. lo = 1 => mounts[2].path = <<"media">>
    BY <1>6, <1>9
  <2> QED
    BY <1>11, <2>1
<1>14. li = 1 => deep(2 + lo) = 2
  <2>1. li = 1 => mounts[2 + lo].path = <<"media", "x">>
    BY <1>7, <1>9
  <2> QED
    BY <1>11, <2>1
<1>15. DOMAIN mounts = 1 .. 1 + lo + li
  BY <1>9
<1> HIDE DEF lo, li, deep
<1>16. \A i \in DOMAIN mounts : i = 1 \/ (i = 2 /\ lo = 1) \/ (i = 2 + lo /\ li = 1)
  BY <1>10, <1>15
<1>17. DOMAIN mounts \subseteq Nat
  BY <1>10, <1>15
<1>18. \A i \in DOMAIN mounts : deep(i) \in Nat
  BY <1>12, <1>13, <1>14, <1>16
<1>19. \A i, j \in DOMAIN mounts : i < j => deep(i) < deep(j)
  BY <1>10, <1>12, <1>13, <1>14, <1>16
<1> QED
  BY <1>1, <1>17, <1>18, <1>19 DEF Host, deep

LEMMA InitIInv ==
  ASSUME Init
  PROVE  IInv
<1>1. /\ pc = "start" /\ result = "running" /\ rdev = 0 /\ since = 0
  BY DEF Init
<1>2. plug \in Units
  BY PreflightAssumption DEF PreflightAssumption, Init
<1>3. Plugged
  BY <1>1, <1>2 DEF Plugged
<1>4. Ended /\ WholeDisk /\ ImageVerdictIsExact
  BY <1>1 DEF Ended, WholeDisk, PastWholeDisk, ImageVerdictIsExact
<1>5. Sized /\ Captured /\ Prompted /\ ClaimedIsShown
  BY <1>1 DEF Sized, Captured, Prompted, ClaimedIsShown
<1> QED
  BY <1>3, <1>4, <1>5, InitHost DEF IInv

-----------------------------------------------------------------------------
(* The picker, and the checks that record nothing. *)

\* A device is chosen, or the menu shown: nothing is known of it yet.
LEMMA ChoiceSteps ==
  ASSUME IInv, ExplicitDevice \/ ListCandidates \/ Select
  PROVE  IInv'
<1>1. /\ pc' \in {"menu", "cooldown"} /\ pc # "done"
      /\ UNCHANGED <<hostVars, stickVars, since, seen, result>>
  BY DEF ExplicitDevice, ListCandidates, Select, GoTo
<1>2. Host'
  BY <1>1, HostStays DEF IInv
<1>3. result' = "running"
  BY <1>1 DEF IInv, Ended
<1>4. Ended' /\ Plugged' /\ WholeDisk' /\ ImageVerdictIsExact'
  <2>1. Ended'
    BY <1>1, <1>3 DEF Ended
  <2>2. Plugged'
    BY <1>1 DEF IInv, Plugged, stickVars
  <2>3. WholeDisk'
    BY <1>1 DEF WholeDisk, PastWholeDisk
  <2>4. ImageVerdictIsExact'
    BY <1>1, <1>3 DEF ImageVerdictIsExact
  <2> QED
    BY <2>1, <2>2, <2>3, <2>4
<1>5. Sized' /\ Captured' /\ Prompted'
  BY <1>1 DEF Sized, Captured, Prompted
<1>6. ClaimedIsShown'
  BY <1>3 DEF ClaimedIsShown
<1> QED
  BY <1>2, <1>4, <1>5, <1>6 DEF IInv

LEMMA NoSelectionStep ==
  ASSUME IInv, NoSelection
  PROVE  IInv'
<1>1. /\ Quiet /\ pc = "menu" /\ pc' = "done" /\ result' = "menu"
  BY DEF NoSelection, Stop, Quiet, runVars, Target
<1> QED
  BY <1>1, StopStep

\* A check that says nothing of the target passes, or refuses.
LEMMA PlainCheck ==
  ASSUME IInv, NEW step, NEW STATE holds, NEW next, Check(step, holds, next),
         step \in {"cooldown", "root", "paths", "confirm"},
         next = CASE step = "cooldown" -> "root"
                  [] step = "root" -> "paths"
                  [] step = "paths" -> "whole_disk"
                  [] step = "confirm" -> "claim"
  PROVE  IInv'
<1>1. /\ pc = step /\ Quiet
      /\ IF holds THEN pc' = next /\ result' = result
         ELSE pc' = "done" /\ result' = step
  BY CheckEffect DEF Quiet, runVars, Target
<1>2. pc # "done"
  BY <1>1
<1>3. CASE holds
  <2>1. pc' = next /\ result' = result
    BY <1>1, <1>3
  <2>2. CASE step = "confirm"
    <3>1. pc = "confirm" /\ pc' = "claim"
      BY <1>1, <2>1, <2>2
    <3>2. target \in Disks \cup Loops
      BY <3>1 DEF IInv, WholeDisk, PastWholeDisk
    <3> QED
      BY <1>1, <2>1, <3>1, <3>2, QuietStep
  <2>3. CASE step # "confirm"
    <3>1. pc' \in {"root", "paths", "whole_disk"}
      BY <2>1, <2>3
    <3>2. pc' \notin PastWholeDisk
      BY <3>1 DEF PastWholeDisk
    <3> QED
      BY <1>1, <1>2, <2>1, <3>1, <3>2, QuietStep
  <2> QED
    BY <2>2, <2>3
<1>4. CASE ~holds
  <2>1. pc' = "done" /\ result' = step
    BY <1>1, <1>4
  <2> QED
    BY <1>1, <1>2, <2>1, StopStep
<1> QED
  BY <1>3, <1>4

LEMMA PlainSteps ==
  ASSUME IInv, ValidateCooldown \/ RootCheck \/ CheckPaths \/ ConfirmDestruction
  PROVE  IInv'
<1>1. CASE ValidateCooldown
  <2>1. PICK arg \in CooldownArgs :
          Check("cooldown", validate_cooldown_secs(resolved_cooldown_secs(arg)), "root")
    BY <1>1 DEF ValidateCooldown
  <2> QED
    BY <2>1, PlainCheck
<1>2. CASE RootCheck
  <2>1. PICK root \in BOOLEAN : Check("root", root, "paths")
    BY <1>2 DEF RootCheck
  <2> QED
    BY <2>1, PlainCheck
<1>3. CASE CheckPaths
  <2> DEFINE Fine(img, dev) == /\ img # "missing" /\ dev # "missing"
                               /\ ensure_distinct_paths(img)
                               /\ ensure_image_is_regular_file(img)
                               /\ ensure_block_device(dev)
  <2>1. PICK img \in FileType, dev \in FileType \ {"target"} :
          Check("paths", Fine(img, dev), "whole_disk")
    BY <1>3 DEF CheckPaths
  <2> HIDE DEF Fine
  <2> QED
    BY <2>1, PlainCheck
<1>4. CASE ConfirmDestruction
  <2>1. PICK yes \in BOOLEAN : Check("confirm", yes, "claim")
    BY <1>4 DEF ConfirmDestruction
  <2> QED
    BY <2>1, PlainCheck
<1> QED
  BY <1>1, <1>2, <1>3, <1>4

-----------------------------------------------------------------------------
(* The checks of the target and of the image. *)

LEMMA WholeDiskStep ==
  ASSUME IInv, EnsureWholeDisk
  PROVE  IInv'
<1>1. /\ pc = "whole_disk" /\ Quiet
      /\ IF ensure_whole_disk(target) THEN pc' = "on_target" /\ result' = result
         ELSE pc' = "done" /\ result' = "whole_disk"
  BY CheckEffect DEF EnsureWholeDisk, Quiet, runVars, Target
<1>2. CASE ensure_whole_disk(target)
  <2>1. target \in Disks \cup Loops
    BY <1>2 DEF ensure_whole_disk, has_backing_device
  <2> QED
    BY <1>1, <1>2, <2>1, QuietStep
<1>3. CASE ~ensure_whole_disk(target)
  BY <1>1, <1>3, StopStep
<1> QED
  BY <1>2, <1>3

LEMMA OnTargetStep ==
  ASSUME IInv, EnsureImageNotOnTarget
  PROVE  IInv'
<1>1. /\ pc = "on_target" /\ Quiet
      /\ IF ensure_image_not_on_target(image, target)
         THEN pc' = "format" /\ result' = result
         ELSE pc' = "done" /\ result' = "on_target"
  BY CheckEffect DEF EnsureImageNotOnTarget, Quiet, runVars, Target
<1>2. target \in Disks \cup Loops
  BY <1>1 DEF IInv, WholeDisk, PastWholeDisk
<1>3. ensure_image_not_on_target(image, target) <=> ~ImageOn(image, target)
  BY <1>2, VerdictOnImage DEF IInv
<1>4. CASE ensure_image_not_on_target(image, target)
  BY <1>1, <1>2, <1>3, <1>4, QuietStep
<1>5. CASE ~ensure_image_not_on_target(image, target)
  BY <1>1, <1>3, <1>5, StopStep
<1> QED
  BY <1>4, <1>5

\* What the steps below need of the host and of the slot.
LEMMA SameHost ==
  ASSUME IInv, UNCHANGED <<hostVars, stickVars>>, target' = target, since' \in Nat
  PROVE  /\ Host' /\ Plugged'
         /\ (ImageOn(image, target)' <=> ImageOn(image, target))
         /\ Device(target)' = Device(target)
<1>1. UNCHANGED hostVars /\ plug' = plug /\ rdev' = rdev
  BY DEF stickVars
<1> QED
  BY <1>1, HostStays DEF IInv, Plugged, Device

LEMMA FormatStep ==
  ASSUME IInv, DetectCompression
  PROVE  IInv'
<1>1. PICK f \in Formats :
        /\ pc = "format"
        /\ IF unsupported_archive(f) THEN Stop("format")
           ELSE /\ raw' \in IF is_compressed(classify(f)) THEN {Unset} ELSE ImageSizes
                /\ GoTo("geometry")
                /\ UNCHANGED <<menu, target, size, id, shown>>
  BY DEF DetectCompression
<1>2. CASE unsupported_archive(f)
  <2>1. /\ pc = "format" /\ Quiet /\ pc' = "done" /\ result' = "format"
    BY <1>1, <1>2 DEF Stop, Quiet, runVars, Target
  <2> QED
    BY <2>1, StopStep
<1>3. CASE ~unsupported_archive(f)
  <2>1. /\ pc = "format" /\ pc' = "geometry" /\ result' = result /\ target' = target
        /\ UNCHANGED <<hostVars, stickVars>> /\ since' = since
    BY <1>1, <1>3 DEF GoTo
  <2>2. result' = "running"
    BY <2>1 DEF IInv, Ended
  <2>3. since' \in Nat
    BY <2>1 DEF IInv, Plugged
  <2>4. Host' /\ Plugged'
    BY <2>1, <2>3, SameHost
  <2>5. Ended' /\ ImageVerdictIsExact' /\ ClaimedIsShown'
    BY <2>1, <2>2 DEF Ended, ImageVerdictIsExact, ClaimedIsShown
  <2>6. WholeDisk'
    BY <2>1 DEF IInv, WholeDisk, PastWholeDisk
  <2>7. Sized' /\ Captured' /\ Prompted'
    BY <2>1 DEF Sized, Captured, Prompted
  <2> QED
    BY <2>4, <2>5, <2>6, <2>7 DEF IInv
<1> QED
  BY <1>2, <1>3

-----------------------------------------------------------------------------
(* Three reads of the device: its size, its identity, its model. *)

LEMMA GeometryStep ==
  ASSUME IInv, QueryGeometry
  PROVE  IInv'
<1>1. PICK dev \in query_dev_geometry_readonly :
        IF /\ ~dev.read_only
           /\ ensure_device_large_enough(dev.size)
           /\ ensure_image_fits(dev.size)
        THEN /\ size' = dev.size
             /\ GoTo("capture")
             /\ UNCHANGED <<menu, target, raw, id, shown>>
        ELSE Stop("geometry")
  BY DEF QueryGeometry
<1> DEFINE fine == ~dev.read_only /\ ensure_device_large_enough(dev.size)
                     /\ ensure_image_fits(dev.size)
<1>2. pc = "geometry"
  BY DEF QueryGeometry
<1>3. target \in Disks \cup Loops
  BY <1>2 DEF IInv, WholeDisk, PastWholeDisk
<1>4. dev.size = Device(target).size
  BY DEF query_dev_geometry_readonly
<1>5. Device(target).size \in Nat /\ Device(target).size \in Values
  BY <1>3, DeviceSays, Kinds DEF IInv
<1>6. CASE fine
  <2>1. /\ pc' = "capture" /\ result' = result /\ target' = target /\ raw' = raw
        /\ UNCHANGED <<hostVars, stickVars>> /\ since' = since /\ size' = dev.size
    BY <1>1, <1>6 DEF GoTo
  <2>2. result' = "running"
    BY <1>2, <2>1 DEF IInv, Ended
  <2>3. Host' /\ Plugged'
    <3>1. since' \in Nat
      BY <2>1 DEF IInv, Plugged
    <3> QED
      BY <2>1, <3>1, SameHost
  <2>4. Ended' /\ ImageVerdictIsExact' /\ ClaimedIsShown'
    BY <2>1, <2>2 DEF Ended, ImageVerdictIsExact, ClaimedIsShown
  <2>5. WholeDisk'
    BY <1>3, <2>1 DEF WholeDisk
  <2>6. Sized'
    <3>1. size' \in Nat /\ size' \in Values
      BY <1>4, <1>5, <2>1
    <3>2. tail_wipe_offset(dev.size) # Unset
      BY <1>4, <1>5, <1>6, LargeEnoughForTail
    <3>3. tail_wipe_offset(size)' # Unset
      BY <2>1, <3>2 DEF tail_wipe_offset
    <3>4. ensure_image_fits(size)'
      BY <1>6, <2>1 DEF ensure_image_fits
    <3>5. Values' = Values
      BY DEF Values
    <3> QED
      BY <3>1, <3>3, <3>4, <3>5 DEF Sized
  <2>7. Captured' /\ Prompted'
    BY <2>1 DEF Captured, Prompted
  <2> QED
    BY <2>3, <2>4, <2>5, <2>6, <2>7 DEF IInv
<1>7. CASE ~fine
  <2>1. Stop("geometry")
    BY <1>1, <1>7
  <2>2. /\ Quiet /\ pc' = "done" /\ result' = "geometry"
    BY <2>1 DEF Stop, Quiet, runVars, Target
  <2> QED
    BY <1>2, <2>2, StopStep
<1> QED
  BY <1>6, <1>7

LEMMA CaptureStep ==
  ASSUME IInv, Capture
  PROVE  IInv'
<1>1. /\ pc = "capture" /\ pc' = "model"
      /\ id' = [rdev |-> DeviceNumber(target), model |-> Device(target).model,
                serial |-> Device(target).serial, wwid |-> Device(target).wwid,
                size |-> size]
      /\ since' = 0 /\ seen' = Device(target)
      /\ UNCHANGED <<hostVars, stickVars>>
      /\ target' = target /\ raw' = raw /\ size' = size /\ result' = result
  BY DEF Capture
<1>2. result' = "running"
  BY <1>1 DEF IInv, Ended
<1>3. target \in Disks \cup Loops
  BY <1>1 DEF IInv, WholeDisk, PastWholeDisk
<1>4. Device(target) \in Attributes /\ DeviceNumber(target) \in {0, 1, 2}
  BY <1>3, DeviceSays, Kinds DEF IInv
<1>5. Host' /\ Plugged' /\ Device(target)' = Device(target)
  BY <1>1, SameHost
<1>6. /\ size \in Nat /\ size \in Values /\ tail_wipe_offset(size) # Unset
      /\ ensure_image_fits(size)
  BY <1>1 DEF IInv, Sized
<1>7. Ended' /\ ImageVerdictIsExact' /\ ClaimedIsShown'
  BY <1>1, <1>2 DEF Ended, ImageVerdictIsExact, ClaimedIsShown
<1>8. WholeDisk'
  BY <1>1, <1>3 DEF WholeDisk
<1>9. Sized'
  BY <1>1, <1>6 DEF Sized, tail_wipe_offset, ensure_image_fits, Values
<1>10. Captured'
  <2>1. id' \in DeviceIdentity
    BY <1>1, <1>4, <1>6 DEF DeviceIdentity, Attributes
  <2>2. id' # Unset
    BY <2>1, OptionAssumption DEF OptionAssumption
  <2>3. /\ id'.model = seen'.model /\ id'.serial = seen'.serial
        /\ id'.wwid = seen'.wwid /\ id'.size = size'
    BY <1>1
  <2>4. seen' \in Attributes /\ Device(target)' = seen'
    BY <1>1, <1>4, <1>5
  <2>5. Attributes' = Attributes
    BY DEF Attributes
  <2> QED
    BY <2>2, <2>3, <2>4, <2>5 DEF Captured
<1>11. Prompted'
  BY <1>1 DEF Prompted
<1> QED
  BY <1>5, <1>7, <1>8, <1>9, <1>10, <1>11 DEF IInv

LEMMA SummariseStep ==
  ASSUME IInv, Summarise
  PROVE  IInv'
<1>1. /\ pc = "model" /\ pc' = "confirm"
      /\ shown' = [model |-> Device(target).model, size |-> size]
      /\ UNCHANGED <<hostVars, stickVars>>
      /\ target' = target /\ raw' = raw /\ size' = size /\ id' = id
      /\ since' = since /\ seen' = seen /\ result' = result
  BY DEF Summarise, GoTo
<1>2. result' = "running"
  BY <1>1 DEF IInv, Ended
<1>3. target \in Disks \cup Loops
  BY <1>1 DEF IInv, WholeDisk, PastWholeDisk
<1>4. since \in Nat
  BY DEF IInv, Plugged
<1>5. Host' /\ Plugged' /\ Device(target)' = Device(target)
  BY <1>1, <1>4, SameHost
<1>6. Ended' /\ ImageVerdictIsExact' /\ ClaimedIsShown'
  BY <1>1, <1>2 DEF Ended, ImageVerdictIsExact, ClaimedIsShown
<1>7. WholeDisk'
  BY <1>1, <1>3 DEF WholeDisk
<1>8. Sized'
  BY <1>1 DEF IInv, Sized, tail_wipe_offset, ensure_image_fits, Values
<1>9. Captured'
  BY <1>1, <1>5 DEF IInv, Captured
<1>10. Prompted'
  <2>1. shown'.size = size' /\ shown'.model = Device(target)'.model
    BY <1>1, <1>5
  <2>2. CASE since = 0
    <3>1. Device(target) = seen
      BY <1>1, <2>2 DEF IInv, Captured
    <3>2. shown'.model = seen'.model
      BY <1>1, <1>5, <2>1, <3>1
    <3> QED
      BY <2>1, <3>2 DEF Prompted
  <2>3. CASE since >= 1
    BY <1>1, <2>1, <2>3 DEF Prompted
  <2> QED
    BY <1>4, <2>2, <2>3
<1> QED
  BY <1>5, <1>6, <1>7, <1>8, <1>9, <1>10 DEF IInv

-----------------------------------------------------------------------------
(* The claim, and the stick. *)

\* Two devices that say the same in four ways are the same to imi.
LEMMA SameAttributes ==
  ASSUME NEW d \in Attributes, NEW e \in Attributes, NEW bytes,
         d.model = e.model, d.serial = e.serial, d.wwid = e.wwid, d.size = bytes
  PROVE  d = [e EXCEPT !.size = bytes]
<1>1. /\ d = [size |-> d.size, model |-> d.model, serial |-> d.serial, wwid |-> d.wwid]
      /\ e = [size |-> e.size, model |-> e.model, serial |-> e.serial, wwid |-> e.wwid]
  BY DEF Attributes
<1>2. [e EXCEPT !.size = bytes]
        = [size |-> bytes, model |-> e.model, serial |-> e.serial, wwid |-> e.wwid]
  BY <1>1
<1> QED
  BY <1>1, <1>2

LEMMA ClaimStep ==
  ASSUME IInv, VerifyClaimed
  PROVE  IInv'
<1>1. /\ pc = "claim" /\ Quiet /\ pc' = "done"
      /\ IF verify_claimed THEN result' = "claimed" ELSE result' = "claim"
  BY DEF VerifyClaimed, Stop, Quiet, runVars, Target
<1>2. target \in Disks \cup Loops
  BY <1>1 DEF IInv, WholeDisk, PastWholeDisk
<1>3. since \in Nat
  BY DEF IInv, Plugged
<1>4. Device(target) \in Attributes
  BY <1>2, DeviceSays, Kinds DEF IInv
<1>5. ASSUME verify_claimed
      PROVE  ClaimedIsShown'
  <2>1. /\ id.model = seen.model /\ id.serial = seen.serial /\ id.wwid = seen.wwid
        /\ id.size = size /\ seen \in Attributes
        /\ since = 0 => Device(target) = seen
    BY <1>1 DEF IInv, Captured
  <2>2. /\ shown.size = size
        /\ \/ shown.model = seen.model
           \/ since >= 1 /\ shown.model = Device(target).model
           \/ since >= 2
    BY <1>1 DEF IInv, Prompted
  <2>3. tail_wipe_offset(size) # Unset /\ ensure_image_fits(size)
    BY <1>1 DEF IInv, Sized
  <2>4. /\ Device(target).model = id.model /\ Device(target).serial = id.serial
        /\ Device(target).wwid = id.wwid /\ Device(target).size = id.size
    BY <1>5 DEF verify_claimed, check_model, check_serial, check_wwid, check_size
  <2>5. Device(target) = [seen EXCEPT !.size = shown.size]
    BY <1>4, <2>1, <2>2, <2>4, SameAttributes
  <2>6. shown.size = seen.size \/ since >= 1
    BY <1>3, <2>1, <2>2, <2>4
  <2>7. shown.model = seen.model \/ since >= 2
    BY <2>1, <2>2, <2>4
  <2>8. ensure_image_fits(Device(target).size)
    BY <2>1, <2>3, <2>4
  <2>9. ClaimedIsShown' <=>
          (result' = "claimed" =>
            /\ Device(target) = [seen EXCEPT !.size = shown.size]
            /\ shown.size = seen.size \/ since >= 1
            /\ shown.model = seen.model \/ since >= 2
            /\ tail_wipe_offset(size) # Unset
            /\ ensure_image_fits(Device(target).size))
    BY <1>1 DEF Quiet, stickVars, ClaimedIsShown, Device, tail_wipe_offset,
                ensure_image_fits
  <2> QED
    BY <2>3, <2>5, <2>6, <2>7, <2>8, <2>9
<1> QED
  BY <1>1, <1>5, StopStep

LEMMA ReplugStep ==
  ASSUME IInv, Replug
  PROVE  IInv'
<1>1. /\ pc # "done" /\ plug' \in Units /\ rdev' \in {0, 1} /\ pc' = pc
      /\ since' = IF id = Unset THEN 0 ELSE since + 1
      /\ UNCHANGED hostVars /\ target' = target /\ raw' = raw /\ size' = size
      /\ id' = id /\ shown' = shown /\ seen' = seen /\ result' = result
  BY DEF Replug, runVars, Target
<1>2. since \in Nat /\ result = "running"
  BY <1>1 DEF IInv, Plugged, Ended
<1>3. Host' /\ (ImageOn(image, target)' <=> ImageOn(image, target))
  BY <1>1, HostStays DEF IInv
<1>4. Ended' /\ Plugged' /\ WholeDisk'
  BY <1>1, <1>2 DEF IInv, Ended, Plugged, WholeDisk
<1>5. ImageVerdictIsExact'
  BY <1>1, <1>3 DEF IInv, ImageVerdictIsExact
<1>6. Sized'
  BY <1>1 DEF IInv, Sized, tail_wipe_offset, ensure_image_fits, Values
<1>7. ASSUME pc \in {"model", "confirm", "claim"}
      PROVE  since' = since + 1 /\ id # Unset
  BY <1>1, <1>7 DEF IInv, Captured
<1>8. Captured'
  <2>1. Attributes' = Attributes
    BY DEF Attributes
  <2> QED
    BY <1>1, <1>2, <1>7, <2>1 DEF IInv, Captured
<1>9. Prompted'
  <2>1. SUFFICES ASSUME pc \in {"confirm", "claim"}
                 PROVE  /\ shown'.size = size'
                        /\ shown'.model = seen'.model \/ since' >= 2
    BY <1>1 DEF Prompted
  <2>2. since' = since + 1
    BY <1>7, <2>1
  <2>3. /\ shown.size = size
        /\ shown.model = seen.model \/ since >= 1 \/ since >= 2
    BY <2>1 DEF IInv, Prompted
  <2> QED
    BY <1>1, <1>2, <2>2, <2>3
<1>10. ClaimedIsShown'
  BY <1>1, <1>2 DEF ClaimedIsShown
<1> QED
  BY <1>3, <1>4, <1>5, <1>6, <1>8, <1>9, <1>10 DEF IInv

LEMMA StutterStep ==
  ASSUME IInv, UNCHANGED vars
  PROVE  IInv'
<1>1. /\ UNCHANGED hostVars /\ plug' = plug /\ rdev' = rdev /\ pc' = pc
      /\ target' = target /\ raw' = raw /\ size' = size /\ id' = id
      /\ shown' = shown /\ since' = since /\ seen' = seen /\ result' = result
  BY DEF vars, stickVars, runVars, Target
<1>2. Host' /\ (ImageOn(image, target)' <=> ImageOn(image, target))
  BY <1>1, HostStays DEF IInv
<1>3. Device(target)' = Device(target)
  BY <1>1 DEF Device
<1>4. Ended' /\ Plugged' /\ WholeDisk' /\ ImageVerdictIsExact'
  BY <1>1, <1>2 DEF IInv, Ended, Plugged, WholeDisk, ImageVerdictIsExact
<1>5. Sized'
  BY <1>1 DEF IInv, Sized, tail_wipe_offset, ensure_image_fits, Values
<1>6. Captured' /\ Prompted'
  BY <1>1, <1>3 DEF IInv, Captured, Prompted, Attributes
<1>7. ClaimedIsShown'
  BY <1>1, <1>3 DEF IInv, ClaimedIsShown, tail_wipe_offset, ensure_image_fits
<1> QED
  BY <1>2, <1>4, <1>5, <1>6, <1>7 DEF IInv

-----------------------------------------------------------------------------
(* The theorems. *)

LEMMA NextIInv ==
  ASSUME IInv, [Next]_vars
  PROVE  IInv'
<1>1. CASE ExplicitDevice \/ ListCandidates \/ Select
  BY <1>1, ChoiceSteps
<1>2. CASE NoSelection
  BY <1>2, NoSelectionStep
<1>3. CASE ValidateCooldown \/ RootCheck \/ CheckPaths \/ ConfirmDestruction
  BY <1>3, PlainSteps
<1>4. CASE EnsureWholeDisk
  BY <1>4, WholeDiskStep
<1>5. CASE EnsureImageNotOnTarget
  BY <1>5, OnTargetStep
<1>6. CASE DetectCompression
  BY <1>6, FormatStep
<1>7. CASE QueryGeometry
  BY <1>7, GeometryStep
<1>8. CASE Capture
  BY <1>8, CaptureStep
<1>9. CASE Summarise
  BY <1>9, SummariseStep
<1>10. CASE VerifyClaimed
  BY <1>10, ClaimStep
<1>11. CASE Replug
  BY <1>11, ReplugStep
<1>12. CASE Terminated \/ UNCHANGED vars
  BY <1>12, StutterStep DEF Terminated
<1> QED
  BY <1>1, <1>2, <1>3, <1>4, <1>5, <1>6, <1>7, <1>8, <1>9, <1>10, <1>11, <1>12
     DEF Next

\* The invariant holds in every state of every run, whatever the host, the
\* sticks and the image.
THEOREM PreflightInvariant == Spec => []IInv
<1>1. Init => IInv
  BY InitIInv
<1>2. IInv /\ [Next]_vars => IInv'
  BY NextIInv
<1> QED
  BY <1>1, <1>2, PTL DEF Spec

\* phase_0.rs, target_block_subtree: on any host the fixpoint over holders, loop
\* devices and their partitions is what changes when the target is written.
THEOREM SubtreesAreStacks == Spec => []SubtreeIsStack
<1>1. IInv => SubtreeIsStack
  BY SubtreeIsOnTop DEF IInv, SubtreeIsStack
<1> QED
  BY <1>1, PreflightInvariant, PTL

\* phase_0.rs, ensure_image_not_on_target: an image is refused for its place when
\* and only when the flash would destroy it.
THEOREM ImageVerdictsAreExact == Spec => []ImageVerdictIsExact
<1>1. IInv => ImageVerdictIsExact
  BY DEF IInv
<1> QED
  BY <1>1, PreflightInvariant, PTL

\* identity.rs, DeviceIdentity: what Phase 2 claims is what was looked at and what
\* the prompt showed, however often the stick is exchanged between the reads.
THEOREM ClaimedAreShown == Spec => []ClaimedIsShown
<1>1. IInv => ClaimedIsShown
  BY DEF IInv
<1> QED
  BY <1>1, PreflightInvariant, PTL

-----------------------------------------------------------------------------
(* The types of the state; what the picker shows is a list of disks. *)

\* The elements of a finite set of numbers have the ranks from 1 to their number.
LEMMA RanksAreOnto ==
  ASSUME NEW K, K \subseteq Nat, IsFiniteSet(K), NEW k \in 1 .. Cardinality(K)
  PROVE  \E i \in K : Cardinality({j \in K : j <= i}) = k
<1> DEFINE upTo(i) == {j \in K : j <= i}
           N == 1 .. Cardinality(K)
           rank == [i \in K |-> Cardinality(upTo(i))]
<1>1. Cardinality(K) \in Nat
  BY FS_CardinalityType
<1>2. ASSUME NEW i \in K
      PROVE  /\ IsFiniteSet(upTo(i)) /\ Cardinality(upTo(i)) \in N
             /\ \A j \in K : Cardinality(upTo(j)) = Cardinality(upTo(i)) => i = j
  <2>1. upTo(i) \in SUBSET K /\ i \in upTo(i)
    OBVIOUS
  <2>2. IsFiniteSet(upTo(i)) /\ Cardinality(upTo(i)) <= Cardinality(K)
    BY <2>1, FS_Subset
  <2>3. Cardinality(upTo(i)) \in Nat /\ Cardinality(upTo(i)) # 0
    BY <2>1, <2>2, FS_CardinalityType, FS_EmptySet
  <2>4. ASSUME NEW j \in K, Cardinality(upTo(j)) = Cardinality(upTo(i))
        PROVE  i = j
    <3>0. i \in Nat /\ j \in Nat /\ \A l \in K : l \in Nat
      OBVIOUS
    <3>1. upTo(j) \in SUBSET K /\ j \in upTo(j)
      OBVIOUS
    <3>2. IsFiniteSet(upTo(j))
      BY <3>1, FS_Subset
    <3>3. CASE j <= i
      <4>0. \A l \in K : l <= j => l <= i
        BY <3>0, <3>3
      <4>1. upTo(j) \in SUBSET upTo(i)
        BY <4>0
      <4>2. upTo(i) = upTo(j)
        BY <2>2, <2>4, <4>1, FS_Subset
      <4>3. i \in upTo(j)
        BY <2>1, <4>2
      <4>4. i <= j
        BY <4>3
      <4> QED
        BY <3>0, <3>3, <4>4
    <3>4. CASE i <= j
      <4>0. \A l \in K : l <= i => l <= j
        BY <3>0, <3>4
      <4>1. upTo(i) \in SUBSET upTo(j)
        BY <4>0
      <4>2. upTo(i) = upTo(j)
        BY <2>4, <3>2, <4>1, FS_Subset
      <4>3. j \in upTo(i)
        BY <3>1, <4>2
      <4>4. j <= i
        BY <4>3
      <4> QED
        BY <3>0, <3>4, <4>4
    <3> QED
      BY <3>0, <3>3, <3>4
  <2> HIDE DEF upTo
  <2>5. Cardinality(upTo(i)) \in N
    BY <1>1, <2>2, <2>3
  <2> QED
    BY <2>2, <2>4, <2>5
<1> HIDE DEF upTo
<1>3. rank \in Injection(K, N)
  BY <1>2 DEF Injection, IsInjective
<1>4. IsFiniteSet(N) /\ Cardinality(N) = Cardinality(K)
  BY <1>1, FS_Interval
<1> HIDE DEF rank, N
<1>5. rank \in Surjection(K, N)
  BY <1>3, <1>4, FS_Injection
<1>6. PICK i \in K : rank[i] = k
  BY <1>5 DEF Surjection, N
<1>7. Cardinality(upTo(i)) = k
  BY <1>6 DEF rank
<1> QED
  BY <1>7 DEF upTo

\* A filter yields elements that it keeps.
LEMMA PickedElements ==
  ASSUME NEW S, NEW s, NEW kept, kept \subseteq Nat, IsFiniteSet(kept),
         \A i \in kept : s[i] \in S
  PROVE  Picked(s, kept) \in Seq(S)
<1> DEFINE n == Cardinality(kept)
           at(k) == CHOOSE i \in kept : Cardinality({j \in kept : j <= i}) = k
<1>1. n \in Nat
  BY FS_CardinalityType
<1>2. ASSUME NEW k \in 1 .. n
      PROVE  at(k) \in kept
  <2>1. \E i \in kept : Cardinality({j \in kept : j <= i}) = k
    BY RanksAreOnto
  <2> QED
    BY <2>1, Zenon
<1>3. Picked(s, kept) = [k \in 1 .. n |-> s[at(k)]]
  BY DEF Picked
<1> HIDE DEF n, at
<1>4. [k \in 1 .. n |-> s[at(k)]] \in [1 .. n -> S]
  BY <1>2
<1> DEFINE picked == Picked(s, kept)
<1>5. picked \in [1 .. n -> S]
  BY <1>3, <1>4, Zenon
<1> HIDE DEF picked
<1>6. picked \in Seq(S)
  BY <1>1, <1>5
<1> QED
  BY <1>6 DEF picked

\* devices.rs, candidate_devices: no loop, mapper or md node is listed.
LEMMA CandidatesAreDisks ==
  ASSUME NEW with_medium
  PROVE  candidate_devices(with_medium) \in Seq(Disks)
<1>1. ASSUME NEW S, NEW T, NEW s \in Seq(T), NEW kept \in SUBSET (DOMAIN s),
             \A i \in kept : s[i] \in S
      PROVE  Picked(s, kept) \in Seq(S)
  <2>1. DOMAIN s = 1 .. Len(s) /\ Len(s) \in Nat
    OBVIOUS
  <2>2. IsFiniteSet(1 .. Len(s)) /\ kept \in SUBSET (1 .. Len(s))
    BY <2>1, FS_Interval
  <2>3. IsFiniteSet(kept) /\ kept \subseteq Nat
    BY <2>1, <2>2, FS_Subset
  <2> QED
    BY <1>1, <2>3, PickedElements
<1> DEFINE offered == {i \in DOMAIN DiskNames : IsCandidate(DiskNames[i], with_medium)}
           listed == Picked(DiskNames, offered)
<1>2. DiskNames \in Seq(Node) /\ ToSet(DiskNames) = Disks \cup Loops \cup Stacks
  BY BlockAssumption DEF BlockAssumption
<1>3. ASSUME NEW i \in offered
      PROVE  DiskNames[i] \in Disks
  <2>1. i \in DOMAIN DiskNames /\ IsCandidate(DiskNames[i], with_medium)
    OBVIOUS
  <2>2. DiskNames[i] \in ToSet(DiskNames)
    BY <2>1 DEF ToSet
  <2> QED
    BY <1>2, <2>1, <2>2 DEF IsCandidate, IsVirtual
<1>4. listed \in Seq(Disks)
  <2>1. offered \in SUBSET (DOMAIN DiskNames)
    OBVIOUS
  <2> HIDE DEF offered
  <2> QED
    BY <1>1, <1>2, <1>3, <2>1
<1>5. candidate_devices(with_medium) = order_for_display(listed)
  BY DEF candidate_devices
<1> HIDE DEF listed
<1> DEFINE first == {i \in DOMAIN listed : listed[i] \in Removable}
           last == {i \in DOMAIN listed : listed[i] \notin Removable}
<1>6. \A i \in DOMAIN listed : listed[i] \in Disks
  BY <1>4
<1>7. Picked(listed, first) \in Seq(Disks)
  <2>1. first \in SUBSET (DOMAIN listed)
    OBVIOUS
  <2> HIDE DEF first
  <2> QED
    BY <1>1, <1>4, <1>6, <2>1
<1>8. Picked(listed, last) \in Seq(Disks)
  <2>1. last \in SUBSET (DOMAIN listed)
    OBVIOUS
  <2> HIDE DEF last
  <2> QED
    BY <1>1, <1>4, <1>6, <2>1
<1>9. order_for_display(listed) = Picked(listed, first) \o Picked(listed, last)
  BY DEF order_for_display
<1> HIDE DEF first, last
<1> QED
  BY <1>5, <1>7, <1>8, <1>9

LEMMA InitMounts ==
  ASSUME Init
  PROVE  mounts \in Seq(Mount)
<1>1. PICK outer \in {<< >>} \cup Filesystem(<<"media">>),
           inner \in {<< >>} \cup Filesystem(<<"media", "x">>),
           root \in Stacks \cup UNION {partitions_of(d) : d \in Disks \ {Slot}} :
         mounts = <<[on |-> root, anon |-> FALSE, path |-> << >>]>> \o outer \o inner
  BY DEF Init
<1>2. /\ << >> \in Dirs /\ <<"media">> \in Dirs /\ <<"media", "x">> \in Dirs
  BY PreflightAssumption DEF PreflightAssumption
<1>3. ASSUME NEW p \in Dirs, NEW s \in {<< >>} \cup Filesystem(p)
      PROVE  s \in Seq(Mount)
  <2>1. CASE s = << >>
    BY <2>1
  <2>2. CASE s \in Filesystem(p)
    <3>1. CASE \E n \in Node, a \in BOOLEAN : s = <<[on |-> n, anon |-> a, path |-> p]>>
      <4>1. PICK n \in Node, a \in BOOLEAN : s = <<[on |-> n, anon |-> a, path |-> p]>>
        BY <3>1
      <4>2. [on |-> n, anon |-> a, path |-> p] \in Mount
        BY DEF Mount
      <4> QED
        BY <4>1, <4>2
    <3>2. CASE s = <<[on |-> NoNode, anon |-> TRUE, path |-> p]>>
      <4>1. [on |-> NoNode, anon |-> TRUE, path |-> p] \in Mount
        BY DEF Mount
      <4> QED
        BY <3>2, <4>1
    <3>3. \/ \E n \in Node, a \in BOOLEAN : s = <<[on |-> n, anon |-> a, path |-> p]>>
          \/ s = <<[on |-> NoNode, anon |-> TRUE, path |-> p]>>
      <4> DEFINE A == {<<[on |-> n, anon |-> a, path |-> p]>> : n \in Node, a \in BOOLEAN}
                 b == <<[on |-> NoNode, anon |-> TRUE, path |-> p]>>
      <4>1. s \in A \cup {b}
        BY <2>2 DEF Filesystem
      <4> HIDE DEF b
      <4>2. CASE s \in A
        BY <4>2
      <4>3. CASE s = b
        BY <4>3 DEF b
      <4> QED
        BY <4>1, <4>2, <4>3
    <3> QED
      BY <3>1, <3>2, <3>3
  <2> QED
    BY <2>1, <2>2
<1>4. <<[on |-> root, anon |-> FALSE, path |-> << >>]>> \in Seq(Mount)
  <2>1. root \in Node
    BY Kinds DEF partitions_of
  <2>2. [on |-> root, anon |-> FALSE, path |-> << >>] \in Mount
    BY <1>2, <2>1 DEF Mount
  <2> QED
    BY <2>2
<1>5. outer \in Seq(Mount) /\ inner \in Seq(Mount)
  BY <1>2, <1>3
<1> DEFINE first == <<[on |-> root, anon |-> FALSE, path |-> << >>]>>
<1>6. mounts = first \o outer \o inner /\ first \in Seq(Mount)
  BY <1>1, <1>4
<1> HIDE DEF first
<1> QED
  BY <1>5, <1>6

\* The types, and that no more exchanges are counted than there were.
Types == TypeOK /\ since <= replugs

LEMMA InitTypes ==
  ASSUME Init
  PROVE  Types
<1>1. links \subseteq Node \X Stacks
  <2>1. links \subseteq (Node \ Stacks) \X Stacks
    BY DEF Init
  <2> QED
    BY <2>1
<1>2. /\ backing \in [Loops -> File \cup {NoFile}] /\ image \in File
      /\ plug \in Units /\ rdev \in {0, 1} /\ replugs = 0
  BY PreflightAssumption DEF PreflightAssumption, Init
<1>3. /\ pc \in Steps /\ menu \in Seq(Disks) /\ target \in Node \cup {NoNode}
      /\ raw \in Values /\ size \in Values
      /\ id \in DeviceIdentity \cup {Unset} /\ shown \in Summary \cup {Unset}
  BY DEF Init, Steps, Values
<1>4. /\ since = 0 /\ result \in {"running", "claimed"} \cup Steps
      /\ seen \in {NoNode} \cup Units \cup {Fixed[n] : n \in DOMAIN Fixed}
  BY DEF Init
<1>5. MaxReplugs \in Nat
  BY PreflightAssumption DEF PreflightAssumption
<1> QED
  BY <1>1, <1>2, <1>3, <1>4, <1>5, InitMounts DEF Types, TypeOK

\* A step that leaves the host, the sticks and what was seen of them as they are.
LEMMA PlainTypes ==
  ASSUME Types, UNCHANGED <<hostVars, stickVars, since, seen>>,
         pc' \in Steps, result' \in {"running", "claimed"} \cup Steps,
         menu' \in Seq(Disks), target' \in Node \cup {NoNode},
         raw' \in Values, size' \in Values, id' \in DeviceIdentity \cup {Unset},
         shown' \in Summary \cup {Unset}
  PROVE  Types'
<1>1. /\ UNCHANGED <<links, mounts, backing, image, plug, rdev, replugs, since, seen>>
  BY DEF hostVars, stackVars, stickVars
<1> QED
  BY <1>1 DEF Types, TypeOK

\* A check goes to one of two steps.
LEMMA CheckTypes ==
  ASSUME Types, NEW step \in Steps, NEW STATE holds, NEW next \in Steps,
         Check(step, holds, next)
  PROVE  Types'
<1>1. /\ UNCHANGED <<hostVars, stickVars, runVars, since, seen>>
      /\ IF holds THEN pc' = next /\ result' = result ELSE pc' = "done" /\ result' = step
  BY CheckEffect
<1>2. UNCHANGED <<menu, target, raw, size, id, shown>>
  BY <1>1 DEF runVars, Target
<1>3. pc' \in Steps /\ result' \in {"running", "claimed"} \cup Steps
  BY <1>1 DEF Types, TypeOK, Steps
<1> QED
  BY <1>1, <1>2, <1>3, PlainTypes DEF Types, TypeOK

\* So does a refusal or a claim.
LEMMA StopTypes ==
  ASSUME Types, NEW r \in {"claimed"} \cup Steps, Stop(r)
  PROVE  Types'
<1>1. /\ UNCHANGED <<hostVars, stickVars, since, seen>>
      /\ UNCHANGED <<menu, target, raw, size, id, shown>>
      /\ pc' = "done" /\ result' = r
  BY DEF Stop, runVars, Target
<1>2. pc' \in Steps /\ result' \in {"running", "claimed"} \cup Steps
  BY <1>1 DEF Steps
<1> QED
  BY <1>1, <1>2, PlainTypes DEF Types, TypeOK

LEMMA NextTypes ==
  ASSUME IInv, Types, [Next]_vars
  PROVE  Types'
<1>0. /\ pc \in Steps /\ result \in {"running", "claimed"} \cup Steps
      /\ menu \in Seq(Disks) /\ target \in Node \cup {NoNode}
      /\ raw \in Values /\ size \in Values
      /\ id \in DeviceIdentity \cup {Unset} /\ shown \in Summary \cup {Unset}
  BY DEF Types, TypeOK
<1>1. CASE ExplicitDevice
  <2>1. /\ UNCHANGED <<hostVars, stickVars, since, seen>>
        /\ UNCHANGED <<menu, raw, size, id, shown, result>>
        /\ target' \in Node /\ pc' = "cooldown"
    BY <1>1 DEF ExplicitDevice, GoTo
  <2> QED
    BY <1>0, <2>1, PlainTypes DEF Steps
<1>2. CASE ListCandidates
  <2>1. /\ UNCHANGED <<hostVars, stickVars, since, seen>>
        /\ UNCHANGED <<target, raw, size, id, shown, result>>
        /\ menu' = candidate_devices(WithMedium) /\ pc' = "menu"
    BY <1>2 DEF ListCandidates, GoTo
  <2>2. menu' \in Seq(Disks)
    BY <2>1, CandidatesAreDisks
  <2> QED
    BY <1>0, <2>1, <2>2, PlainTypes DEF Steps
<1>3. CASE Select
  <2>1. PICK i \in DOMAIN menu : target' = menu[i]
    BY <1>3 DEF Select
  <2>2. /\ UNCHANGED <<hostVars, stickVars, since, seen>>
        /\ UNCHANGED <<menu, raw, size, id, shown, result>> /\ pc' = "cooldown"
    BY <1>3 DEF Select, GoTo
  <2>3. target' \in Node
    BY <1>0, <2>1, Kinds
  <2> QED
    BY <1>0, <2>2, <2>3, PlainTypes DEF Steps
<1>4. CASE NoSelection
  BY <1>4, StopTypes DEF NoSelection, Steps
<1>5. CASE ValidateCooldown
  BY <1>5, CheckTypes DEF ValidateCooldown, Steps
<1>6. CASE RootCheck
  BY <1>6, CheckTypes DEF RootCheck, Steps
<1>7. CASE CheckPaths
  BY <1>7, CheckTypes DEF CheckPaths, Steps
<1>8. CASE EnsureWholeDisk
  BY <1>8, CheckTypes DEF EnsureWholeDisk, Steps
<1>9. CASE EnsureImageNotOnTarget
  BY <1>9, CheckTypes DEF EnsureImageNotOnTarget, Steps
<1>10. CASE ConfirmDestruction
  BY <1>10, CheckTypes DEF ConfirmDestruction, Steps
<1>11. CASE DetectCompression
  <2>1. CASE Stop("format")
    BY <2>1, StopTypes DEF Steps
  <2>2. CASE ~Stop("format")
    <3>1. /\ raw' \in {Unset} \cup ImageSizes
          /\ GoTo("geometry") /\ UNCHANGED <<menu, target, size, id, shown>>
      BY <1>11, <2>2 DEF DetectCompression
    <3>2. UNCHANGED <<hostVars, stickVars, since, seen, result>> /\ pc' = "geometry"
      BY <3>1 DEF GoTo
    <3>3. raw' \in Values
      BY <3>1 DEF Values
    <3> QED
      BY <1>0, <3>1, <3>2, <3>3, PlainTypes DEF Steps
  <2> QED
    BY <2>1, <2>2
<1>12. CASE QueryGeometry
  <2>1. CASE Stop("geometry")
    BY <2>1, StopTypes DEF Steps
  <2>2. CASE ~Stop("geometry")
    <3>1. PICK dev \in query_dev_geometry_readonly :
            /\ size' = dev.size
            /\ GoTo("capture") /\ UNCHANGED <<menu, target, raw, id, shown>>
      BY <1>12, <2>2 DEF QueryGeometry
    <3>2. /\ UNCHANGED <<hostVars, stickVars, since, seen, result>> /\ pc' = "capture"
          /\ size' = Device(target).size
      BY <3>1 DEF GoTo, query_dev_geometry_readonly
    <3>3. target \in Node
      BY <1>12, Kinds DEF IInv, WholeDisk, PastWholeDisk, QueryGeometry
    <3>4. size' \in Values
      BY <3>2, <3>3, DeviceSays DEF IInv
    <3> QED
      BY <1>0, <3>1, <3>2, <3>4, PlainTypes DEF Steps
  <2> QED
    BY <2>1, <2>2
<1>13. CASE Capture
  <2>1. target \in Node
    BY <1>13, Kinds DEF IInv, WholeDisk, PastWholeDisk, Capture
  <2>2. /\ DeviceNumber(target) \in {0, 1, 2} /\ Device(target) \in Attributes
    BY <2>1, DeviceSays DEF IInv
  <2>3. id' \in DeviceIdentity
    BY <1>0, <1>13, <2>2 DEF Capture, DeviceIdentity, Attributes
  <2>4. seen' \in Units \cup {Fixed[n] : n \in DOMAIN Fixed}
    <3>1. Fixed \in [Node \ {Slot} -> Attributes]
      BY PreflightAssumption DEF PreflightAssumption
    <3> QED
      BY <1>13, <2>1, <3>1 DEF Capture, Device, IInv, Plugged
  <2>5. /\ UNCHANGED <<links, mounts, backing, image, plug, rdev, replugs>>
        /\ UNCHANGED <<menu, target, raw, size, shown, result>>
        /\ since' = 0 /\ pc' = "model"
    BY <1>13 DEF Capture, hostVars, stackVars, stickVars
  <2>6. MaxReplugs \in Nat /\ replugs \in 0 .. MaxReplugs
    BY PreflightAssumption DEF PreflightAssumption, Types, TypeOK
  <2>7. since' \in 0 .. MaxReplugs /\ since' <= replugs' /\ pc' \in Steps
    BY <2>5, <2>6 DEF Steps
  <2> QED
    BY <2>3, <2>4, <2>5, <2>7 DEF Types, TypeOK
<1>14. CASE Summarise
  <2>1. target \in Node
    BY <1>14, Kinds DEF IInv, WholeDisk, PastWholeDisk, Summarise
  <2>2. Device(target) \in Attributes
    BY <2>1, DeviceSays DEF IInv
  <2>3. shown' \in Summary
    BY <1>0, <1>14, <2>2 DEF Summarise, Summary, Attributes
  <2>4. /\ UNCHANGED <<hostVars, stickVars, since, seen>>
        /\ UNCHANGED <<menu, target, raw, size, id, result>> /\ pc' = "confirm"
    BY <1>14 DEF Summarise, GoTo
  <2> QED
    BY <1>0, <2>3, <2>4, PlainTypes DEF Steps
<1>15. CASE VerifyClaimed
  <2>1. Stop("claimed") \/ Stop("claim")
    BY <1>15 DEF VerifyClaimed
  <2> QED
    BY <2>1, StopTypes DEF Steps
<1>16. CASE Replug
  <2>1. /\ plug' \in Units /\ rdev' \in {0, 1} /\ replugs' = replugs + 1
        /\ since' \in {0, since + 1} /\ replugs < MaxReplugs
    BY <1>16 DEF Replug
  <2>2. /\ UNCHANGED <<links, mounts, backing, image>>
        /\ UNCHANGED <<pc, menu, target, raw, size, id, shown, seen, result>>
    BY <1>16 DEF Replug, hostVars, stackVars, runVars, Target
  <2>3. MaxReplugs \in Nat /\ replugs \in 0 .. MaxReplugs /\ since \in 0 .. MaxReplugs
          /\ since <= replugs
    BY PreflightAssumption DEF PreflightAssumption, Types, TypeOK
  <2>4. replugs' \in 0 .. MaxReplugs /\ since' \in 0 .. MaxReplugs /\ since' <= replugs'
    BY <2>1, <2>3
  <2> QED
    BY <2>1, <2>2, <2>4 DEF Types, TypeOK
<1>17. CASE Terminated \/ UNCHANGED vars
  <2>1. UNCHANGED vars
    BY <1>17 DEF Terminated
  <2>2. /\ UNCHANGED <<hostVars, stickVars, since, seen>>
        /\ UNCHANGED <<pc, result, menu, target, raw, size, id, shown>>
    BY <2>1 DEF vars, runVars, Target
  <2> QED
    BY <1>0, <2>2, PlainTypes
<1> QED
  BY <1>1, <1>2, <1>3, <1>4, <1>5, <1>6, <1>7, <1>8, <1>9, <1>10, <1>11, <1>12, <1>13,
     <1>14, <1>15, <1>16, <1>17 DEF Next

\* Every variable has its type; the menu lists disks, the target is a block
\* device, and the identity and the prompt are made of what devices say.
THEOREM PreflightTypes == Spec => []TypeOK
<1>1. Init => IInv /\ Types
  BY InitIInv, InitTypes
<1>2. IInv /\ Types /\ [Next]_vars => (IInv /\ Types)'
  BY NextIInv, NextTypes
<1>3. Types => TypeOK
  BY DEF Types
<1> QED
  BY <1>1, <1>2, <1>3, PTL DEF Spec

=============================================================================
