---------------------------- MODULE GCHeapProofs ----------------------------
(***************************************************************************)
(* The collector frees what cannot be reached and nothing else, for every  *)
(* set of addresses, every kind of object and every threshold, as long as  *)
(* no collection starts inside another or meets an object only a running   *)
(* constructor holds.                                                      *)
(***************************************************************************)
EXTENDS GCHeap, SequenceTheorems, FiniteSetTheorems, TLAPS

(* Reachability as a function of the roots and the pointers, so that facts *)
(* about it hold before and after a step.                                  *)
ClosedSet(R, f, S) == R \subseteq S /\ \A o \in S : f[o] \subseteq S
ReachSet(R, f) == {o \in Ref : \A S \in SUBSET Ref : ClosedSet(R, f, S) => o \in S}

(* The list has no cycle and holds no object twice.                        *)
ListIsSimple == \A i, j \in 1 .. Len(list) : list[i] = list[j] => i = j

Linkage ==
    /\ ListIsSimple
    /\ \A o \in Linked : kind[o] \in Kind

Activations ==
    \A n \in 1 .. Len(runs) : runs[n].dead # NULL => runs[n].frees > 0

Building ==
    /\ (call # NoCall /\ call.built = <<>>) => call.step = 1
    /\ call # NoCall => local = NULL

(* Outside a collection the heap is closed: no pointer leaves it.          *)
Quiet ==
    /\ marked = {}
    /\ ClosedSet(RootSet, refs, Linked)
    /\ Held \subseteq Linked
    /\ local \in Linked \cup {NULL}

(* During one, the objects the sweep has passed are reachable and          *)
(* unmarked, and a mark tells whether the ones ahead are.                  *)
Sweep(at) ==
    /\ at \in 0 .. Len(list)
    /\ Reachable \subseteq Linked
    /\ marked \subseteq Reachable
    /\ \A i \in 1 .. Len(list) :
          IF i <= at THEN list[i] \in Reachable \ marked
                     ELSE list[i] \in marked <=> list[i] \in Reachable
    /\ Held \subseteq Reachable
    /\ local = NULL

Safe ==
    ~tainted =>
        /\ ~fault
        /\ Len(runs) <= 1
        /\ ~Running => Quiet
        /\ Running => Sweep(Top.at)

HeapInv == ShapeOK /\ Linkage /\ Activations /\ Building /\ Safe
-----------------------------------------------------------------------------
(* The reachable objects are a closed set, and the least one.              *)
LEMMA ReachIsClosed ==
    ASSUME NEW R \in SUBSET Ref, NEW f \in [Ref -> SUBSET Ref]
    PROVE  ReachSet(R, f) \subseteq Ref /\ ClosedSet(R, f, ReachSet(R, f))
BY DEF ReachSet, ClosedSet

LEMMA ReachIsLeast ==
    ASSUME NEW R \in SUBSET Ref, NEW f \in [Ref -> SUBSET Ref],
           NEW S \in SUBSET Ref, ClosedSet(R, f, S)
    PROVE  ReachSet(R, f) \subseteq S
BY DEF ReachSet

(* Clearing the pointers of an unreachable object changes nothing.         *)
LEMMA ReachWithoutGarbage ==
    ASSUME NEW R \in SUBSET Ref, NEW f \in [Ref -> SUBSET Ref],
           NEW o \in Ref, o \notin ReachSet(R, f)
    PROVE  ReachSet(R, [f EXCEPT ![o] = {}]) = ReachSet(R, f)
<1>. DEFINE g == [f EXCEPT ![o] = {}]
            A == ReachSet(R, f)
            B == ReachSet(R, g)
<1>1. A \subseteq Ref /\ ClosedSet(R, f, A)
  BY ReachIsClosed
<1>2. g \in [Ref -> SUBSET Ref] /\ g[o] = {} /\ \A p \in Ref \ {o} : g[p] = f[p]
  OBVIOUS
<1>3. B \subseteq Ref /\ ClosedSet(R, g, B)
  BY <1>2, ReachIsClosed
<1>. HIDE DEF A, B, g
<1>4. ClosedSet(R, g, A)
  BY <1>1, <1>2 DEF ClosedSet, A
<1>5. B \subseteq A
  BY <1>1, <1>2, <1>4, ReachIsLeast DEF B
<1>6. ClosedSet(R, f, B)
  <2>1. o \notin B
    BY <1>5 DEF A
  <2>. QED
    BY <1>2, <1>3, <2>1 DEF ClosedSet
<1>7. A \subseteq B
  BY <1>3, <1>6, ReachIsLeast DEF A
<1>. QED
  BY <1>5, <1>7 DEF A, B, g

(* Removing an element from a sequence.                                    *)
LEMMA RemoveAtFacts ==
    ASSUME NEW s \in Seq(Ref), NEW i \in 1 .. Len(s)
    PROVE  /\ RemoveAt(s, i) \in Seq(Ref)
           /\ Len(RemoveAt(s, i)) = Len(s) - 1
           /\ \A j \in 1 .. Len(s) - 1 :
                 RemoveAt(s, i)[j] = IF j < i THEN s[j] ELSE s[j + 1]
<1>. DEFINE a == SubSeq(s, 1, i - 1)
            b == SubSeq(s, i + 1, Len(s))
<1>0. Len(s) \in Nat /\ i \in Nat /\ i >= 1 /\ i <= Len(s)
  OBVIOUS
<1>1. a \in Seq(Ref) /\ Len(a) = i - 1 /\ \A j \in 1 .. i - 1 : a[j] = s[j]
  <2>1. \A j \in 1 .. i - 1 : s[j] \in Ref
    BY <1>0, ElementOfSeq
  <2>. QED
    BY <1>0, <2>1, SubSeqProperties
<1>2. b \in Seq(Ref) /\ Len(b) = Len(s) - i /\ \A j \in 1 .. Len(s) - i : b[j] = s[j + i]
  <2>1. \A j \in i + 1 .. Len(s) : s[j] \in Ref
    BY <1>0, ElementOfSeq
  <2>. QED
    BY <1>0, <2>1, SubSeqProperties
<1>3. RemoveAt(s, i) = a \o b
  BY DEF RemoveAt
<1>. HIDE DEF a, b
<1>4. /\ a \o b \in Seq(Ref)
      /\ Len(a \o b) = Len(a) + Len(b)
      /\ \A j \in 1 .. Len(a) + Len(b) :
            (a \o b)[j] = IF j <= Len(a) THEN a[j] ELSE b[j - Len(a)]
  BY <1>1, <1>2, ConcatProperties
<1>5. Len(a) + Len(b) = Len(s) - 1
  BY <1>0, <1>1, <1>2
<1>6. ASSUME NEW j \in 1 .. Len(s) - 1
      PROVE  (a \o b)[j] = IF j < i THEN s[j] ELSE s[j + 1]
  <2>1. CASE j < i
    BY <1>0, <1>1, <1>4, <1>5, <2>1
  <2>2. CASE ~(j < i)
    <3>1. j - (i - 1) \in 1 .. Len(s) - i /\ (j - (i - 1)) + i = j + 1
      BY <1>0, <2>2
    <3>2. b[j - (i - 1)] = s[j + 1]
      BY <1>2, <3>1
    <3>3. (a \o b)[j] = b[j - (i - 1)]
      BY <1>0, <1>1, <1>4, <1>5, <2>2
    <3>. QED
      BY <2>2, <3>2, <3>3
  <2>. QED
    BY <2>1, <2>2
<1>. QED
  BY <1>3, <1>4, <1>5, <1>6
-----------------------------------------------------------------------------
LEMMA Subsets ==
    ASSUME ShapeOK
    PROVE  RootSet \subseteq Ref /\ Linked \subseteq Ref /\ Held \subseteq Ref
<1>1. \A i \in 1 .. Len(list) : list[i] \in Ref
  BY ElementOfSeq DEF ShapeOK
<1>2. \A i \in 1 .. Len(gcStack) : gcStack[i] \in Ref
  BY ElementOfSeq DEF ShapeOK
<1>3. call # NoCall =>
        /\ call.arg \in Ref \cup {NULL}
        /\ \A i \in 1 .. Len(call.built) : call.built[i] \in Ref
  <2>1. SUFFICES ASSUME call # NoCall
                 PROVE  /\ call.arg \in Ref \cup {NULL}
                        /\ \A i \in 1 .. Len(call.built) : call.built[i] \in Ref
    OBVIOUS
  <2>2. call.arg \in Ref \cup {NULL} /\ call.built \in Seq(Ref)
    BY <2>1 DEF ShapeOK
  <2>. QED
    BY <2>2, ElementOfSeq
<1>. QED
  BY <1>1, <1>2, <1>3 DEF RootSet, Linked, Held, Retained, ShapeOK

LEMMA ReachableIsReachSet == Reachable = ReachSet(RootSet, refs)
BY DEF Reachable, Reach, Closed, ReachSet, ClosedSet

(* The mark phase of a collection that starts outside any other, with      *)
(* nothing held but what can be reached.                                   *)
LEMMA MarkPhase ==
    ASSUME HeapInv, runs = <<>>, StartRun(<<>>),
           UNCHANGED <<heapVars, vmVars>>, Held' = Held, local' = NULL
    PROVE  /\ marked' \subseteq Ref
           /\ runs' \in Seq(Activation)
           /\ fault' \in BOOLEAN /\ tainted' \in BOOLEAN
           /\ Activations'
           /\ Safe'
<1>. DEFINE act == [at |-> 0, dead |-> NULL, frees |-> 0]
<1>0. /\ marked' = marked \cup Reach(marked)
      /\ runs' = Append(<<>>, act)
      /\ fault' = ~(Reach(marked) \subseteq Linked)
      /\ tainted' = (tainted \/ ~(Held \subseteq Reachable))
  BY Zenon DEF StartRun
<1>1. act \in Activation
  BY DEF Activation
<1>2. runs' = <<act>> /\ runs' \in Seq(Activation) /\ Len(runs') = 1
      /\ runs'[1] = act /\ runs' # <<>>
  BY <1>0, <1>1
<1>3. Reach(marked) \subseteq Ref
  BY DEF Reach
<1>4. Activations'
  <2>1. \A n \in 1 .. Len(runs') : runs'[n].dead = NULL
    BY <1>2
  <2>. QED
    BY <2>1 DEF Activations
<1>5. Safe'
  <2>. SUFFICES ASSUME ~tainted' PROVE Safe'
    BY DEF Safe
  <2>1. ~tainted /\ Held \subseteq Reachable
    BY <1>0
  <2>2. Quiet
    BY <2>1 DEF HeapInv, Safe, Running
  <2>3. Reach(marked) = Reachable
    BY <2>2 DEF Quiet, Reachable
  <2>4. Reachable \subseteq Linked
    BY <2>2, Subsets, ReachableIsReachSet, ReachIsLeast DEF Quiet, HeapInv, ShapeOK
  <2>5. Linked' = Linked /\ Reachable' = Reachable /\ Len(list') = Len(list) /\ list' = list
    BY DEF Linked, Reachable, Reach, Closed, RootSet, Retained, heapVars, vmVars
  <2>6. marked' = Reachable
    BY <1>0, <2>2, <2>3 DEF Quiet
  <2>7. Top'.at = 0
    BY <1>2 DEF Top
  <2>8. Len(list) \in Nat
    BY DEF HeapInv, ShapeOK
  <2>9. Sweep(0)'
    <3>1. \A i \in 1 .. Len(list) : ~(i <= 0)
      BY <2>8
    <3>. QED
      BY <2>1, <2>4, <2>5, <2>6, <2>8, <3>1 DEF Sweep
  <2>10. ~fault'
    BY <1>0, <2>3, <2>4
  <2>. QED
    BY <1>2, <2>7, <2>9, <2>10 DEF Safe, Running
<1>. QED
  BY <1>0, <1>2, <1>3, <1>4, <1>5 DEF HeapInv, ShapeOK
-----------------------------------------------------------------------------
(* Replacing the innermost activation.                                     *)
LEMMA SetLast ==
    ASSUME NEW r \in Seq(Activation), Len(r) >= 1, NEW a \in Activation
    PROVE  /\ [r EXCEPT ![Len(r)] = a] \in Seq(Activation)
           /\ Len([r EXCEPT ![Len(r)] = a]) = Len(r)
           /\ \A j \in 1 .. Len(r) :
                 [r EXCEPT ![Len(r)] = a][j] = IF j = Len(r) THEN a ELSE r[j]
<1>1. Len(r) \in 1 .. Len(r)
  OBVIOUS
<1>. QED
  BY <1>1, ExceptSeq

LEMMA Deallocated ==
    ASSUME NEW a \in Activation, a.frees > 0
    PROVE  LET b == [a EXCEPT !.frees = @ - 1, !.dead = IF a.frees = 1 THEN NULL ELSE @]
           IN  b \in Activation /\ b.at = a.at /\ (b.dead # NULL => b.frees > 0)
<1>. DEFINE b == [a EXCEPT !.frees = @ - 1, !.dead = IF a.frees = 1 THEN NULL ELSE @]
<1>. DEFINE d == IF a.frees = 1 THEN NULL ELSE a.dead
<1>1. a.frees \in Nat /\ a.frees - 1 \in Nat /\ d \in Ref \cup {NULL}
  BY DEF Activation
<1>2. b \in Activation
  <2>1. b = [a EXCEPT !.frees = a.frees - 1, !.dead = d]
    BY DEF Activation
  <2>2. \A x \in Nat, y \in Ref \cup {NULL} :
           [a EXCEPT !.frees = x, !.dead = y] \in Activation
    BY DEF Activation
  <2>. HIDE DEF b, d
  <2>. QED
    BY <1>1, <2>1, <2>2, Zenon
<1>3. b.at = a.at
  BY DEF Activation
<1>4. b.frees = a.frees - 1 /\ b.dead = IF a.frees = 1 THEN NULL ELSE a.dead
  BY DEF Activation
<1>. QED
  BY <1>1, <1>2, <1>3, <1>4

LEMMA FrontFacts ==
    ASSUME NEW S, NEW r \in Seq(S), Len(r) >= 1
    PROVE  /\ Front(r) \in Seq(S)
           /\ Len(Front(r)) = Len(r) - 1
           /\ \A j \in 1 .. Len(r) - 1 : Front(r)[j] = r[j]
<1>1. Len(r) \in Nat /\ \A j \in 1 .. Len(r) - 1 : r[j] \in S
  BY ElementOfSeq
<1>. DEFINE n == Len(r) - 1
            f == SubSeq(r, 1, n)
<1>2. n \in Nat /\ Front(r) = f
  BY <1>1 DEF Front
<1>3. /\ f \in Seq(S)
      /\ Len(f) = IF 1 <= n THEN n - 1 + 1 ELSE 0
      /\ \A i \in 1 .. n - 1 + 1 : f[i] = r[1 + i - 1]
  BY <1>1, <1>2, SubSeqProperties
<1>. HIDE DEF f, n
<1>4. Len(f) = n /\ \A i \in 1 .. n : f[i] = r[i]
  BY <1>2, <1>3
<1>5. Front(r) \in Seq(S) /\ Len(Front(r)) = n /\ \A i \in 1 .. n : Front(r)[i] = r[i]
  BY <1>2, <1>3, <1>4, Zenon
<1>. QED
  BY <1>5 DEF n

LEMMA OneActivation == \A n \in Nat : n >= 1 /\ n <= 1 => n = 1
OBVIOUS

(* The step of a sweep that leaves the lists and pointers alone.           *)
LEMMA SweepKeepInv ==
    ASSUME HeapInv, SweepKeep
    PROVE  HeapInv'
<1>1. /\ Running
      /\ list' = list /\ kind' = kind /\ refs' = refs /\ root' = root
      /\ gcStack' = gcStack /\ call' = call /\ local' = local
      /\ fault' = fault /\ tainted' = tainted
      /\ Target \in marked /\ marked' = marked \ {Target}
      /\ runs' = [runs EXCEPT ![Len(runs)] = [Top EXCEPT !.at = @ + 1]]
      /\ Top.dead = NULL /\ Top.at # -1 /\ Top.at < Len(list)
  BY DEF SweepKeep, Sweeping, SetTop, heapVars, vmVars
<1>2. Len(runs) \in Nat /\ Len(runs) >= 1 /\ Len(list) \in Nat
  BY <1>1 DEF HeapInv, ShapeOK, Running
<1>3. Top \in Activation /\ Top.at \in Nat
  <2>1. Top \in Activation
    BY <1>2, ElementOfSeq DEF HeapInv, ShapeOK, Top
  <2>. QED
    BY <1>1, <2>1 DEF Activation
<1>4. [Top EXCEPT !.at = @ + 1] \in Activation
  BY <1>3 DEF Activation
<1>5. /\ runs' \in Seq(Activation)
      /\ Len(runs') = Len(runs)
      /\ \A j \in 1 .. Len(runs) :
            runs'[j] = IF j = Len(runs) THEN [Top EXCEPT !.at = @ + 1] ELSE runs[j]
  <2>. DEFINE a == [Top EXCEPT !.at = @ + 1]
  <2>1. runs \in Seq(Activation) /\ a \in Activation /\ runs' = [runs EXCEPT ![Len(runs)] = a]
    BY <1>1, <1>4 DEF HeapInv, ShapeOK
  <2>. HIDE DEF a
  <2>2. /\ runs' \in Seq(Activation)
        /\ Len(runs') = Len(runs)
        /\ \A j \in 1 .. Len(runs) : runs'[j] = IF j = Len(runs) THEN a ELSE runs[j]
    BY <1>2, <2>1, SetLast
  <2>. QED
    BY <2>2 DEF a
<1>6. ShapeOK'
  BY <1>1, <1>5 DEF HeapInv, ShapeOK
<1>7. Linkage'
  BY <1>1 DEF HeapInv, Linkage, ListIsSimple, Linked
<1>8. Activations'
  <2>1. ASSUME NEW n \in 1 .. Len(runs'), runs'[n].dead # NULL
        PROVE  runs'[n].frees > 0
    <3>1. CASE n = Len(runs)
      BY <1>1, <1>3, <1>5, <2>1, <3>1 DEF Activation
    <3>2. CASE n # Len(runs)
      BY <1>5, <2>1, <3>2 DEF HeapInv, Activations
    <3>. QED
      BY <3>1, <3>2
  <2>. QED
    BY <2>1 DEF Activations
<1>9. Building'
  BY <1>1 DEF HeapInv, Building
<1>10. Safe'
  <2>. SUFFICES ASSUME ~tainted' PROVE Safe'
    BY DEF Safe
  <2>0. ~tainted /\ ~fault /\ Len(runs) <= 1 /\ Sweep(Top.at)
    BY <1>1, Zenon DEF HeapInv, Safe
  <2>1. ~fault /\ Len(runs) = 1 /\ Sweep(Top.at)
    BY <1>2, <2>0
  <2>2. Linked' = Linked /\ Reachable' = Reachable /\ Held' = Held
    BY <1>1 DEF Linked, Reachable, Reach, Closed, RootSet, Retained, Held
  <2>3. Top' = [Top EXCEPT !.at = @ + 1] /\ Top'.at = Top.at + 1
    BY <1>3, <1>5, <2>1 DEF Top, Activation
  <2>4. Target = list[Top.at + 1] /\ Top.at + 1 \in 1 .. Len(list)
    BY <1>1, <1>2, <1>3 DEF Target
  <2>5. Sweep(Top.at)'
    <3>1. Top.at + 1 \in 0 .. Len(list)
      BY <2>4
    <3>2. ASSUME NEW i \in 1 .. Len(list), i <= Top.at + 1
          PROVE  list[i] \in Reachable \ marked'
      <4>1. CASE i <= Top.at
        BY <1>1, <2>1, <4>1 DEF Sweep
      <4>2. CASE i = Top.at + 1
        BY <1>1, <2>1, <2>4, <4>2 DEF Sweep
      <4>. QED
        BY <1>3, <3>2, <4>1, <4>2
    <3>3. ASSUME NEW i \in 1 .. Len(list), ~(i <= Top.at + 1)
          PROVE  list[i] \in marked' <=> list[i] \in Reachable
      <4>1. ~(i <= Top.at) /\ i # Top.at + 1
        BY <1>3, <3>3
      <4>2. list[i] # Target
        BY <2>4, <4>1 DEF HeapInv, Linkage, ListIsSimple
      <4>. QED
        BY <1>1, <2>1, <4>1, <4>2 DEF Sweep
    <3>4. marked' \subseteq Reachable
      BY <1>1, <2>1 DEF Sweep
    <3>5. local' = NULL /\ Held' \subseteq Reachable /\ Reachable \subseteq Linked
      BY <1>1, <2>1, <2>2 DEF Sweep
    <3>. QED
      BY <1>1, <2>2, <2>3, <3>1, <3>2, <3>3, <3>4, <3>5 DEF Sweep
  <2>6. Running' /\ Len(runs') = 1 /\ ~fault'
    BY <1>1, <1>5, <2>1 DEF Running
  <2>. QED
    BY <2>3, <2>5, <2>6 DEF Safe
<1>. QED
  BY <1>6, <1>7, <1>8, <1>9, <1>10 DEF HeapInv

(* The step of a sweep that unlinks an object, one nothing can reach.      *)
LEMMA SweepUnlinkInv ==
    ASSUME HeapInv, SweepUnlink
    PROVE  /\ HeapInv'
           /\ Linked' = Linked \ {Target}
           /\ ~tainted => Target \notin Reachable /\ Reachable' = Reachable
<1>. DEFINE top == [Top EXCEPT !.dead = Target, !.frees = Frees[kind[Target]]]
            below(n) == [runs[n] EXCEPT !.at = Shifted(@, Top.at + 1)]
<1>1. /\ Running
      /\ list' = RemoveAt(list, Top.at + 1)
      /\ kind' = [kind EXCEPT ![Target] = NULL]
      /\ refs' = [refs EXCEPT ![Target] = {}]
      /\ root' = root /\ gcStack' = gcStack /\ call' = call /\ local' = local
      /\ fault' = fault /\ tainted' = tainted /\ marked' = marked
      /\ runs' = [n \in 1 .. Len(runs) |-> IF n = Len(runs) THEN top ELSE below(n)]
      /\ Target \notin marked
      /\ Top.at # -1 /\ Top.at < Len(list) /\ ~fault
  BY DEF SweepUnlink, Sweeping, vmVars
<1>2. Len(runs) \in Nat /\ Len(runs) >= 1 /\ Len(list) \in Nat
  BY <1>1 DEF HeapInv, ShapeOK, Running
<1>3. \A n \in 1 .. Len(runs) : runs[n] \in Activation
  BY ElementOfSeq DEF HeapInv, ShapeOK
<1>4. Top \in Activation /\ Top.at \in Nat
  <2>1. Top \in Activation
    BY <1>2, <1>3 DEF Top
  <2>. QED
    BY <1>1, <2>1 DEF Activation
<1>5. /\ Top.at + 1 \in 1 .. Len(list)
      /\ Target = list[Top.at + 1] /\ Target \in Ref /\ Target \in Linked
      /\ kind[Target] \in Kind /\ Frees[kind[Target]] \in Nat \ {0}
  <2>1. Top.at + 1 \in 1 .. Len(list)
    BY <1>1, <1>2, <1>4
  <2>2. Target = list[Top.at + 1] /\ Target \in Ref /\ Target \in Linked
    BY <2>1, ElementOfSeq DEF Target, Linked, HeapInv, ShapeOK
  <2>. QED
    BY <2>1, <2>2, HeapConstants DEF HeapInv, Linkage
<1>6. /\ list' \in Seq(Ref)
      /\ Len(list') = Len(list) - 1
      /\ \A j \in 1 .. Len(list) - 1 :
            list'[j] = IF j < Top.at + 1 THEN list[j] ELSE list[j + 1]
  BY <1>1, <1>5, RemoveAtFacts DEF HeapInv, ShapeOK
<1>7. top \in Activation /\ top.at = Top.at /\ top.frees > 0
  <2>. DEFINE f == Frees[kind[Target]]
  <2>1. f \in Nat \ {0} /\ f > 0
    BY <1>5
  <2>. HIDE DEF f
  <2>2. [Top EXCEPT !.dead = Target, !.frees = f] \in Activation
    BY <1>4, <1>5, <2>1 DEF Activation
  <2>3. [Top EXCEPT !.dead = Target, !.frees = f].at = Top.at
    BY <1>4 DEF Activation
  <2>4. [Top EXCEPT !.dead = Target, !.frees = f].frees = f
    BY <1>4 DEF Activation
  <2>. QED
    BY <2>1, <2>2, <2>3, <2>4 DEF f
<1>8. \A n \in 1 .. Len(runs) : below(n) \in Activation /\ below(n).dead = runs[n].dead
                           /\ below(n).frees = runs[n].frees
  BY <1>3, <1>4 DEF Activation, Shifted
<1>9. /\ runs' \in Seq(Activation) /\ Len(runs') = Len(runs)
      /\ \A n \in 1 .. Len(runs) : runs'[n] = IF n = Len(runs) THEN top ELSE below(n)
  <2>. HIDE DEF top, below
  <2>. QED
    BY <1>1, <1>2, <1>7, <1>8
<1>. HIDE DEF top, below
<1>10. kind' \in [Ref -> Kind \cup {NULL}] /\ refs' \in [Ref -> SUBSET Ref]
  BY <1>1 DEF HeapInv, ShapeOK
<1>11. ShapeOK'
  BY <1>1, <1>6, <1>9, <1>10 DEF HeapInv, ShapeOK
<1>12. \A i \in 1 .. Len(list) : list[i] = Target => i = Top.at + 1
  BY <1>5 DEF HeapInv, Linkage, ListIsSimple
<1>13. Linked' = Linked \ {Target}
  <2>1. ASSUME NEW j \in 1 .. Len(list')
        PROVE  list'[j] \in Linked \ {Target}
    <3>1. CASE j < Top.at + 1
      <4>1. list'[j] = list[j] /\ j \in 1 .. Len(list) /\ j # Top.at + 1
        BY <1>2, <1>4, <1>6, <3>1
      <4>. QED
        BY <1>12, <4>1 DEF Linked
    <3>2. CASE ~(j < Top.at + 1)
      <4>1. list'[j] = list[j + 1] /\ j + 1 \in 1 .. Len(list) /\ j + 1 # Top.at + 1
        BY <1>2, <1>4, <1>6, <3>2
      <4>. QED
        BY <1>12, <4>1 DEF Linked
    <3>. QED
      BY <3>1, <3>2
  <2>2. ASSUME NEW i \in 1 .. Len(list), list[i] # Target
        PROVE  \E j \in 1 .. Len(list') : list'[j] = list[i]
    <3>1. i # Top.at + 1
      BY <1>5, <2>2
    <3>2. CASE i < Top.at + 1
      BY <1>2, <1>5, <1>6, <3>2
    <3>3. CASE i > Top.at + 1
      <4>1. i - 1 \in 1 .. Len(list) - 1 /\ ~(i - 1 < Top.at + 1) /\ (i - 1) + 1 = i
        BY <1>2, <1>4, <3>3
      <4>2. list'[i - 1] = list[i]
        BY <1>6, <4>1
      <4>. QED
        BY <1>6, <4>1, <4>2
    <3>. QED
      BY <1>4, <3>1, <3>2, <3>3
  <2>. QED
    BY <2>1, <2>2 DEF Linked
<1>14. Linkage'
  <2>1. ASSUME NEW i \in 1 .. Len(list'), NEW j \in 1 .. Len(list'), list'[i] = list'[j]
        PROVE  i = j
    <3>. DEFINE old(n) == IF n < Top.at + 1 THEN n ELSE n + 1
    <3>1. old(i) \in 1 .. Len(list) /\ old(j) \in 1 .. Len(list)
          /\ list'[i] = list[old(i)] /\ list'[j] = list[old(j)]
      BY <1>2, <1>4, <1>6
    <3>2. old(i) = old(j)
      <4>. HIDE DEF old
      <4>. QED
        BY <2>1, <3>1 DEF HeapInv, Linkage, ListIsSimple
    <3>. QED
      BY <1>2, <1>4, <1>6, <3>2
  <2>2. \A o \in Linked' : kind'[o] \in Kind
    <3>1. \A o \in Linked \ {Target} : o \in Ref /\ kind[o] \in Kind
      BY Subsets DEF HeapInv, Linkage
    <3>. QED
      BY <1>1, <1>13, <3>1 DEF HeapInv, ShapeOK
  <2>. QED
    BY <2>1, <2>2 DEF Linkage, ListIsSimple
<1>15. Activations'
  <2>1. ASSUME NEW n \in 1 .. Len(runs), runs'[n].dead # NULL
        PROVE  runs'[n].frees > 0
    <3>1. CASE n = Len(runs)
      BY <1>7, <1>9, <3>1
    <3>2. CASE n # Len(runs)
      <4>1. runs'[n].dead = runs[n].dead /\ runs'[n].frees = runs[n].frees
        BY <1>8, <1>9, <3>2
      <4>. QED
        BY <2>1, <4>1 DEF HeapInv, Activations
    <3>. QED
      BY <3>1, <3>2
  <2>. QED
    BY <1>9, <2>1 DEF Activations
<1>16. Building'
  BY <1>1 DEF HeapInv, Building
<1>17. ASSUME ~tainted
       PROVE  Target \notin Reachable /\ Reachable' = Reachable
  <2>1. Sweep(Top.at)
    BY <1>1, <1>17, Zenon DEF HeapInv, Safe
  <2>2. Target \notin Reachable
    <3>1. ~(Top.at + 1 <= Top.at)
      BY <1>4
    <3>. QED
      BY <1>1, <1>5, <2>1, <3>1 DEF Sweep
  <2>3. RootSet' = RootSet /\ RootSet \in SUBSET Ref
    BY <1>1, Subsets DEF RootSet, Retained, HeapInv
  <2>4. Reachable = ReachSet(RootSet, refs)
    BY ReachableIsReachSet
  <2>5. Reachable' = ReachSet(RootSet, refs')
    BY <2>3 DEF Reachable, Reach, Closed, ReachSet, ClosedSet
  <2>. QED
    BY <1>1, <1>5, <2>2, <2>3, <2>4, <2>5, ReachWithoutGarbage DEF HeapInv, ShapeOK
<1>18. Safe'
  <2>. SUFFICES ASSUME ~tainted' PROVE Safe'
    BY DEF Safe
  <2>1. ~tainted /\ Len(runs) <= 1 /\ Sweep(Top.at)
    BY <1>1, Zenon DEF HeapInv, Safe
  <2>2. Len(runs) = 1
    <3>1. Len(runs) \in Nat /\ Len(runs) >= 1 /\ Len(runs) <= 1
      BY <1>2, <2>1
    <3>. QED
      BY <3>1, OneActivation
  <2>3. Target \notin Reachable
    BY <1>17, <2>1
  <2>4. Reachable' = Reachable
    BY <1>17, <2>1
  <2>5. Held' = Held
    BY <1>1 DEF Held
  <2>6. Top'.at = Top.at
    BY <1>7, <1>9, <2>2 DEF Top
  <2>7. Sweep(Top.at)'
    <3>1. Top.at \in 0 .. Len(list')
      BY <1>2, <1>4, <1>5, <1>6
    <3>2. ASSUME NEW i \in 1 .. Len(list'), i <= Top.at
          PROVE  list'[i] \in Reachable \ marked
      <4>1. i \in 1 .. Len(list) /\ list'[i] = list[i]
        BY <1>2, <1>4, <1>6, <3>2
      <4>. QED
        BY <2>1, <3>2, <4>1 DEF Sweep
    <3>3. ASSUME NEW i \in 1 .. Len(list'), ~(i <= Top.at)
          PROVE  list'[i] \in marked <=> list'[i] \in Reachable
      <4>1. i + 1 \in 1 .. Len(list) /\ list'[i] = list[i + 1] /\ ~(i + 1 <= Top.at)
        BY <1>2, <1>4, <1>6, <3>3
      <4>. QED
        BY <2>1, <4>1 DEF Sweep
    <3>4. Reachable \subseteq Linked'
      BY <1>13, <2>1, <2>3 DEF Sweep
    <3>5. marked \subseteq Reachable /\ Held \subseteq Reachable /\ local = NULL
      BY <2>1 DEF Sweep
    <3>. QED
      BY <1>1, <2>4, <2>5, <2>6, <3>1, <3>2, <3>3, <3>4, <3>5 DEF Sweep
  <2>8. Running' /\ Len(runs') = 1 /\ ~fault'
    BY <1>1, <1>9, <2>2 DEF Running
  <2>. QED
    BY <2>7, <2>8 DEF Safe
<1>. QED
  BY <1>11, <1>13, <1>14, <1>15, <1>16, <1>17, <1>18 DEF HeapInv

(* One DEALLOC of the object being deallocated.                            *)
LEMMA SweepFreeInv ==
    ASSUME HeapInv, SweepFree
    PROVE  HeapInv'
<1>. DEFINE top == [Top EXCEPT !.frees = @ - 1,
                               !.dead = IF Top.frees = 1 THEN NULL ELSE @]
            outer == [runs EXCEPT ![Len(runs)] = top]
<1>1. /\ Running /\ ~fault /\ Top.dead # NULL
      /\ list' = list /\ kind' = kind /\ refs' = refs /\ root' = root
      /\ gcStack' = gcStack /\ call' = call /\ local' = local
      /\ Charge(0, outer)
  BY DEF SweepFree, SetTop, heapVars, vmVars
<1>2. Len(runs) \in Nat /\ Len(runs) >= 1
  BY <1>1 DEF HeapInv, ShapeOK, Running
<1>3. Top \in Activation /\ Top.frees \in Nat /\ Top.frees > 0
  <2>1. Len(runs) \in 1 .. Len(runs)
    BY <1>2
  <2>2. Top \in Activation /\ (Top.dead # NULL => Top.frees > 0)
    BY <2>1, ElementOfSeq DEF HeapInv, ShapeOK, Top, Activations
  <2>. QED
    BY <1>1, <2>2 DEF Activation
<1>4. top \in Activation /\ top.at = Top.at /\ (top.dead # NULL => top.frees > 0)
  BY <1>3, Deallocated
<1>. HIDE DEF top
<1>5. /\ outer \in Seq(Activation) /\ Len(outer) = Len(runs)
      /\ \A j \in 1 .. Len(runs) : outer[j] = IF j = Len(runs) THEN top ELSE runs[j]
  BY <1>2, <1>4, SetLast DEF HeapInv, ShapeOK
<1>6. \A j \in 1 .. Len(outer) : outer[j].dead # NULL => outer[j].frees > 0
  BY <1>2, <1>4, <1>5 DEF HeapInv, Activations
<1>. HIDE DEF outer
<1>7. CASE UNCHANGED <<marked, fault, tainted>> /\ runs' = outer
  <2>1. ShapeOK' /\ Linkage' /\ Activations' /\ Building'
    BY <1>1, <1>5, <1>6, <1>7
    DEF HeapInv, ShapeOK, Linkage, ListIsSimple, Linked, Activations, Building
  <2>2. Safe'
    <3>. SUFFICES ASSUME ~tainted' PROVE Safe'
      BY DEF Safe
    <3>1. ~tainted /\ Len(runs) <= 1 /\ Sweep(Top.at)
      BY <1>1, <1>7, Zenon DEF HeapInv, Safe
    <3>2. Len(runs) = 1
      BY <1>2, <3>1, OneActivation
    <3>3. Top'.at = Top.at
      <4>1. Top' = runs'[Len(runs')] /\ Len(runs') = 1 /\ runs'[1] = top
        BY <1>5, <1>7, <3>2 DEF Top
      <4>. QED
        BY <1>4, <4>1
    <3>4. Linked' = Linked /\ Reachable' = Reachable /\ Held' = Held
      BY <1>1 DEF Linked, Reachable, Reach, Closed, RootSet, Retained, Held
    <3>5. Sweep(Top.at)'
      BY <1>1, <1>7, <3>1, <3>3, <3>4 DEF Sweep
    <3>6. Running' /\ Len(runs') = 1 /\ ~fault'
      BY <1>1, <1>5, <1>7, <3>2 DEF Running
    <3>. QED
      BY <3>5, <3>6 DEF Safe
  <2>. QED
    BY <2>1, <2>2 DEF HeapInv
<1>8. CASE StartRun(outer)
  <2>. DEFINE act == [at |-> 0, dead |-> NULL, frees |-> 0]
  <2>1. /\ marked' = marked \cup Reach(marked)
        /\ runs' = Append(outer, act)
        /\ fault' = ~(Reach(marked) \subseteq Linked)
        /\ tainted' = (tainted \/ outer # <<>> \/ ~(Held \subseteq Reachable))
    BY <1>8, Zenon DEF StartRun
  <2>2. outer # <<>>
    BY <1>2, <1>5
  <2>3. tainted'
    BY <2>1, <2>2
  <2>4. act \in Activation /\ act.dead = NULL
    BY DEF Activation
  <2>. HIDE DEF act
  <2>5. /\ runs' \in Seq(Activation) /\ Len(runs') = Len(outer) + 1
        /\ \A j \in 1 .. Len(outer) + 1 :
              runs'[j] = IF j <= Len(outer) THEN outer[j] ELSE act
    BY <1>5, <2>1, <2>4
  <2>6. Activations'
    <3>1. ASSUME NEW j \in 1 .. Len(runs'), runs'[j].dead # NULL
          PROVE  runs'[j].frees > 0
      <4>1. j <= Len(outer)
        BY <2>4, <2>5, <3>1
      <4>2. j \in 1 .. Len(outer) /\ runs'[j] = outer[j]
        BY <1>2, <1>5, <2>5, <4>1
      <4>. QED
        BY <1>6, <3>1, <4>2
    <3>. QED
      BY <3>1 DEF Activations
  <2>7. marked' \subseteq Ref
    BY <2>1 DEF Reach, HeapInv, ShapeOK
  <2>8. ShapeOK' /\ Linkage' /\ Building'
    BY <1>1, <2>1, <2>5, <2>7
    DEF HeapInv, ShapeOK, Linkage, ListIsSimple, Linked, Building
  <2>. QED
    BY <2>3, <2>6, <2>8 DEF HeapInv, Safe
<1>. QED
  BY <1>1, <1>7, <1>8, Zenon DEF Charge

(* The end of a sweep.                                                     *)
LEMMA SweepDoneInv ==
    ASSUME HeapInv, SweepDone
    PROVE  HeapInv' /\ (~tainted => Linked' = Reachable')
<1>1. /\ Running /\ ~fault
      /\ list' = list /\ kind' = kind /\ refs' = refs /\ root' = root
      /\ gcStack' = gcStack /\ call' = call /\ local' = local
      /\ marked' = marked /\ fault' = fault /\ tainted' = tainted
      /\ runs' = Front(runs)
      /\ Top.at = Len(list)
  BY DEF SweepDone, Sweeping, heapVars, vmVars
<1>2. Len(runs) \in Nat /\ Len(runs) >= 1
  BY <1>1 DEF HeapInv, ShapeOK, Running
<1>3. /\ runs' \in Seq(Activation)
      /\ Len(runs') = Len(runs) - 1
      /\ \A j \in 1 .. Len(runs) - 1 : runs'[j] = runs[j]
  BY <1>1, <1>2, FrontFacts DEF HeapInv, ShapeOK
<1>4. ShapeOK' /\ Linkage' /\ Building'
  BY <1>1, <1>3 DEF HeapInv, ShapeOK, Linkage, ListIsSimple, Linked, Building
<1>5. Activations'
  BY <1>2, <1>3 DEF HeapInv, Activations
<1>6. Linked' = Linked /\ Reachable' = Reachable /\ Held' = Held /\ RootSet' = RootSet
  BY <1>1 DEF Linked, Reachable, Reach, Closed, RootSet, Retained, Held
<1>7. ASSUME ~tainted
      PROVE  Linked = Reachable /\ Safe'
  <2>1. Len(runs) <= 1 /\ Sweep(Top.at)
    BY <1>1, <1>7, Zenon DEF HeapInv, Safe
  <2>2. Len(runs) = 1
    BY <1>2, <2>1, OneActivation
  <2>3. \A i \in 1 .. Len(list) : list[i] \in Reachable \ marked
    BY <1>1, <2>1 DEF Sweep
  <2>4. Linked = Reachable /\ marked = {}
    BY <2>1, <2>3 DEF Sweep, Linked
  <2>5. Quiet'
    <3>1. ClosedSet(RootSet, refs, Linked)
      BY <2>4, Subsets, ReachableIsReachSet, ReachIsClosed DEF HeapInv, ShapeOK
    <3>2. Held \subseteq Linked /\ local = NULL
      BY <2>1, <2>4 DEF Sweep
    <3>. QED
      BY <1>1, <1>6, <2>4, <3>1, <3>2 DEF Quiet
  <2>6. Len(runs') = 0 /\ runs' = <<>>
    BY <1>3, <2>2
  <2>. QED
    BY <1>1, <2>4, <2>5, <2>6 DEF Safe, Running
<1>8. Safe'
  BY <1>1, <1>7 DEF Safe
<1>. QED
  BY <1>4, <1>5, <1>6, <1>7, <1>8 DEF HeapInv

LEMMA SweepDanglingInv ==
    ASSUME HeapInv, SweepDangling
    PROVE  HeapInv'
<1>1. /\ Running /\ Top.at = -1
      /\ list' = list /\ kind' = kind /\ refs' = refs /\ root' = root
      /\ gcStack' = gcStack /\ call' = call /\ local' = local
      /\ marked' = marked /\ fault' = TRUE /\ tainted' = tainted /\ runs' = runs
  BY DEF SweepDangling, heapVars, vmVars
<1>2. tainted
  <2>. SUFFICES ASSUME ~tainted PROVE FALSE
    OBVIOUS
  <2>1. Sweep(Top.at)
    BY <1>1, Zenon DEF HeapInv, Safe
  <2>. QED
    BY <1>1, <2>1 DEF Sweep
<1>3. ShapeOK' /\ Linkage' /\ Activations' /\ Building'
  BY <1>1 DEF HeapInv, ShapeOK, Linkage, ListIsSimple, Linked, Activations, Building
<1>. QED
  BY <1>1, <1>2, <1>3 DEF HeapInv, Safe
-----------------------------------------------------------------------------
(* Between collections, everything the program holds is in the list.       *)
LEMMA QuietFacts ==
    ASSUME HeapInv, ~Running, ~tainted
    PROVE  ~fault /\ Quiet /\ Reachable \subseteq Linked /\ Accessible \subseteq Linked
<1>1. ~fault /\ Quiet
  BY Zenon DEF HeapInv, Safe
<1>2. Reachable \subseteq Linked
  BY <1>1, Subsets, ReachableIsReachSet, ReachIsLeast DEF Quiet, HeapInv, ShapeOK
<1>. QED
  BY <1>1, <1>2 DEF Accessible, Quiet

LEMMA BeginInv ==
    ASSUME HeapInv, NEW k \in Kind, NEW arg \in Ref \cup {NULL}, Begin(k, arg)
    PROVE  HeapInv'
<1>1. /\ call = NoCall /\ ~Running
      /\ arg \in IF k \in Takes THEN Accessible ELSE {NULL}
      /\ call' = [kind |-> k, arg |-> arg, built |-> <<>>, step |-> 1, got |-> FALSE]
      /\ local' = NULL
      /\ list' = list /\ kind' = kind /\ refs' = refs /\ root' = root /\ gcStack' = gcStack
      /\ marked' = marked /\ runs' = runs /\ fault' = fault /\ tainted' = tainted
  BY DEF Begin, Idle, heapVars, vmVars
<1>2. call'.kind = k /\ k # NULL /\ call' # NoCall
  BY <1>1, HeapConstants DEF NoCall
<1>3. Len(Plan[k]) >= 1
  BY HeapConstants
<1>4. call' \in [kind : Kind, arg : Ref \cup {NULL}, built : Seq(Ref),
                 step : Nat \ {0}, got : BOOLEAN] /\ call'.step = 1
  BY <1>1
<1>5. ShapeOK'
  BY <1>1, <1>2, <1>3, <1>4 DEF HeapInv, ShapeOK
<1>6. Linkage' /\ Activations' /\ Building'
  BY <1>1, <1>4 DEF HeapInv, Linkage, ListIsSimple, Linked, Activations, Building
<1>7. Safe'
  <2>. SUFFICES ASSUME ~tainted' PROVE Safe'
    BY DEF Safe
  <2>1. ~fault /\ Quiet /\ Accessible \subseteq Linked
    BY <1>1, QuietFacts
  <2>2. Held' = {arg} \ {NULL}
    BY <1>1, <1>2 DEF Held
  <2>3. Linked' = Linked /\ RootSet' = RootSet
    BY <1>1 DEF Linked, RootSet, Retained
  <2>4. Quiet'
    BY <1>1, <2>1, <2>2, <2>3 DEF Quiet
  <2>. QED
    BY <1>1, <2>1, <2>4 DEF Safe, Running, HeapInv
<1>. QED
  BY <1>5, <1>6, <1>7 DEF HeapInv

LEMMA AskInv ==
    ASSUME HeapInv, Ask
    PROVE  HeapInv'
<1>1. /\ call # NoCall /\ ~Running /\ runs = <<>>
      /\ Charge(Step.bytes, <<>>)
      /\ call' = [call EXCEPT !.got = TRUE]
      /\ UNCHANGED <<heapVars, vmVars>>
      /\ list' = list /\ kind' = kind /\ refs' = refs /\ root' = root /\ gcStack' = gcStack
      /\ local' = local /\ local = NULL
  BY DEF Ask, Constructing, Running, heapVars, vmVars, HeapInv, Building
<1>2. call \in [kind : Kind, arg : Ref \cup {NULL}, built : Seq(Ref),
                step : Nat \ {0}, got : BOOLEAN] /\ call.step <= Len(Plan[call.kind])
  BY <1>1 DEF HeapInv, ShapeOK
<1>3. /\ call' \in [kind : Kind, arg : Ref \cup {NULL}, built : Seq(Ref),
                    step : Nat \ {0}, got : BOOLEAN]
      /\ call'.kind = call.kind /\ call'.arg = call.arg /\ call'.built = call.built
      /\ call'.step = call.step
  BY <1>1, <1>2
<1>4. call' # NoCall
  BY <1>2, <1>3, HeapConstants DEF NoCall
<1>5. Held' = Held /\ Building'
  BY <1>1, <1>3, <1>4 DEF Held, Building, HeapInv
<1>6. Linkage'
  BY <1>1 DEF HeapInv, Linkage, ListIsSimple, Linked
<1>7. CASE UNCHANGED <<marked, fault, tainted>> /\ runs' = <<>>
  <2>1. ShapeOK' /\ Activations'
    BY <1>1, <1>2, <1>3, <1>4, <1>7 DEF HeapInv, ShapeOK, Activations
  <2>2. Safe'
    <3>. SUFFICES ASSUME ~tainted' PROVE Safe'
      BY DEF Safe
    <3>1. ~fault /\ Quiet
      BY <1>1, <1>7, QuietFacts
    <3>2. Linked' = Linked /\ RootSet' = RootSet
      BY <1>1 DEF Linked, RootSet, Retained
    <3>. QED
      BY <1>1, <1>5, <1>7, <3>1, <3>2 DEF Safe, Quiet, Running
  <2>. QED
    BY <1>5, <1>6, <2>1, <2>2 DEF HeapInv
<1>8. CASE StartRun(<<>>)
  <2>1. /\ marked' \subseteq Ref /\ runs' \in Seq(Activation)
        /\ fault' \in BOOLEAN /\ tainted' \in BOOLEAN /\ Activations' /\ Safe'
    BY <1>1, <1>5, <1>8, MarkPhase, Zenon
  <2>2. ShapeOK'
    BY <1>1, <1>2, <1>3, <1>4, <2>1 DEF HeapInv, ShapeOK
  <2>. QED
    BY <1>5, <1>6, <2>1, <2>2 DEF HeapInv
<1>. QED
  BY <1>1, <1>7, <1>8, Zenon DEF Charge

LEMMA CollectInv ==
    ASSUME HeapInv, Collect
    PROVE  HeapInv'
<1>1. /\ call = NoCall /\ runs = <<>> /\ StartRun(<<>>)
      /\ UNCHANGED <<heapVars, vmVars>>
      /\ list' = list /\ kind' = kind /\ refs' = refs /\ root' = root /\ gcStack' = gcStack
      /\ local' = NULL /\ call' = call
  BY DEF Collect, Idle, Running, heapVars, vmVars
<1>2. Held' = Held
  BY <1>1 DEF Held
<1>3. /\ marked' \subseteq Ref /\ runs' \in Seq(Activation)
      /\ fault' \in BOOLEAN /\ tainted' \in BOOLEAN /\ Activations' /\ Safe'
  BY <1>1, <1>2, MarkPhase, Zenon
<1>4. ShapeOK' /\ Linkage' /\ Building'
  BY <1>1, <1>3 DEF HeapInv, ShapeOK, Linkage, ListIsSimple, Linked, Building
<1>. QED
  BY <1>3, <1>4 DEF HeapInv

(* What a constructor does once it has its memory.                         *)
Elements(b) == {b[i] : i \in 1 .. Len(b)}

LEMMA AdvanceFacts ==
    ASSUME ShapeOK, call # NoCall, local = NULL,
           NEW b \in Seq(Ref), b # <<>>, NEW r \in [Ref -> SUBSET Ref], Advance(b, r)
    PROVE  /\ refs' \in [Ref -> SUBSET Ref]
           /\ \A p \in Ref : refs'[p] \subseteq r[p] \cup Elements(b)
           /\ local' \in Elements(b) \cup {NULL} /\ local' \in Ref \cup {NULL}
           /\ \/ call' = NoCall
              \/ /\ call' \in [kind : Kind, arg : Ref \cup {NULL}, built : Seq(Ref),
                               step : Nat \ {0}, got : BOOLEAN]
                 /\ call'.step <= Len(Plan[call'.kind])
           /\ Held' \subseteq Elements(b) \cup Held
           /\ Building'
<1>1. call \in [kind : Kind, arg : Ref \cup {NULL}, built : Seq(Ref),
                step : Nat \ {0}, got : BOOLEAN] /\ call.step <= Len(Plan[call.kind])
  BY DEF ShapeOK
<1>2. Len(Plan[call.kind]) \in Nat
  BY <1>1, HeapConstants
<1>3. b[1] \in Elements(b) /\ Elements(b) \subseteq Ref /\ Len(b) \in Nat /\ Len(b) >= 1
  BY ElementOfSeq DEF Elements
<1>4. CASE call.step < Len(Plan[call.kind])
  <2>1. /\ call' = [call EXCEPT !.built = b, !.step = @ + 1, !.got = FALSE]
        /\ refs' = r /\ local' = local
    BY <1>4 DEF Advance
  <2>2. /\ call' \in [kind : Kind, arg : Ref \cup {NULL}, built : Seq(Ref),
                      step : Nat \ {0}, got : BOOLEAN]
        /\ call'.kind = call.kind /\ call'.arg = call.arg
        /\ call'.built = b /\ call'.step = call.step + 1
    <3>. DEFINE n == call.step + 1
    <3>1. call' = [kind |-> call.kind, arg |-> call.arg, built |-> b, step |-> n, got |-> FALSE]
      BY <1>1, <2>1
    <3>2. n \in Nat \ {0} /\ call.kind \in Kind /\ call.arg \in Ref \cup {NULL}
      BY <1>1
    <3>3. n = call.step + 1
      OBVIOUS
    <3>. HIDE DEF n
    <3>4. call' \in [kind : Kind, arg : Ref \cup {NULL}, built : Seq(Ref),
                     step : Nat \ {0}, got : BOOLEAN]
      BY <3>1, <3>2
    <3>5. call'.kind = call.kind /\ call'.arg = call.arg /\ call'.built = b /\ call'.step = n
      BY <3>1
    <3>. QED
      BY <3>3, <3>4, <3>5
  <2>3. call'.step <= Len(Plan[call'.kind])
    BY <1>1, <1>2, <1>4, <2>2
  <2>4. call' # NoCall
    BY <1>1, <2>2, HeapConstants DEF NoCall
  <2>5. Held' = Elements(b) \cup ({call.arg} \ {NULL})
    BY <2>2, <2>4 DEF Held, Elements
  <2>6. Held' \subseteq Elements(b) \cup Held
    BY <2>5 DEF Held
  <2>7. Building'
    BY <2>1, <2>2 DEF Building
  <2>. QED
    BY <2>1, <2>2, <2>3, <2>6, <2>7
<1>5. CASE ~(call.step < Len(Plan[call.kind]))
  <2>1. /\ call' = NoCall /\ local' = b[1]
        /\ refs' = [r EXCEPT ![b[1]] = @ \cup {b[i] : i \in 2 .. Len(b)}]
    BY <1>5 DEF Advance
  <2>2. {b[i] : i \in 2 .. Len(b)} \subseteq Elements(b)
    BY <1>3 DEF Elements
  <2>3. refs' \in [Ref -> SUBSET Ref] /\ \A p \in Ref : refs'[p] \subseteq r[p] \cup Elements(b)
    BY <1>3, <2>1, <2>2
  <2>4. Held' = {} /\ Building'
    BY <2>1 DEF Held, Building
  <2>. QED
    BY <1>3, <2>1, <2>3, <2>4
<1>. QED
  BY <1>4, <1>5

(* Where a constructor stands when its memory is granted.                  *)
LEMMA GrantedFacts ==
    ASSUME HeapInv, Granted
    PROVE  /\ call # NoCall /\ ~Running /\ local = NULL
           /\ call.built \in Seq(Ref) /\ call.arg \in Ref \cup {NULL}
           /\ Elements(call.built) \cup ({call.arg} \ {NULL}) = Held
           /\ Elements(call.built) \subseteq Linked
           /\ Step.makes \in Kind \cup {NULL}
           /\ Step.makes = NULL => call.built # <<>>
<1>1. call # NoCall /\ ~Running /\ Elements(call.built) \subseteq Linked
  BY DEF Granted, Constructing, Elements
<1>2. call \in [kind : Kind, arg : Ref \cup {NULL}, built : Seq(Ref),
                step : Nat \ {0}, got : BOOLEAN] /\ call.step <= Len(Plan[call.kind])
  BY <1>1 DEF HeapInv, ShapeOK
<1>3. Plan[call.kind] \in Seq([bytes : Nat, makes : Kind \cup {NULL}])
  BY <1>2, HeapConstants
<1>4. Step \in [bytes : Nat, makes : Kind \cup {NULL}]
  <2>1. call.step \in 1 .. Len(Plan[call.kind])
    BY <1>2, <1>3
  <2>. QED
    BY <1>3, <2>1, ElementOfSeq DEF Step
<1>5. Step.makes = NULL => call.built # <<>>
  <2>. SUFFICES ASSUME call.built = <<>> PROVE Step.makes # NULL
    OBVIOUS
  <2>1. call.step = 1
    BY <1>1 DEF HeapInv, Building
  <2>. QED
    BY <1>2, <2>1, HeapConstants DEF Step
<1>6. local = NULL
  BY <1>1 DEF HeapInv, Building
<1>7. Elements(call.built) \cup ({call.arg} \ {NULL}) = Held
  BY <1>1 DEF Held, Elements
<1>. QED
  BY <1>1, <1>2, <1>4, <1>5, <1>6, <1>7

LEMMA MakeObjectInv ==
    ASSUME HeapInv, NEW o \in Ref, MakeObject(o)
    PROVE  HeapInv'
<1>. DEFINE b == Append(call.built, o)
            x == IF call.built = <<>> THEN {call.arg} \ {NULL} ELSE {}
            r == [refs EXCEPT ![o] = x]
<1>1. /\ Granted /\ Step.makes # NULL
      /\ o \in Fresh
      /\ list' = <<o>> \o list
      /\ kind' = [kind EXCEPT ![o] = Step.makes]
      /\ Advance(b, r)
      /\ root' = root /\ gcStack' = gcStack
      /\ marked' = marked /\ runs' = runs /\ fault' = fault /\ tainted' = tainted
  BY DEF MakeObject, vmVars
<1>2. /\ call # NoCall /\ ~Running /\ local = NULL
      /\ call.built \in Seq(Ref) /\ call.arg \in Ref \cup {NULL}
      /\ Elements(call.built) \cup ({call.arg} \ {NULL}) = Held
      /\ Elements(call.built) \subseteq Linked
      /\ Step.makes \in Kind
  BY <1>1, GrantedFacts
<1>3. o \notin Linked
  BY <1>1 DEF Fresh
<1>4. b \in Seq(Ref) /\ b # <<>> /\ Elements(b) = Elements(call.built) \cup {o}
  <2>1. /\ b \in Seq(Ref) /\ Len(b) = Len(call.built) + 1 /\ Len(call.built) \in Nat
        /\ \A i \in 1 .. Len(call.built) : b[i] = call.built[i]
        /\ b[Len(call.built) + 1] = o
    BY <1>2
  <2>. HIDE DEF b
  <2>2. b # <<>>
    BY <2>1
  <2>3. Elements(call.built) \cup {o} \subseteq Elements(b)
    BY <2>1 DEF Elements
  <2>4. \A i \in 1 .. Len(b) : i \in 1 .. Len(call.built) \/ i = Len(call.built) + 1
    BY <2>1
  <2>5. Elements(b) \subseteq Elements(call.built) \cup {o}
    BY <2>1, <2>4 DEF Elements
  <2>. QED
    BY <2>1, <2>2, <2>3, <2>5
<1>5. /\ r \in [Ref -> SUBSET Ref] /\ r[o] \subseteq Held
      /\ \A p \in Ref \ {o} : r[p] = refs[p]
  BY <1>2 DEF HeapInv, ShapeOK
<1>. HIDE DEF b, r
<1>6. ShapeOK
  BY DEF HeapInv
<1>7. /\ refs' \in [Ref -> SUBSET Ref]
      /\ \A p \in Ref : refs'[p] \subseteq r[p] \cup Elements(b)
      /\ local' \in Elements(b) \cup {NULL} /\ local' \in Ref \cup {NULL}
      /\ \/ call' = NoCall
         \/ /\ call' \in [kind : Kind, arg : Ref \cup {NULL}, built : Seq(Ref),
                          step : Nat \ {0}, got : BOOLEAN]
            /\ call'.step <= Len(Plan[call'.kind])
      /\ Held' \subseteq Elements(b) \cup Held
      /\ Building'
  BY <1>1, <1>2, <1>4, <1>5, <1>6, AdvanceFacts
<1>8. /\ list' \in Seq(Ref) /\ Len(list) \in Nat /\ Len(list') = Len(list) + 1
      /\ list'[1] = o
      /\ \A i \in 2 .. Len(list) + 1 : list'[i] = list[i - 1] /\ i - 1 \in 1 .. Len(list)
  <2>1. <<o>> \in Seq(Ref) /\ Len(<<o>>) = 1 /\ <<o>>[1] = o /\ list \in Seq(Ref) /\ Len(list) \in Nat
    BY <1>6 DEF ShapeOK
  <2>2. /\ <<o>> \o list \in Seq(Ref)
        /\ Len(<<o>> \o list) = Len(<<o>>) + Len(list)
        /\ \A i \in 1 .. Len(<<o>>) + Len(list) :
              (<<o>> \o list)[i] = IF i <= Len(<<o>>) THEN <<o>>[i] ELSE list[i - Len(<<o>>)]
    BY <2>1, ConcatProperties
  <2>. QED
    BY <1>1, <2>1, <2>2
<1>9. Linked' = Linked \cup {o}
  <2>1. ASSUME NEW i \in 1 .. Len(list) PROVE list[i] \in Linked'
    <3>1. i + 1 \in 2 .. Len(list) + 1 /\ i + 1 \in 1 .. Len(list') /\ (i + 1) - 1 = i
      BY <1>8
    <3>2. list'[i + 1] = list[i]
      BY <1>8, <3>1
    <3>. QED
      BY <3>1, <3>2 DEF Linked
  <2>2. ASSUME NEW i \in 1 .. Len(list') PROVE list'[i] \in Linked \cup {o}
    <3>1. i = 1 \/ i \in 2 .. Len(list) + 1
      BY <1>8
    <3>. QED
      BY <1>8, <3>1 DEF Linked
  <2>3. 1 \in 1 .. Len(list')
    BY <1>8
  <2>. QED
    BY <1>8, <2>1, <2>2, <2>3 DEF Linked
<1>10. ShapeOK'
  <2>1. kind' \in [Ref -> Kind \cup {NULL}]
    BY <1>1, <1>2, <1>6 DEF ShapeOK
  <2>. QED
    BY <1>1, <1>6, <1>7, <1>8, <2>1 DEF ShapeOK
<1>11. Linkage'
  <2>1. ASSUME NEW i \in 1 .. Len(list'), NEW j \in 1 .. Len(list'), list'[i] = list'[j]
        PROVE  i = j
    <3>1. (i = 1 \/ i \in 2 .. Len(list) + 1) /\ (j = 1 \/ j \in 2 .. Len(list) + 1)
      BY <1>8
    <3>2. CASE i = 1 /\ j = 1
      BY <3>2
    <3>3. CASE i = 1 /\ j \in 2 .. Len(list) + 1
      BY <1>3, <1>8, <2>1, <3>3 DEF Linked
    <3>4. CASE i \in 2 .. Len(list) + 1 /\ j = 1
      BY <1>3, <1>8, <2>1, <3>4 DEF Linked
    <3>5. CASE i \in 2 .. Len(list) + 1 /\ j \in 2 .. Len(list) + 1
      <4>1. i - 1 = j - 1
        BY <1>8, <2>1, <3>5 DEF HeapInv, Linkage, ListIsSimple
      <4>. QED
        BY <1>8, <3>5, <4>1
    <3>. QED
      BY <3>1, <3>2, <3>3, <3>4, <3>5
  <2>2. \A p \in Linked' : kind'[p] \in Kind
    <3>1. \A p \in Linked : p \in Ref /\ kind[p] \in Kind
      BY <1>6, Subsets DEF HeapInv, Linkage
    <3>. QED
      BY <1>1, <1>2, <1>6, <1>9, <3>1 DEF ShapeOK
  <2>. QED
    BY <2>1, <2>2 DEF Linkage, ListIsSimple
<1>12. Activations'
  BY <1>1 DEF HeapInv, Activations
<1>13. Safe'
  <2>. SUFFICES ASSUME ~tainted' PROVE Safe'
    BY DEF Safe
  <2>1. ~fault /\ Quiet
    BY <1>1, <1>2, QuietFacts
  <2>2. RootSet' = RootSet
    BY <1>1 DEF RootSet, Retained
  <2>3. Held \subseteq Linked /\ Elements(b) \subseteq Linked'
    BY <1>2, <1>4, <1>9, <2>1 DEF Quiet
  <2>4. \A p \in Linked' : refs'[p] \subseteq Linked'
    <3>1. \A p \in Linked' : p \in Ref
      BY <1>6, <1>9, Subsets
    <3>2. \A p \in Linked' : r[p] \subseteq Linked'
      BY <1>5, <1>9, <2>1, <2>3, <3>1 DEF Quiet, ClosedSet
    <3>. QED
      BY <1>7, <2>3, <3>1, <3>2
  <2>5. ClosedSet(RootSet, refs, Linked)'
    BY <1>9, <2>1, <2>2, <2>4 DEF Quiet, ClosedSet
  <2>6. Quiet'
    BY <1>1, <1>7, <1>9, <2>1, <2>3, <2>5 DEF Quiet
  <2>. QED
    BY <1>1, <1>2, <2>1, <2>6 DEF Safe, Running, HeapInv
<1>. QED
  BY <1>7, <1>10, <1>11, <1>12, <1>13 DEF HeapInv

LEMMA StoreArrayInv ==
    ASSUME HeapInv, StoreArray
    PROVE  HeapInv'
<1>1. /\ Granted /\ Step.makes = NULL /\ Advance(call.built, refs)
      /\ list' = list /\ kind' = kind /\ root' = root /\ gcStack' = gcStack
      /\ marked' = marked /\ runs' = runs /\ fault' = fault /\ tainted' = tainted
  BY DEF StoreArray, vmVars
<1>2. /\ call # NoCall /\ ~Running /\ local = NULL
      /\ call.built \in Seq(Ref) /\ call.built # <<>>
      /\ Elements(call.built) \subseteq Linked
  BY <1>1, GrantedFacts
<1>3. ShapeOK /\ refs \in [Ref -> SUBSET Ref]
  BY DEF HeapInv, ShapeOK
<1>4. /\ refs' \in [Ref -> SUBSET Ref]
      /\ \A p \in Ref : refs'[p] \subseteq refs[p] \cup Elements(call.built)
      /\ local' \in Elements(call.built) \cup {NULL} /\ local' \in Ref \cup {NULL}
      /\ \/ call' = NoCall
         \/ /\ call' \in [kind : Kind, arg : Ref \cup {NULL}, built : Seq(Ref),
                          step : Nat \ {0}, got : BOOLEAN]
            /\ call'.step <= Len(Plan[call'.kind])
      /\ Held' \subseteq Elements(call.built) \cup Held
      /\ Building'
  BY <1>1, <1>2, <1>3, AdvanceFacts
<1>5. ShapeOK'
  BY <1>1, <1>3, <1>4 DEF ShapeOK
<1>6. Linkage' /\ Activations'
  BY <1>1 DEF HeapInv, Linkage, ListIsSimple, Linked, Activations
<1>7. Safe'
  <2>. SUFFICES ASSUME ~tainted' PROVE Safe'
    BY DEF Safe
  <2>1. ~fault /\ Quiet
    BY <1>1, <1>2, QuietFacts
  <2>2. RootSet' = RootSet /\ Linked' = Linked
    BY <1>1 DEF RootSet, Retained, Linked
  <2>3. ClosedSet(RootSet, refs, Linked)'
    BY <1>2, <1>3, <1>4, <2>1, <2>2, Subsets DEF Quiet, ClosedSet
  <2>4. Quiet'
    BY <1>1, <1>2, <1>4, <2>1, <2>2, <2>3 DEF Quiet
  <2>. QED
    BY <1>1, <1>2, <2>1, <2>4 DEF Safe, Running, HeapInv
<1>. QED
  BY <1>4, <1>5, <1>6, <1>7 DEF HeapInv

LEMMA WriteFreedInv ==
    ASSUME HeapInv, WriteFreed
    PROVE  HeapInv'
<1>1. /\ call # NoCall /\ ~Running /\ ~(Elements(call.built) \subseteq Linked)
      /\ list' = list /\ kind' = kind /\ refs' = refs /\ root' = root /\ gcStack' = gcStack
      /\ marked' = marked /\ runs' = runs /\ fault' = TRUE /\ tainted' = tainted
      /\ call' = call /\ local' = local
  BY DEF WriteFreed, Granted, Constructing, Elements, heapVars, vmVars
<1>2. tainted
  <2>. SUFFICES ASSUME ~tainted PROVE FALSE
    OBVIOUS
  <2>1. Held \subseteq Linked
    BY <1>1, QuietFacts DEF Quiet
  <2>. QED
    BY <1>1, <2>1 DEF Held, Elements
<1>. QED
  BY <1>1, <1>2
  DEF HeapInv, ShapeOK, Linkage, ListIsSimple, Linked, Activations, Building, Safe
-----------------------------------------------------------------------------
(* The program stores in a root, in a holder or on the retain stack only   *)
(* what it can get at.                                                     *)
LEMMA LinkInv ==
    ASSUME HeapInv, NEW o \in Ref, NEW t \in Ref, Link(o, t) \/ Unlink(o, t)
    PROVE  HeapInv'
<1>1. /\ call = NoCall /\ ~Running
      /\ list' = list /\ kind' = kind /\ root' = root /\ gcStack' = gcStack
      /\ marked' = marked /\ runs' = runs /\ fault' = fault /\ tainted' = tainted
      /\ call' = call /\ local' = local
  BY DEF Link, Unlink, Idle, vmVars
<1>2. /\ refs' \in [Ref -> SUBSET Ref]
      /\ \A p \in Ref : refs'[p] \subseteq refs[p] \cup (Accessible \cap {t})
  <2>1. refs \in [Ref -> SUBSET Ref]
    BY DEF HeapInv, ShapeOK
  <2>2. CASE Link(o, t)
    <3>1. t \in Accessible /\ refs' = [refs EXCEPT ![o] = @ \cup {t}]
      BY <2>2 DEF Link
    <3>. QED
      BY <2>1, <3>1
  <2>3. CASE Unlink(o, t)
    <3>1. refs' = [refs EXCEPT ![o] = @ \ {t}]
      BY <2>3 DEF Unlink
    <3>. QED
      BY <2>1, <3>1
  <2>. QED
    BY <2>2, <2>3
<1>3. ShapeOK' /\ Linkage' /\ Activations' /\ Building'
  BY <1>1, <1>2
  DEF HeapInv, ShapeOK, Linkage, ListIsSimple, Linked, Activations, Building
<1>4. Safe'
  <2>. SUFFICES ASSUME ~tainted' PROVE Safe'
    BY DEF Safe
  <2>1. ~fault /\ Quiet /\ Accessible \subseteq Linked
    BY <1>1, QuietFacts
  <2>2. RootSet' = RootSet /\ Linked' = Linked /\ Held' = Held
    BY <1>1 DEF RootSet, Retained, Linked, Held
  <2>3. ClosedSet(RootSet, refs, Linked)'
    BY <1>2, <2>1, <2>2, Subsets DEF HeapInv, Quiet, ClosedSet
  <2>4. Quiet'
    BY <1>1, <2>1, <2>2, <2>3 DEF Quiet
  <2>. QED
    BY <1>1, <2>1, <2>4 DEF Safe, Running, HeapInv
<1>. QED
  BY <1>3, <1>4 DEF HeapInv

(* A change of the roots to objects the program can get at.                *)
LEMMA NewRoots ==
    ASSUME HeapInv, ~Running, list' = list, kind' = kind, refs' = refs,
           marked' = marked, runs' = runs, fault' = fault, tainted' = tainted,
           call' = call, local' = local,
           RootSet' \subseteq RootSet \cup Accessible
    PROVE  Linkage' /\ Activations' /\ Building' /\ Safe'
<1>1. Linkage' /\ Activations' /\ Building'
  BY DEF HeapInv, Linkage, ListIsSimple, Linked, Activations, Building
<1>2. Safe'
  <2>. SUFFICES ASSUME ~tainted' PROVE Safe'
    BY DEF Safe
  <2>1. ~fault /\ Quiet /\ Accessible \subseteq Linked
    BY QuietFacts
  <2>2. Linked' = Linked /\ Held' = Held
    BY DEF Linked, Held
  <2>3. Quiet'
    BY <2>1, <2>2 DEF Quiet, ClosedSet
  <2>. QED
    BY <2>1, <2>3 DEF Safe, Running, HeapInv
<1>. QED
  BY <1>1, <1>2

LEMMA SetRootInv ==
    ASSUME HeapInv, NEW n \in Root, NEW t \in Ref \cup {NULL}, SetRoot(n, t)
    PROVE  HeapInv'
<1>1. /\ ~Running /\ t \in Accessible \cup {NULL} /\ root' = [root EXCEPT ![n] = t]
      /\ list' = list /\ kind' = kind /\ refs' = refs /\ gcStack' = gcStack
      /\ marked' = marked /\ runs' = runs /\ fault' = fault /\ tainted' = tainted
      /\ call' = call /\ local' = local
  BY DEF SetRoot, Idle, heapVars
<1>2. ShapeOK'
  BY <1>1 DEF HeapInv, ShapeOK
<1>3. RootSet' \subseteq RootSet \cup Accessible
  BY <1>1 DEF RootSet, Retained, HeapInv, ShapeOK
<1>. QED
  BY <1>1, <1>2, <1>3, NewRoots DEF HeapInv

LEMMA RetainInv ==
    ASSUME HeapInv, NEW o \in Ref, Retain(o)
    PROVE  HeapInv'
<1>1. /\ ~Running /\ o \in Accessible /\ Len(gcStack) < StackSize - 1
      /\ gcStack' = Append(gcStack, o)
      /\ list' = list /\ kind' = kind /\ refs' = refs /\ root' = root
      /\ marked' = marked /\ runs' = runs /\ fault' = fault /\ tainted' = tainted
      /\ call' = call /\ local' = local
  BY DEF Retain, Idle, heapVars
<1>2. /\ gcStack' \in Seq(Ref) /\ Len(gcStack') = Len(gcStack) + 1 /\ Len(gcStack) \in Nat
      /\ \A i \in 1 .. Len(gcStack) : gcStack'[i] = gcStack[i]
      /\ gcStack'[Len(gcStack) + 1] = o
  BY <1>1 DEF HeapInv, ShapeOK
<1>3. ShapeOK'
  BY <1>1, <1>2, HeapConstants DEF HeapInv, ShapeOK
<1>4. Retained' \subseteq Retained \cup {o}
  <2>1. \A i \in 1 .. Len(gcStack') : i \in 1 .. Len(gcStack) \/ i = Len(gcStack) + 1
    BY <1>2
  <2>. QED
    BY <1>2, <2>1 DEF Retained
<1>5. RootSet' \subseteq RootSet \cup Accessible
  BY <1>1, <1>4 DEF RootSet
<1>. QED
  BY <1>1, <1>3, <1>5, NewRoots DEF HeapInv

LEMMA ReleaseInv ==
    ASSUME HeapInv, Release
    PROVE  HeapInv'
<1>1. /\ ~Running /\ gcStack # <<>> /\ gcStack' = Front(gcStack)
      /\ list' = list /\ kind' = kind /\ refs' = refs /\ root' = root
      /\ marked' = marked /\ runs' = runs /\ fault' = fault /\ tainted' = tainted
      /\ call' = call /\ local' = local
  BY DEF Release, Idle, heapVars
<1>2. gcStack \in Seq(Ref) /\ Len(gcStack) \in Nat /\ Len(gcStack) >= 1
  BY <1>1 DEF HeapInv, ShapeOK
<1>3. /\ gcStack' \in Seq(Ref) /\ Len(gcStack') = Len(gcStack) - 1
      /\ \A i \in 1 .. Len(gcStack) - 1 : gcStack'[i] = gcStack[i]
  BY <1>1, <1>2, FrontFacts
<1>4. ShapeOK'
  BY <1>1, <1>2, <1>3, HeapConstants DEF HeapInv, ShapeOK
<1>5. Retained' \subseteq Retained
  <2>1. \A i \in 1 .. Len(gcStack') : i \in 1 .. Len(gcStack) /\ gcStack'[i] = gcStack[i]
    BY <1>2, <1>3
  <2>. QED
    BY <2>1 DEF Retained
<1>6. RootSet' \subseteq RootSet \cup Accessible
  BY <1>1, <1>5 DEF RootSet
<1>. QED
  BY <1>1, <1>4, <1>6, NewRoots DEF HeapInv
-----------------------------------------------------------------------------
LEMMA InitInv == Init => HeapInv
<1>. SUFFICES ASSUME Init PROVE HeapInv
  OBVIOUS
<1>1. ShapeOK
  <2>1. <<>> \in Seq(Ref) /\ Len(<<>>) = 0 /\ <<>> \in Seq(Activation)
    OBVIOUS
  <2>2. Len(gcStack) < StackSize
    BY <2>1, HeapConstants DEF Init
  <2>. QED
    BY <2>1, <2>2 DEF Init, ShapeOK
<1>2. Linked = {} /\ Retained = {} /\ Held = {} /\ RootSet = {}
  BY DEF Init, Linked, Retained, Held, RootSet
<1>3. Linkage /\ Activations /\ Building
  BY <1>2 DEF Init, Linkage, ListIsSimple, Activations, Building
<1>4. Safe
  BY <1>2 DEF Init, Safe, Quiet, ClosedSet, Running
<1>. QED
  BY <1>1, <1>3, <1>4 DEF HeapInv

LEMMA StutterInv ==
    ASSUME HeapInv, UNCHANGED vars
    PROVE  HeapInv'
<1>1. /\ list' = list /\ kind' = kind /\ refs' = refs /\ root' = root /\ gcStack' = gcStack
      /\ marked' = marked /\ runs' = runs /\ fault' = fault /\ tainted' = tainted
      /\ call' = call /\ local' = local
  BY DEF vars
<1>2. ShapeOK' /\ Linkage' /\ Activations' /\ Building'
  BY <1>1 DEF HeapInv, ShapeOK, Linkage, ListIsSimple, Linked, Activations, Building
<1>3. /\ Linked' = Linked /\ Held' = Held /\ RootSet' = RootSet /\ Reachable' = Reachable
      /\ Top' = Top /\ Running' = Running
  BY <1>1 DEF Linked, Held, RootSet, Retained, Reachable, Reach, Closed, Top, Running
<1>4. Quiet' = Quiet
  BY <1>1, <1>3 DEF Quiet, ClosedSet
<1>5. Sweep(Top.at)' = Sweep(Top.at)
  BY <1>1, <1>3 DEF Sweep
<1>. QED
  BY <1>1, <1>2, <1>3, <1>4, <1>5, Zenon DEF HeapInv, Safe

LEMMA NextInv == HeapInv /\ [Next]_vars => HeapInv'
<1>. SUFFICES ASSUME HeapInv, [Next]_vars PROVE HeapInv'
  OBVIOUS
<1>1. ASSUME NEW k \in Kind, NEW arg \in Ref \cup {NULL}, Begin(k, arg) PROVE HeapInv'
  BY <1>1, BeginInv
<1>2. CASE Ask
  BY <1>2, AskInv
<1>3. ASSUME NEW o \in Ref, MakeObject(o) PROVE HeapInv'
  BY <1>3, MakeObjectInv
<1>4. CASE StoreArray
  BY <1>4, StoreArrayInv
<1>5. CASE WriteFreed
  BY <1>5, WriteFreedInv
<1>6. ASSUME NEW o \in Ref, NEW t \in Ref, Link(o, t) \/ Unlink(o, t) PROVE HeapInv'
  BY <1>6, LinkInv
<1>7. ASSUME NEW n \in Root, NEW t \in Ref \cup {NULL}, SetRoot(n, t) PROVE HeapInv'
  BY <1>7, SetRootInv
<1>8. ASSUME NEW o \in Ref, Retain(o) PROVE HeapInv'
  BY <1>8, RetainInv
<1>9. CASE Release
  BY <1>9, ReleaseInv
<1>10. CASE Collect
  BY <1>10, CollectInv
<1>11. CASE SweepKeep
  BY <1>11, SweepKeepInv
<1>12. CASE SweepUnlink
  BY <1>12, SweepUnlinkInv
<1>13. CASE SweepFree
  BY <1>13, SweepFreeInv
<1>14. CASE SweepDone
  BY <1>14, SweepDoneInv
<1>15. CASE SweepDangling
  BY <1>15, SweepDanglingInv
<1>16. CASE Undefined
  BY <1>16, StutterInv DEF Undefined
<1>17. CASE UNCHANGED vars
  BY <1>17, StutterInv
<1>. QED
  BY <1>1, <1>2, <1>3, <1>4, <1>5, <1>6, <1>7, <1>8, <1>9, <1>10, <1>11, <1>12,
     <1>13, <1>14, <1>15, <1>16, <1>17, Zenon DEF Next

THEOREM HeapInvariance == Spec => []HeapInv
BY InitInv, NextInv, PTL DEF Spec

(* The variables hold values of their types; the retain stack never        *)
(* reaches ORBIT_GCSTACK_SIZE (vm.h, orbit_gcRetain).                      *)
THEOREM ShapeCorrect == Spec => []ShapeOK
BY HeapInvariance, PTL DEF HeapInv

(* Nothing the roots, the retain stack, a running constructor or its       *)
(* caller hold is ever deallocated by orbit_gcRun.                         *)
THEOREM NothingInUseIsFreed == Spec => []ReachableIsAllocated
<1>1. HeapInv => ReachableIsAllocated
  <2>. SUFFICES ASSUME HeapInv, ~tainted
                PROVE  Reachable \cup Held \cup ({local} \ {NULL}) \subseteq Linked
    BY DEF ReachableIsAllocated
  <2>1. CASE ~Running
    BY <2>1, QuietFacts DEF Quiet
  <2>2. CASE Running
    <3>1. Sweep(Top.at)
      BY <2>2, Zenon DEF HeapInv, Safe
    <3>. QED
      BY <3>1 DEF Sweep
  <2>. QED
    BY <2>1, <2>2
<1>. QED
  BY <1>1, HeapInvariance, PTL

(* When no collection is running no object is marked.                      *)
THEOREM MarksAreCleared == Spec => []MarksCleared
<1>1. HeapInv => MarksCleared
  BY QuietFacts DEF MarksCleared, Quiet
<1>. QED
  BY <1>1, HeapInvariance, PTL

(* A charge leaves the activations it was given, or adds one.              *)
LEMMA ChargeRuns ==
    ASSUME NEW bytes, NEW outer, Charge(bytes, outer)
    PROVE  runs' = outer \/ runs' = Append(outer, [at |-> 0, dead |-> NULL, frees |-> 0])
BY Zenon DEF Charge, StartRun

(* The only step that ends the last activation is the end of a sweep.      *)
LEMMA OnlySweepDoneEnds ==
    ASSUME HeapInv, [Next]_vars, Running, ~Running'
    PROVE  SweepDone
<1>0. runs \in Seq(Activation) /\ Len(runs) \in Nat /\ Len(runs) >= 1 /\ runs # <<>> /\ runs' = <<>>
  BY DEF HeapInv, ShapeOK, Running
<1>1. ASSUME runs' = runs PROVE FALSE
  BY <1>0, <1>1
<1>2. ASSUME SweepKeep PROVE FALSE
  <2>. DEFINE a == [Top EXCEPT !.at = @ + 1]
  <2>1. runs' = [runs EXCEPT ![Len(runs)] = a]
    BY <1>2 DEF SweepKeep, SetTop
  <2>. HIDE DEF a
  <2>2. DOMAIN runs' = DOMAIN runs
    BY <2>1
  <2>. QED
    BY <1>0, <2>2
<1>3. ASSUME SweepUnlink PROVE FALSE
  <2>1. DOMAIN runs' = 1 .. Len(runs)
    BY <1>3 DEF SweepUnlink
  <2>. QED
    BY <1>0, <2>1
<1>4. ASSUME SweepFree PROVE FALSE
  <2>. DEFINE a == [Top EXCEPT !.frees = @ - 1, !.dead = IF Top.frees = 1 THEN NULL ELSE @]
              outer == [runs EXCEPT ![Len(runs)] = a]
              act == [at |-> 0, dead |-> NULL, frees |-> 0]
  <2>1. runs' = outer \/ runs' = Append(outer, act)
    <3>1. Charge(0, outer)
      BY <1>4 DEF SweepFree, SetTop
    <3>. HIDE DEF outer
    <3>. QED
      BY <3>1, ChargeRuns
  <2>. HIDE DEF a, act
  <2>2. DOMAIN outer = DOMAIN runs
    OBVIOUS
  <2>. HIDE DEF outer
  <2>3. runs' # outer
    BY <1>0, <2>2
  <2>4. Append(outer, act) # <<>>
    <3>1. Len(outer) = Len(runs)
      BY <1>0, <2>2
    <3>2. DOMAIN Append(outer, act) = 1 .. Len(runs) + 1
      BY <3>1
    <3>3. 1 \in 1 .. Len(runs) + 1 /\ 1 \notin DOMAIN <<>>
      BY <1>0
    <3>. QED
      BY <3>2, <3>3
  <2>. QED
    BY <1>0, <2>1, <2>3, <2>4
<1>5. ASSUME NEW k \in Kind, NEW arg \in Ref \cup {NULL}, Begin(k, arg) PROVE FALSE
  BY <1>1, <1>5, Zenon DEF Begin
<1>6. ASSUME NEW o \in Ref, NEW t \in Ref, Link(o, t) \/ Unlink(o, t) PROVE FALSE
  BY <1>1, <1>6, Zenon DEF Link, Unlink
<1>7. ASSUME NEW n \in Root, NEW t \in Ref \cup {NULL}, SetRoot(n, t) PROVE FALSE
  BY <1>1, <1>7, Zenon DEF SetRoot
<1>8. ASSUME NEW o \in Ref, Retain(o) \/ MakeObject(o) PROVE FALSE
  BY <1>1, <1>8, Zenon DEF Retain, MakeObject
<1>9. ASSUME Ask \/ Collect PROVE FALSE
  BY <1>9, Zenon DEF Ask, Collect, Constructing, Idle
<1>10. ASSUME StoreArray \/ WriteFreed \/ Release \/ SweepDangling PROVE FALSE
  BY <1>1, <1>10, Zenon DEF StoreArray, WriteFreed, Release, SweepDangling
<1>11. ASSUME Undefined \/ UNCHANGED vars PROVE FALSE
  BY <1>1, <1>11, Zenon DEF Undefined, vars
<1>. QED
  BY <1>2, <1>3, <1>4, <1>5, <1>6, <1>7, <1>8, <1>9, <1>10, <1>11, Zenon DEF Next

(* A collection leaves allocated exactly what can be reached from the      *)
(* roots when it ends (gc.c, orbit_gcRun).                                 *)
THEOREM SweepsAreExact == Spec => SweepIsExact
<1>1. HeapInv /\ [Next]_vars => [Running /\ ~Running' /\ ~tainted => Linked' = Reachable']_vars
  BY OnlySweepDoneEnds, SweepDoneInv, Zenon
<1>. QED
  BY <1>1, HeapInvariance, PTL DEF Spec, SweepIsExact
-----------------------------------------------------------------------------
(* The bytes of a finite set of objects.  The sum is a recursive function;  *)
(* what it computes is the number of cells of a set that has one cell for  *)
(* each byte of each object, the only function that adds as the sum does.  *)
Adds(k, f) ==
    f = [s \in SUBSET DOMAIN k |->
           IF s = {} THEN 0
           ELSE LET x == CHOOSE x \in s : TRUE IN Bytes[k[x]] + f[s \ {x}]]

LEMMA WeightIsASum ==
    ASSUME NEW k
    PROVE Weight(k) = (CHOOSE f : Adds(k, f))[DOMAIN k]
BY DEF Weight, MapThenSumSet, MapThenFoldSet, Adds

Cells(k, s) == UNION {{o} \X (1 .. Bytes[k[o]]) : o \in s}
Measure(k) == [s \in SUBSET DOMAIN k |-> Cardinality(Cells(k, s))]

(* The cells of an object are as many as its bytes.                        *)
LEMMA CellsAreFinite ==
    ASSUME NEW S, IsFiniteSet(S), NEW k \in [S -> Kind], NEW s \in SUBSET S
    PROVE  /\ IsFiniteSet(Cells(k, s)) /\ Cardinality(Cells(k, s)) \in Nat
           /\ s = {} => Cardinality(Cells(k, s)) = 0
           /\ \A x \in s : Cardinality(Cells(k, s)) = Bytes[k[x]] + Cardinality(Cells(k, s \ {x}))
<1>. DEFINE Row(o) == {o} \X (1 .. Bytes[k[o]])
<1>1. ASSUME NEW o \in S
      PROVE  IsFiniteSet(Row(o)) /\ Cardinality(Row(o)) = Bytes[k[o]] /\ Bytes[k[o]] \in Nat
  <2>1. Bytes[k[o]] \in Nat
    BY HeapConstants
  <2>2. IsFiniteSet(1 .. Bytes[k[o]]) /\ Cardinality(1 .. Bytes[k[o]]) = Bytes[k[o]]
    <3>. DEFINE b == Bytes[k[o]]
    <3>. HIDE DEF b
    <3>1. b \in Nat /\ 1 \in Int /\ b \in Int
      BY <2>1 DEF b
    <3>2. IsFiniteSet(1 .. b) /\ Cardinality(1 .. b) = IF 1 > b THEN 0 ELSE b - 1 + 1
      BY <3>1, FS_Interval
    <3>. QED  BY <3>1, <3>2 DEF b
  <2>3. IsFiniteSet({o}) /\ Cardinality({o}) = 1
    BY FS_Singleton
  <2>4. IsFiniteSet(Row(o)) /\ Cardinality(Row(o)) = Cardinality({o}) * Cardinality(1 .. Bytes[k[o]])
    BY <2>2, <2>3, FS_Product
  <2>. QED  BY <2>1, <2>2, <2>3, <2>4
<1>2. ASSUME NEW u \in SUBSET S PROVE IsFiniteSet(Cells(k, u)) /\ Cardinality(Cells(k, u)) \in Nat
  <2>1. IsFiniteSet(u)
    BY FS_Subset
  <2>2. IsFiniteSet({Row(o) : o \in u})
    <3>1. [o \in u |-> Row(o)] \in Surjection(u, {Row(o) : o \in u})
      BY DEF Surjection
    <3>. QED  BY <2>1, <3>1, FS_Surjection
  <2>3. \A T \in {Row(o) : o \in u} : IsFiniteSet(T)
    BY <1>1
  <2>4. IsFiniteSet(UNION {Row(o) : o \in u})
    BY <2>2, <2>3, FS_UNION
  <2>. QED  BY <2>4, FS_CardinalityType DEF Cells
<1>3. s = {} => Cells(k, s) = {}
  BY DEF Cells
<1>4. ASSUME NEW x \in s
      PROVE  Cardinality(Cells(k, s)) = Bytes[k[x]] + Cardinality(Cells(k, s \ {x}))
  <2>1. Cells(k, s) = Row(x) \cup Cells(k, s \ {x}) /\ Row(x) \cap Cells(k, s \ {x}) = {}
    BY DEF Cells
  <2>2. s \ {x} \in SUBSET S /\ x \in S
    OBVIOUS
  <2>3. /\ IsFiniteSet(Row(x)) /\ Cardinality(Row(x)) = Bytes[k[x]] /\ Bytes[k[x]] \in Nat
        /\ IsFiniteSet(Cells(k, s \ {x})) /\ Cardinality(Cells(k, s \ {x})) \in Nat
    BY <1>1, <1>2, <2>2
  <2>. DEFINE R == Row(x)
              C == Cells(k, s \ {x})
  <2>. HIDE DEF R, C
  <2>4. Cardinality(R \cup C) = Cardinality(R) + Cardinality(C) - Cardinality(R \cap C)
    BY <2>3, FS_Union DEF R, C
  <2>5. Cardinality(R \cap C) = 0
    BY <2>1, FS_EmptySet DEF R, C
  <2>6. Cardinality(R \cup C) = Cardinality(R) + Cardinality(C)
    BY <2>3, <2>4, <2>5 DEF R, C
  <2>. QED  BY <2>1, <2>3, <2>6 DEF R, C
<1>. QED  BY <1>2, <1>3, <1>4, FS_EmptySet

(* Counting cells adds up the bytes in any order.                          *)
LEMMA MeasureAdds ==
    ASSUME NEW S, IsFiniteSet(S), NEW k \in [S -> Kind]
    PROVE  Adds(k, Measure(k))
<1>1. ASSUME NEW s \in SUBSET S
      PROVE  Cardinality(Cells(k, s)) =
               IF s = {} THEN 0
               ELSE LET x == CHOOSE x \in s : TRUE
                    IN  Bytes[k[x]] + Measure(k)[s \ {x}]
  <2>1. CASE s = {}
    BY <2>1, CellsAreFinite
  <2>2. CASE s # {}
    <3>. DEFINE x == CHOOSE x \in s : TRUE
    <3>1. x \in s
      BY <2>2
    <3>. HIDE DEF x
    <3>2. Cardinality(Cells(k, s)) = Bytes[k[x]] + Cardinality(Cells(k, s \ {x}))
      BY <3>1, CellsAreFinite
    <3>3. Measure(k)[s \ {x}] = Cardinality(Cells(k, s \ {x}))
      BY DEF Measure
    <3>. QED  BY <2>2, <3>2, <3>3 DEF x
  <2>. QED  BY <2>1, <2>2
<1>. QED  BY <1>1, Zenon DEF Adds, Measure

(* Another function that adds so would differ first on some least set.     *)
LEMMA SumsAreUnique ==
    ASSUME NEW S, IsFiniteSet(S), NEW k \in [S -> Kind], NEW f, Adds(k, f)
    PROVE  f[S] = Cardinality(Cells(k, S))
<1>. DEFINE bad == {s \in SUBSET S : f[s] # Cardinality(Cells(k, s))}
<1>. SUFFICES ASSUME bad # {} PROVE FALSE
  OBVIOUS
<1>1. \A s \in SUBSET S : f[s] = IF s = {} THEN 0
                        ELSE LET x == CHOOSE x \in s : TRUE IN Bytes[k[x]] + f[s \ {x}]
  BY DEF Adds
<1>2. PICK m \in bad : \A u \in bad : ~ (<<u, m>> \in StrictSubsetOrdering(S))
  <2>1. IsWellFoundedOn(StrictSubsetOrdering(S), SUBSET S)
    BY FS_StrictSubsetOrderingWellFounded, FS_FiniteSubsetsOfFinite
  <2>. QED  BY <2>1, WFMin, Zenon
<1>3. CASE m = {}
  BY <1>1, <1>3, CellsAreFinite
<1>4. CASE m # {}
  <2>. DEFINE x == CHOOSE x \in m : TRUE
  <2>1. x \in m
    BY <1>4
  <2>2. f[m] = Bytes[k[x]] + f[m \ {x}]
    BY <1>1, <1>4
  <2>. HIDE DEF x
  <2>3. <<m \ {x}, m>> \in StrictSubsetOrdering(S)
    BY <2>1 DEF StrictSubsetOrdering
  <2>4. f[m \ {x}] = Cardinality(Cells(k, m \ {x}))
    BY <1>2, <2>3
  <2>5. Cardinality(Cells(k, m)) = Bytes[k[x]] + Cardinality(Cells(k, m \ {x}))
    BY <2>1, CellsAreFinite
  <2>. QED  BY <2>2, <2>4, <2>5
<1>. QED  BY <1>3, <1>4

(* What is counted into vm->allocated is a natural number.                 *)
LEMMA WeightIsSize ==
    ASSUME NEW S, IsFiniteSet(S), NEW k \in [S -> Kind]
    PROVE  Weight(k) = Cardinality(Cells(k, S)) /\ Weight(k) \in Nat
<1>1. Adds(k, CHOOSE f : Adds(k, f))
  BY MeasureAdds, Zenon
<1>2. Weight(k) = (CHOOSE f : Adds(k, f))[S]
  BY WeightIsASum
<1>. QED  BY <1>1, <1>2, SumsAreUnique, CellsAreFinite

LEMMA LinkedIsFinite ==
    ASSUME HeapInv
    PROVE  /\ \A S : [o \in S \cap Linked |-> kind[o]] \in [S \cap Linked -> Kind]
           /\ \A S : BytesOf(S) \in Nat
<1>1. list \in Seq(Ref) /\ Len(list) \in Nat
  BY DEF HeapInv, ShapeOK
<1>2. IsFiniteSet(Linked)
  <2>1. [i \in 1 .. Len(list) |-> list[i]] \in Surjection(1 .. Len(list), Linked)
    BY DEF Surjection, Linked
  <2>. QED
    BY <1>1, <2>1, FS_NatSurjection DEF ExistsSurjection
<1>3. ASSUME NEW S
      PROVE  /\ [o \in S \cap Linked |-> kind[o]] \in [S \cap Linked -> Kind]
             /\ BytesOf(S) \in Nat
  <2>1. S \cap Linked \in SUBSET Linked /\ IsFiniteSet(S \cap Linked)
    BY <1>2, FS_Subset
  <2>2. [o \in S \cap Linked |-> kind[o]] \in [S \cap Linked -> Kind]
    BY DEF HeapInv, Linkage
  <2>. QED
    BY <2>1, <2>2, WeightIsSize DEF BytesOf
<1>. QED
  BY <1>3

(* The counters are numbers, and during a collection vm->allocated is the  *)
(* bytes of the objects that can be reached, of which the sweep frees none.*)
Counted ==
    /\ allocated \in Nat /\ nextGC \in Nat
    /\ (Running /\ ~tainted) => allocated = BytesOf(Reachable)

CountInv == HeapInv /\ Counted

LEMMA ChargeCounts ==
    ASSUME HeapInv, Counted, NEW bytes \in Nat, NEW outer, Charge(bytes, outer)
    PROVE  allocated' \in Nat
<1>1. allocated + bytes \in Nat
  BY DEF Counted
<1>2. BytesOf(Reach(marked)) \in Nat
  BY LinkedIsFinite
<1>. QED
  BY <1>1, <1>2, Zenon DEF Charge, StartRun

(* The mark phase counts what it marks.                                    *)
LEMMA MarkPhaseCounts ==
    ASSUME HeapInv, runs = <<>>, StartRun(<<>>), UNCHANGED heapVars, UNCHANGED vmVars,
           ~tainted'
    PROVE  allocated' = BytesOf(Reachable)'
<1>1. allocated' = BytesOf(Reach(marked)) /\ ~tainted
  BY Zenon DEF StartRun
<1>2. Reach(marked) = Reachable
  BY <1>1, QuietFacts DEF Running, Quiet, Reachable
<1>3. Linked' = Linked /\ Reachable' = Reachable /\ kind' = kind
  BY DEF Linked, Reachable, Reach, Closed, RootSet, Retained, heapVars, vmVars
<1>. QED
  BY <1>1, <1>2, <1>3 DEF BytesOf

LEMMA ElementOfPlan ==
    ASSUME NEW S, NEW p \in [Kind -> Seq(S)], NEW k \in Kind,
           NEW n \in Nat \ {0}, n <= Len(p[k])
    PROVE  p[k][n] \in S
<1>1. p[k] \in Seq(S) /\ n \in 1 .. Len(p[k])
  OBVIOUS
<1>. QED
  BY <1>1, ElementOfSeq

LEMMA NextCounts ==
    ASSUME CountInv, [Next]_vars
    PROVE  Counted'
<1>0. HeapInv /\ allocated \in Nat /\ nextGC \in Nat /\ Counted
  BY DEF CountInv, Counted
<1>1. CASE Ask
  <2>1. /\ runs = <<>> /\ Charge(Step.bytes, <<>>)
        /\ UNCHANGED heapVars /\ UNCHANGED vmVars /\ nextGC' = nextGC
    BY <1>1 DEF Ask, Constructing, Running
  <2>2. Step.bytes \in Nat
    <3>1. /\ call.kind \in Kind /\ call.step \in Nat \ {0} /\ call.step <= Len(Plan[call.kind])
      BY <1>0, <1>1 DEF Ask, Constructing, HeapInv, ShapeOK
    <3>2. Plan \in [Kind -> Seq([bytes : Nat, makes : Kind \cup {NULL}])]
      BY HeapConstants
    <3>3. Step \in [bytes : Nat, makes : Kind \cup {NULL}]
      BY <3>1, <3>2, ElementOfPlan, Zenon DEF Step
    <3>. QED
      BY <3>3
  <2>3. allocated' \in Nat
    BY <1>0, <2>1, <2>2, ChargeCounts
  <2>4. ASSUME Running', ~tainted' PROVE allocated' = BytesOf(Reachable)'
    <3>1. StartRun(<<>>)
      BY <2>1, <2>4, Zenon DEF Charge, Running
    <3>. QED
      BY <1>0, <2>1, <2>4, <3>1, MarkPhaseCounts
  <2>. QED
    BY <1>0, <2>1, <2>3, <2>4 DEF Counted
<1>2. CASE Collect
  <2>1. /\ runs = <<>> /\ StartRun(<<>>)
        /\ UNCHANGED heapVars /\ UNCHANGED vmVars /\ nextGC' = nextGC
    BY <1>2 DEF Collect, Idle, Running
  <2>2. allocated' \in Nat
    <3>1. BytesOf(Reach(marked)) \in Nat
      BY <1>0, LinkedIsFinite
    <3>. QED
      BY <2>1, <3>1, Zenon DEF StartRun
  <2>3. ASSUME ~tainted' PROVE allocated' = BytesOf(Reachable)'
    BY <1>0, <2>1, <2>3, MarkPhaseCounts
  <2>. QED
    BY <1>0, <2>1, <2>2, <2>3 DEF Counted
<1>3. CASE SweepFree
  <2>. DEFINE top == [Top EXCEPT !.frees = @ - 1,
                                 !.dead = IF Top.frees = 1 THEN NULL ELSE @]
              outer == [runs EXCEPT ![Len(runs)] = top]
  <2>1. /\ Running /\ Charge(0, outer) /\ nextGC' = nextGC
        /\ list' = list /\ kind' = kind /\ refs' = refs /\ root' = root /\ gcStack' = gcStack
    BY <1>3 DEF SweepFree, SetTop, heapVars, vmVars
  <2>2. outer # <<>>
    <3>1. DOMAIN outer = DOMAIN runs /\ Len(runs) \in Nat /\ runs \in Seq(Activation) /\ runs # <<>>
      BY <1>0, <2>1 DEF Running, HeapInv, ShapeOK
    <3>. HIDE DEF outer
    <3>. QED
      BY <3>1
  <2>. HIDE DEF outer
  <2>3. allocated' \in Nat
    BY <1>0, <2>1, ChargeCounts
  <2>4. ASSUME ~tainted' PROVE allocated' = BytesOf(Reachable)'
    <3>1. allocated' = allocated + 0 /\ ~tainted
      BY <2>1, <2>2, <2>4, Zenon DEF Charge, StartRun
    <3>2. allocated' = BytesOf(Reachable)
      BY <1>0, <2>1, <3>1 DEF Counted
    <3>3. Linked' = Linked /\ Reachable' = Reachable
      BY <2>1 DEF Linked, Reachable, Reach, Closed, RootSet, Retained
    <3>. QED
      BY <2>1, <3>2, <3>3 DEF BytesOf
  <2>. QED
    BY <1>0, <2>1, <2>3, <2>4 DEF Counted
<1>4. CASE SweepUnlink
  <2>1. allocated' = allocated /\ nextGC' = nextGC /\ Running /\ tainted' = tainted
    BY <1>4 DEF SweepUnlink, Sweeping
  <2>2. ASSUME ~tainted PROVE BytesOf(Reachable)' = BytesOf(Reachable)
    <3>1. Linked' = Linked \ {Target} /\ Target \notin Reachable /\ Reachable' = Reachable
      BY <1>0, <1>4, <2>2, SweepUnlinkInv
    <3>2. (Reachable \cap Linked)' = Reachable \cap Linked
      BY <3>1
    <3>3. kind' = [kind EXCEPT ![Target] = NULL]
      BY <1>4 DEF SweepUnlink
    <3>4. \A o \in Reachable \cap Linked : kind'[o] = kind[o]
      BY <3>1, <3>3
    <3>5. [o \in (Reachable \cap Linked)' |-> kind'[o]] = [o \in Reachable \cap Linked |-> kind[o]]
      BY <3>2, <3>4
    <3>. QED
      BY <3>5 DEF BytesOf
  <2>. QED
    BY <1>0, <2>1, <2>2 DEF Counted
<1>5. CASE SweepDone
  <2>1. allocated' = allocated /\ nextGC' = 2 * allocated /\ tainted' = tainted /\ runs' = Front(runs)
        /\ list' = list /\ kind' = kind /\ refs' = refs /\ root' = root /\ gcStack' = gcStack /\ Running
    BY <1>5 DEF SweepDone, Sweeping, heapVars, vmVars
  <2>2. Linked' = Linked /\ Reachable' = Reachable
    BY <2>1 DEF Linked, Reachable, Reach, Closed, RootSet, Retained
  <2>3. BytesOf(Reachable)' = BytesOf(Reachable)
    BY <2>1, <2>2 DEF BytesOf
  <2>. QED
    BY <1>0, <2>1, <2>3 DEF Counted
<1>6. ASSUME allocated' = allocated, nextGC' = nextGC, runs' = runs \/ Running, tainted' = tainted,
             kind' = kind, list' = list, refs' = refs, root' = root, gcStack' = gcStack
      PROVE  Counted'
  <2>1. Linked' = Linked /\ Reachable' = Reachable
    BY <1>6 DEF Linked, Reachable, Reach, Closed, RootSet, Retained
  <2>. QED
    BY <1>0, <1>6, <2>1 DEF Counted, Running, BytesOf
<1>7. ASSUME allocated' = allocated, nextGC' = nextGC, ~Running, runs' = runs
      PROVE  Counted'
  BY <1>0, <1>7 DEF Counted, Running
<1>8. CASE SweepKeep \/ SweepDangling \/ UNCHANGED vars \/ Undefined
  BY <1>6, <1>8, Zenon
  DEF SweepKeep, SweepDangling, Sweeping, Undefined, vars, heapVars, vmVars
<1>9. ASSUME NEW k \in Kind, NEW arg \in Ref \cup {NULL}, Begin(k, arg) PROVE Counted'
  BY <1>7, <1>9, Zenon DEF Begin, Idle
<1>10. ASSUME NEW o \in Ref, MakeObject(o) \/ Retain(o) PROVE Counted'
  BY <1>7, <1>10, Zenon DEF MakeObject, Retain, Granted, Constructing, Idle
<1>11. CASE StoreArray \/ WriteFreed \/ Release
  BY <1>7, <1>11, Zenon DEF StoreArray, WriteFreed, Release, Granted, Constructing, Idle
<1>12. ASSUME NEW o \in Ref, NEW t \in Ref, Link(o, t) \/ Unlink(o, t) PROVE Counted'
  BY <1>7, <1>12, Zenon DEF Link, Unlink, Idle
<1>13. ASSUME NEW n \in Root, NEW t \in Ref \cup {NULL}, SetRoot(n, t) PROVE Counted'
  BY <1>7, <1>13, Zenon DEF SetRoot, Idle
<1>. QED
  BY <1>1, <1>2, <1>3, <1>4, <1>5, <1>8, <1>9, <1>10, <1>11, <1>12, <1>13, Zenon DEF Next

THEOREM CountInvariance == Spec => []CountInv
<1>1. Init => CountInv
  BY InitInv, HeapConstants DEF Init, CountInv, Counted, Running
<1>2. CountInv /\ [Next]_vars => CountInv'
  BY NextInv, NextCounts DEF CountInv
<1>. QED
  BY <1>1, <1>2, PTL DEF Spec

(* The variables hold values of their types, vm->allocated and the next    *)
(* threshold included, which a collection computes as a sum.               *)
THEOREM TypeCorrect == Spec => []TypeOK
<1>1. CountInv => TypeOK
  BY DEF CountInv, Counted, HeapInv, TypeOK
<1>. QED
  BY <1>1, CountInvariance, PTL

(* A collection leaves in vm->allocated the bytes of the objects that are  *)
(* left, whatever it freed on the way (gc.c, orbit_gcRun and mark).        *)
THEOREM CountsAreExact == Spec => CountIsExact
<1>1. ASSUME CountInv, [Next]_vars, Running, ~Running', ~tainted
      PROVE  allocated' = BytesOf(Linked)'
  <2>1. HeapInv /\ SweepDone
    BY <1>1, OnlySweepDoneEnds DEF CountInv
  <2>2. Linked' = Reachable' /\ allocated = BytesOf(Reachable)
    BY <1>1, <2>1, SweepDoneInv DEF CountInv, Counted
  <2>3. /\ allocated' = allocated
        /\ list' = list /\ kind' = kind /\ refs' = refs /\ root' = root /\ gcStack' = gcStack
    BY <2>1 DEF SweepDone, heapVars, vmVars
  <2>4. Linked' = Linked /\ Reachable' = Reachable
    BY <2>3 DEF Linked, Reachable, Reach, Closed, RootSet, Retained
  <2>. QED
    BY <2>2, <2>3, <2>4 DEF BytesOf
<1>. QED
  BY <1>1, CountInvariance, PTL DEF Spec, CountIsExact
=============================================================================
