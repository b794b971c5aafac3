------------------------------- MODULE GCHeap -------------------------------
(***************************************************************************)
(* The garbage-collected heap of the run-time: the allocator               *)
(* (rtutils.c), the mark-and-sweep collector (gc.c), the retain stack      *)
(* (vm.h) and the constructors of heap objects (value.c).                  *)
(*                                                                         *)
(* orbit_allocator may start a collection from any allocation, the ones in *)
(* the middle of a constructor included, and from any deallocation, the    *)
(* ones of a running sweep included.  So a constructor is a sequence of    *)
(* allocator calls, a sweep is a sequence of steps, and the activations of *)
(* orbit_gcRun form a stack.                                               *)
(*                                                                         *)
(* An object is an address with the pointers the mark functions follow     *)
(* from it; which of its fields holds each is abstracted.                  *)
(***************************************************************************)
EXTENDS Integers, Sequences, SequencesExt, FiniteSetsExt

CONSTANTS
    Ref,         \* addresses of heap objects
    NULL,        \* the C null pointer
    Root,        \* vm->task, vm->dispatchTable, vm->classes, vm->modules
    Kind,        \* the object kinds in use
    Plan,        \* for each kind, the allocator calls of its constructor
    Takes,       \* the kinds whose constructor takes another object
    Holder,      \* the kinds whose pointers the program changes afterwards
    Bytes,       \* for each kind, what its mark function adds to allocated
    Frees,       \* for each kind, how many DEALLOCs orbit_gcDeallocate makes
    FirstGC,     \* ORBIT_FIRST_GC
    StackSize    \* ORBIT_GCSTACK_SIZE

ASSUME HeapConstants ==
    /\ NULL \notin Ref
    /\ NULL \notin Kind
    /\ Takes \subseteq Kind
    /\ Holder \subseteq Kind
    /\ Plan \in [Kind -> Seq([bytes : Nat, makes : Kind \cup {NULL}])]
    /\ \A k \in Kind : Len(Plan[k]) > 0 /\ Plan[k][1].makes = k
    /\ Bytes \in [Kind -> Nat]
    /\ Frees \in [Kind -> Nat \ {0}]
    /\ FirstGC \in Nat
    /\ StackSize \in Nat \ {0}

VARIABLES
    list,        \* vm->gcHead and the next pointers, newest object first
    kind,        \* object->kind
    refs,        \* the objects an object points to
    marked,      \* the objects with object->mark set
    root,        \* the four pointers of the VM the collector starts from
    gcStack,     \* vm->gcStack, up to vm->gcStackSize
    allocated,   \* vm->allocated
    nextGC,      \* vm->nextGC
    runs,        \* the activations of orbit_gcRun, innermost last
    call,        \* the constructor being executed, if any
    local,       \* the object the last constructor returned to its caller
    fault,       \* freed memory was used
    tainted      \* a collection started in one of the two situations below

heapVars == <<list, kind, refs>>
vmVars   == <<root, gcStack>>
vars == <<list, kind, refs, marked, root, gcStack, allocated, nextGC, runs,
          call, local, fault, tainted>>
-----------------------------------------------------------------------------
NoCall == [kind |-> NULL]
Linked == {list[i] : i \in 1 .. Len(list)}
Retained == {gcStack[i] : i \in 1 .. Len(gcStack)}

(* The objects of the C locals of a running constructor.                   *)
Held ==
    IF call = NoCall THEN {}
    ELSE {call.built[i] : i \in 1 .. Len(call.built)} \cup ({call.arg} \ {NULL})

(* What orbit_gcRun marks from.                                            *)
RootSet == ({root[n] : n \in Root} \ {NULL}) \cup Retained

(* The objects orbit_gcMarkObject marks, started on the roots with the     *)
(* objects of M already marked: it returns at once from those and follows  *)
(* every pointer from the others.                                          *)
Closed(S, M) ==
    /\ RootSet \ M \subseteq S
    /\ \A o \in S : refs[o] \ M \subseteq S
Reach(M) == {o \in Ref : \A S \in SUBSET Ref : Closed(S, M) => o \in S}
Reachable == Reach({})

(* What the mark functions add to vm->allocated for objects of these kinds.*)
Weight(kinds) == MapThenSumSet(LAMBDA o : Bytes[kinds[o]], DOMAIN kinds)
BytesOf(S) == Weight([o \in S \cap Linked |-> kind[o]])

Running == runs # <<>>
Top == runs[Len(runs)]
SetTop(r) == [runs EXCEPT ![Len(runs)] = r]
-----------------------------------------------------------------------------
Init ==
    /\ list = <<>>
    /\ kind = [o \in Ref |-> NULL]
    /\ refs = [o \in Ref |-> {}]
    /\ marked = {}
    /\ root = [n \in Root |-> NULL]
    /\ gcStack = <<>>
    /\ allocated = 0
    /\ nextGC = FirstGC
    /\ runs = <<>>
    /\ call = NoCall
    /\ local = NULL
    /\ fault = FALSE
    /\ tainted = FALSE

(* Mistake: the objects that marked objects point to are not marked.       *)
StartRunShallow(outer) ==
    /\ marked' = marked \cup RootSet
    /\ allocated' = BytesOf(RootSet \ marked)
    /\ runs' = Append(outer, [at |-> 0, dead |-> NULL, frees |-> 0])
    /\ fault' = ~(RootSet \subseteq Linked)
    /\ tainted' = (tainted \/ outer # <<>> \/ ~(Held \subseteq Reachable))

(* Mistake: vm->allocated is not reset before the live bytes are counted.  *)
StartRunAddsUp(outer) ==
    /\ marked' = marked \cup Reach(marked)
    /\ allocated' = allocated + BytesOf(Reach(marked))
    /\ runs' = Append(outer, [at |-> 0, dead |-> NULL, frees |-> 0])
    /\ fault' = ~(Reach(marked) \subseteq Linked)
    /\ tainted' = (tainted \/ outer # <<>> \/ ~(Held \subseteq Reachable))

(* The first half of orbit_gcRun, up to the sweep, reached with outer as   *)
(* the activations below it.  Marking a freed object uses freed memory.    *)
StartRun(outer) ==
    /\ marked' = marked \cup Reach(marked)
    /\ allocated' = BytesOf(Reach(marked))
    /\ runs' = Append(outer, [at |-> 0, dead |-> NULL, frees |-> 0])
    /\ fault' = ~(Reach(marked) \subseteq Linked)
    /\ tainted' = (tainted \/ outer # <<>> \/ ~(Held \subseteq Reachable))

(* orbit_allocator, up to the point where it gives or takes back memory.   *)
Charge(bytes, outer) ==
    IF allocated + bytes > nextGC
    THEN StartRun(outer)
    ELSE /\ allocated' = allocated + bytes
         /\ runs' = outer
         /\ UNCHANGED <<marked, fault, tainted>>
-----------------------------------------------------------------------------
(* The sweep.  In an activation, at is the number of objects before the    *)
(* link obj points at; dead is the object being deallocated and frees the  *)
(* DEALLOCs left for it.                                                   *)
Sweeping == Running /\ ~fault /\ Top.dead = NULL /\ Top.at # -1
Target == list[Top.at + 1]

(* Mistake: the mark of a survivor is not cleared.                         *)
SweepKeepsMark ==
    /\ Sweeping
    /\ Top.at < Len(list)
    /\ Target \in marked
    /\ runs' = SetTop([Top EXCEPT !.at = @ + 1])
    /\ UNCHANGED <<heapVars, vmVars, marked, allocated, nextGC, call, local, fault, tainted>>

SweepKeep ==
    /\ Sweeping
    /\ Top.at < Len(list)
    /\ Target \in marked
    /\ marked' = marked \ {Target}
    /\ runs' = SetTop([Top EXCEPT !.at = @ + 1])
    /\ UNCHANGED <<heapVars, vmVars, allocated, nextGC, call, local, fault, tainted>>

(* An enclosing activation whose obj is a link of the unlinked object is   *)
(* left with a dangling pointer; one further down the list is not moved.   *)
Shifted(at, i) ==
    IF at < i THEN at ELSE IF at = i THEN -1 ELSE at - 1

(* Mistake: the object is deallocated and stays in the list.               *)
SweepLeavesLink ==
    /\ Sweeping
    /\ Top.at < Len(list)
    /\ Target \notin marked
    /\ runs' = SetTop([Top EXCEPT !.dead = Target, !.frees = Frees[kind[Target]]])
    /\ UNCHANGED <<heapVars, vmVars, marked, allocated, nextGC, call, local, fault, tainted>>

(* Mistake: the link is followed after an unlinking too.                   *)
SweepSkips ==
    /\ Sweeping
    /\ Top.at < Len(list)
    /\ Target \notin marked
    /\ list' = RemoveAt(list, Top.at + 1)
    /\ kind' = [kind EXCEPT ![Target] = NULL]
    /\ refs' = [refs EXCEPT ![Target] = {}]
    /\ runs' = SetTop([at |-> IF Top.at + 1 < Len(list) THEN Top.at + 1 ELSE Top.at,
                       dead |-> Target, frees |-> Frees[kind[Target]]])
    /\ UNCHANGED <<vmVars, marked, allocated, nextGC, call, local, fault, tainted>>

SweepUnlink ==
    /\ Sweeping
    /\ Top.at < Len(list)
    /\ Target \notin marked
    /\ list' = RemoveAt(list, Top.at + 1)
    /\ kind' = [kind EXCEPT ![Target] = NULL]
    /\ refs' = [refs EXCEPT ![Target] = {}]
    /\ runs' = [n \in 1 .. Len(runs) |->
                  IF n = Len(runs)
                  THEN [Top EXCEPT !.dead = Target, !.frees = Frees[kind[Target]]]
                  ELSE [runs[n] EXCEPT !.at = Shifted(@, Top.at + 1)]]
    /\ UNCHANGED <<vmVars, marked, allocated, nextGC, call, local, fault, tainted>>

(* One DEALLOC of orbit_gcDeallocate: an allocator call of 0 bytes.        *)
SweepFree ==
    /\ Running /\ ~fault
    /\ Top.dead # NULL
    /\ Charge(0, SetTop([Top EXCEPT !.frees = @ - 1,
                                    !.dead = IF Top.frees = 1 THEN NULL ELSE @]))
    /\ UNCHANGED <<heapVars, vmVars, nextGC, call, local>>

SweepDone ==
    /\ Sweeping
    /\ Top.at = Len(list)
    /\ nextGC' = 2 * allocated
    /\ runs' = Front(runs)
    /\ UNCHANGED <<heapVars, vmVars, marked, allocated, call, local, fault, tainted>>

(* The loop reads its link through a pointer into a freed object.          *)
SweepDangling ==
    /\ Running /\ ~fault
    /\ Top.dead = NULL /\ Top.at = -1
    /\ fault' = TRUE
    /\ UNCHANGED <<heapVars, vmVars, marked, allocated, nextGC, runs, call, local, tainted>>

Collector == SweepKeep \/ SweepUnlink \/ SweepFree \/ SweepDone \/ SweepDangling
-----------------------------------------------------------------------------
(* The constructors.  The object is linked by orbit_objectInit as soon as  *)
(* its own memory is there; arrays and inner objects follow.               *)
Idle == call = NoCall /\ ~Running /\ ~fault
Constructing == call # NoCall /\ ~Running /\ ~fault
Accessible == Reachable \cup ({local} \ {NULL})
Fresh == {o \in Ref : o \notin Linked \cup Held /\ \A p \in Linked : o \notin refs[p]}
Objects(k) == Cardinality({n \in 1 .. Len(Plan[k]) : Plan[k][n].makes # NULL})

(* The memory is finite: a constructor starts with room for its objects.   *)
Begin(k, arg) ==
    /\ Idle
    /\ arg \in IF k \in Takes THEN Accessible ELSE {NULL}
    /\ Cardinality(Fresh) >= Objects(k)
    /\ call' = [kind |-> k, arg |-> arg, built |-> <<>>, step |-> 1, got |-> FALSE]
    /\ local' = NULL
    /\ UNCHANGED <<heapVars, vmVars, marked, allocated, nextGC, runs, fault, tainted>>

Step == Plan[call.kind][call.step]

(* The next allocator call of the constructor.                             *)
Ask ==
    /\ Constructing
    /\ ~call.got
    /\ Charge(Step.bytes, runs)
    /\ call' = [call EXCEPT !.got = TRUE]
    /\ UNCHANGED <<heapVars, vmVars, nextGC, local>>

(* What follows the call, with b the objects built by then.                *)
Advance(b, r) ==
    IF call.step < Len(Plan[call.kind])
    THEN /\ call' = [call EXCEPT !.built = b, !.step = @ + 1, !.got = FALSE]
         /\ refs' = r
         /\ UNCHANGED local
    ELSE /\ call' = NoCall
         /\ local' = b[1]
         /\ refs' = [r EXCEPT ![b[1]] = @ \cup {b[i] : i \in 2 .. Len(b)}]

Granted == Constructing /\ call.got /\ {call.built[i] : i \in 1 .. Len(call.built)} \subseteq Linked

(* orbit_objectInit, and the fields set from the argument.                 *)
MakeObject(o) ==
    /\ Granted
    /\ Step.makes # NULL
    /\ o \in Fresh
    /\ list' = <<o>> \o list
    /\ kind' = [kind EXCEPT ![o] = Step.makes]
    /\ Advance(Append(call.built, o),
               [refs EXCEPT ![o] = IF call.built = <<>> THEN {call.arg} \ {NULL} ELSE {}])
    /\ UNCHANGED <<vmVars, marked, allocated, nextGC, runs, fault, tainted>>

StoreArray ==
    /\ Granted
    /\ Step.makes = NULL
    /\ Advance(call.built, refs)
    /\ UNCHANGED <<list, kind, vmVars, marked, allocated, nextGC, runs, fault, tainted>>

(* The collection started by the last allocation freed the object under    *)
(* construction, and the constructor goes on writing to it.                *)
WriteFreed ==
    /\ Constructing
    /\ call.got
    /\ ~Granted
    /\ fault' = TRUE
    /\ UNCHANGED <<heapVars, vmVars, marked, allocated, nextGC, runs, call, local, tainted>>
-----------------------------------------------------------------------------
(* What the rest of the program does with objects it can get at.           *)
Link(o, t) ==
    /\ Idle
    /\ o \in Accessible /\ kind[o] \in Holder
    /\ t \in Accessible \ refs[o]
    /\ refs' = [refs EXCEPT ![o] = @ \cup {t}]
    /\ UNCHANGED <<list, kind, vmVars, marked, allocated, nextGC, runs, call, local, fault, tainted>>

Unlink(o, t) ==
    /\ Idle
    /\ o \in Accessible /\ kind[o] \in Holder
    /\ t \in refs[o]
    /\ refs' = [refs EXCEPT ![o] = @ \ {t}]
    /\ UNCHANGED <<list, kind, vmVars, marked, allocated, nextGC, runs, call, local, fault, tainted>>

SetRoot(n, t) ==
    /\ Idle
    /\ t \in Accessible \cup {NULL}
    /\ root' = [root EXCEPT ![n] = t]
    /\ UNCHANGED <<heapVars, gcStack, marked, allocated, nextGC, runs, call, local, fault, tainted>>

Retain(o) ==
    /\ Idle
    /\ o \in Accessible
    /\ Len(gcStack) < StackSize - 1
    /\ gcStack' = Append(gcStack, o)
    /\ UNCHANGED <<heapVars, root, marked, allocated, nextGC, runs, call, local, fault, tainted>>

Release ==
    /\ Idle
    /\ gcStack # <<>>
    /\ gcStack' = Front(gcStack)
    /\ UNCHANGED <<heapVars, root, marked, allocated, nextGC, runs, call, local, fault, tainted>>

(* A call of orbit_gcRun, as orbit_vmDealloc and the tests make it.        *)
Collect ==
    /\ Idle
    /\ local' = NULL
    /\ StartRun(<<>>)
    /\ UNCHANGED <<heapVars, vmVars, nextGC, call>>

(* Anything may follow a use of freed memory: nothing more is said.        *)
Undefined == fault /\ UNCHANGED vars

Next ==
    \/ \E k \in Kind, arg \in Ref \cup {NULL} : Begin(k, arg)
    \/ Ask
    \/ \E o \in Ref : MakeObject(o)
    \/ StoreArray
    \/ WriteFreed
    \/ \E o, t \in Ref : Link(o, t) \/ Unlink(o, t)
    \/ \E n \in Root, t \in Ref \cup {NULL} : SetRoot(n, t)
    \/ \E o \in Ref : Retain(o)
    \/ Release
    \/ Collect
    \/ SweepKeep
    \/ SweepUnlink
    \/ SweepFree
    \/ SweepDone
    \/ SweepDangling
    \/ Undefined

Spec == Init /\ [][Next]_vars

(* The collector runs in the thread of its caller: once started it goes on.*)
FairSpec == Spec /\ WF_vars(Collector)
-----------------------------------------------------------------------------
Activation == [at : Nat \cup {-1}, dead : Ref \cup {NULL}, frees : Nat]

ShapeOK ==
    /\ list \in Seq(Ref)
    /\ kind \in [Ref -> Kind \cup {NULL}]
    /\ refs \in [Ref -> SUBSET Ref]
    /\ marked \subseteq Ref
    /\ root \in [Root -> Ref \cup {NULL}]
    /\ gcStack \in Seq(Ref) /\ Len(gcStack) < StackSize
    /\ runs \in Seq(Activation)
    /\ \/ call = NoCall
       \/ /\ call \in [kind : Kind, arg : Ref \cup {NULL}, built : Seq(Ref),
                       step : Nat \ {0}, got : BOOLEAN]
          /\ call.step <= Len(Plan[call.kind])
    /\ local \in Ref \cup {NULL}
    /\ fault \in BOOLEAN
    /\ tainted \in BOOLEAN

TypeOK == ShapeOK /\ allocated \in Nat /\ nextGC \in Nat

(* Nothing the program can still get at is freed: what the roots, the      *)
(* retain stack, a running constructor or its caller hold is in the list.  *)
(* Neither a collection from inside a sweep nor one that meets an object   *)
(* only a constructor holds keeps this promise: see MCGCHeapReentry.cfg    *)
(* and MCGCHeapUnrooted.cfg.                                               *)
ReachableIsAllocated ==
    ~tainted => Reachable \cup Held \cup ({local} \ {NULL}) \subseteq Linked

(* Every mark is cleared by the sweep that follows it: the next collection *)
(* would take a marked object for one whose pointers were already followed.*)
MarksCleared == (~Running /\ ~tainted) => marked = {}

(* A collection that ends leaves exactly the reachable objects allocated.  *)
SweepIsExact ==
    [][Running /\ ~Running' /\ ~tainted => Linked' = Reachable']_vars

(* It leaves their bytes in vm->allocated, from which the next threshold   *)
(* is computed.                                                            *)
CountIsExact ==
    [][Running /\ ~Running' /\ ~tainted => allocated' = BytesOf(Linked)']_vars

(* gc.c on the roots: "mark everything used by the current execution       *)
(* context".  When the sweep can start, all of it is marked.               *)
EverythingUsedIsMarked ==
    [][Len(runs') > Len(runs) => Reachable \subseteq marked']_vars

(* value.h: "Creates a new hash map object in [vm]", and so for the other  *)
(* constructors.  What they build is in the heap while they build it.      *)
NewObjectsAreInTheHeap ==
    call # NoCall => {call.built[i] : i \in 1 .. Len(call.built)} \subseteq Linked

(* A collection ends, however large the heap and from wherever it started. *)
CollectionEnds == Running ~> (~Running \/ fault)
=============================================================================
