----------------------------- MODULE TaskProofs -----------------------------
(***************************************************************************)
(* For every set of functions and values, every place the allocator        *)
(* chooses and every capacity: the pointers of a task stay inside its      *)
(* arrays, the frames lie one after the other, and the task implements     *)
(* the stack of activations of module Activations.                         *)
(***************************************************************************)
EXTENDS Task, SequenceTheorems, TLAPS

Index == 1 .. Len(frames)
Base(n) == frames[n].stackBase
ArityOf(n) == Arity[frames[n].fn]

(* The frames lie in the stack in the order of the calls, each with its    *)
(* parameters and locals below the next, and each keeps the room that was  *)
(* tested when it was pushed, whatever is called above it.                 *)
FramesLieInOrder ==
    /\ frames # <<>> => Base(1) = stack
    /\ \A m, n \in Index : m <= n => Base(m) <= Base(n)
    /\ \A n \in Index : stack <= Base(n)
    /\ \A n \in Index : Base(n) + ArityOf(n) + LocalCount[frames[n].fn] <= End(n)

RoomIsKept ==
    /\ \A n \in Index : Base(n) + ArityOf(n) + StackEffect[frames[n].fn] <= stack + stackCapacity
    /\ stack <= sp /\ sp <= stack + stackCapacity
    /\ Len(frames) <= frameCapacity

TopIsRunning ==
    Running =>
        /\ frames # <<>>
        /\ frame = FrameAt(Len(frames))
        /\ locals = Base(Len(frames))
        /\ fn = frames[Len(frames)].fn

TaskInv == TypeOK /\ FramesLieInOrder /\ RoomIsKept /\ TopIsRunning
-----------------------------------------------------------------------------
LEMMA Constants ==
    ASSUME NEW f \in Native
    PROVE  /\ Arity[f] \in Nat /\ LocalCount[f] \in Nat
           /\ Depth[f] \in Nat /\ StackEffect[f] \in Nat /\ StackEffect[f] <= 255
           /\ LocalCount[f] <= Depth[f] /\ Depth[f] <= StackEffect[f]
BY TaskConstants, EffectsFit DEF Function

LEMMA FramesAreTyped ==
    ASSUME TypeOK, NEW n \in Index
    PROVE  /\ frames[n] \in FrameType /\ Base(n) \in Nat
           /\ frames[n].fn \in Native /\ frames[n].ip \in Loc
<1>1. frames[n] \in FrameType  BY DEF TypeOK, Index
<1> QED  BY <1>1 DEF FrameType, Base

(* A frame notes another address: the rest of it, and the others, stay.    *)
LEMMA SetIp ==
    ASSUME NEW s \in Seq(FrameType), NEW n \in 1 .. Len(s), NEW l \in Loc
    PROVE  LET t == [s EXCEPT ![n].ip = l]
           IN  /\ t \in Seq(FrameType) /\ Len(t) = Len(s)
               /\ \A m \in 1 .. Len(s) : /\ t[m].fn = s[m].fn
                                         /\ t[m].stackBase = s[m].stackBase
                                         /\ t[m].ip = IF m = n THEN l ELSE s[m].ip
<1> DEFINE e == [s[n] EXCEPT !.ip = l]
           t == [s EXCEPT ![n].ip = l]
<1>1. t = [s EXCEPT ![n] = e]  OBVIOUS
<1>2. s[n] \in FrameType  BY ElementOfSeq
<1>3. e \in FrameType /\ e.fn = s[n].fn /\ e.ip = l /\ e.stackBase = s[n].stackBase
  BY <1>2 DEF FrameType
<1> HIDE DEF e
<1>4. /\ t \in Seq(FrameType) /\ Len(t) = Len(s)
      /\ \A m \in 1 .. Len(s) : t[m] = IF m = n THEN e ELSE s[m]
  BY <1>1, <1>3, ExceptSeq
<1> QED  BY <1>3, <1>4

LEMMA OneResult ==
    ASSUME NEW S, NEW r \in SeqOf(S, 1)
    PROVE  r = <<>> \/ \E v \in S : r = <<v>>
<1>1. PICK m \in 0 .. 1 : r \in [1 .. m -> S]  BY DEF SeqOf
<1>2. CASE m = 0
  BY <1>1, <1>2
<1>3. CASE m = 1
  <2>1. r \in [1 .. 1 -> S] /\ r[1] \in S  BY <1>1, <1>3
  <2>2. r = <<r[1]>>
    BY <2>1
  <2> QED  BY <2>1, <2>2
<1> QED  BY <1>2, <1>3

(* Doubling reaches what a call asks for, and never shrinks the stack.     *)
LEMMA EnoughIsEnough ==
    ASSUME NEW c \in Nat \ {0}, NEW r \in Nat, r <= c + 255
    PROVE  /\ Enough(c, r) \in Nat
           /\ c <= Enough(c, r) /\ r <= Enough(c, r)
           /\ r <= c => Enough(c, r) = c
<1> DEFINE S == {c * p : p \in Powers}
           Good(x) == x >= r /\ (x = c \/ x < 2 * r)
<1>1. /\ c \in S /\ 2 * c \in S /\ 4 * c \in S /\ 8 * c \in S /\ 16 * c \in S
      /\ 32 * c \in S /\ 64 * c \in S /\ 128 * c \in S /\ 256 * c \in S
  BY DEF Powers
<1>2. \E x \in S : Good(x)
  <2> HIDE DEF S
  <2> QED  BY <1>1
<1>3. Enough(c, r) \in S /\ Good(Enough(c, r))
  BY <1>2 DEF Enough
<1>4. \A x \in S : x \in Nat /\ x >= c /\ (x = c \/ x >= 2 * c)
  BY DEF Powers
<1> QED  BY <1>3, <1>4
-----------------------------------------------------------------------------
LEMMA InitInv == Init => TaskInv
<1> SUFFICES ASSUME Init PROVE TaskInv
  OBVIOUS
<1> USE TaskConstants, EffectsFit DEF Init
<1>1. Len(frames) = 1 /\ frames[1] = [fn |-> Main, ip |-> 0, stackBase |-> stack]
  OBVIOUS
<1>2. TypeOK
  <2>1. frames \in Seq(FrameType)  BY DEF FrameType, Loc
  <2>2. frame \in [block : Block, index : Nat \ {0}]  BY DEF FrameAt
  <2>3. mem \in [0 .. stackCapacity - 1 -> Content]  BY DEF Content
  <2>4. stack \in Nat /\ sp \in Nat  OBVIOUS
  <2>5. ip \in Loc  BY DEF Loc
  <2>6. stackCapacity \in FirstStack .. MaxStack /\ frameCapacity \in FirstFrames .. MaxFrames
    OBVIOUS
  <2> QED  BY <2>1, <2>2, <2>3, <2>4, <2>5, <2>6 DEF TypeOK
<1>3. Arity[Main] = 0 /\ LocalCount[Main] \in Nat /\ LocalCount[Main] <= FirstStack
      /\ StackEffect[Main] \in Nat /\ StackEffect[Main] <= FirstStack /\ stack \in Nat
  <2>1. Main \in Native /\ Arity[Main] = 0 /\ FirstStack \in Nat  OBVIOUS
  <2>2. stack \in Nat /\ StackEffect[Main] <= FirstStack  OBVIOUS
  <2> QED  BY <2>1, <2>2, Constants
<1>4. End(1) = sp  BY <1>1 DEF End
<1> QED
  BY <1>1, <1>2, <1>3, <1>4
  DEF TaskInv, FramesLieInOrder, RoomIsKept, TopIsRunning, Index, Base, ArityOf, Running

(* What the invariant says of the running activation.                      *)
LEMMA RunningFacts ==
    ASSUME TaskInv, Running
    PROVE  /\ Len(frames) \in Nat \ {0} /\ Len(frames) \in Index
           /\ fn \in Native /\ fn = frames[Len(frames)].fn
           /\ locals \in Nat /\ locals = Base(Len(frames))
           /\ frame = FrameAt(Len(frames)) /\ frame.index = Len(frames)
           /\ Arity[fn] \in Nat /\ LocalCount[fn] \in Nat
           /\ stack \in Nat /\ sp \in Nat /\ stackCapacity \in Nat \ {0}
           /\ stack <= locals /\ locals + Arity[fn] + LocalCount[fn] <= sp
           /\ locals + Arity[fn] + Depth[fn] <= stack + stackCapacity
           /\ sp <= stack + stackCapacity
           /\ ip \in Loc /\ CodeLength \in Nat
<1> USE DEF TaskInv
<1>1. Len(frames) \in Nat \ {0} /\ Len(frames) \in Index
  BY DEF TypeOK, TopIsRunning, Index
<1>2. fn \in Native /\ fn = frames[Len(frames)].fn /\ locals = Base(Len(frames))
      /\ frame = FrameAt(Len(frames))
  BY DEF TypeOK, TopIsRunning
<1>3. frame.index = Len(frames)  BY <1>2 DEF FrameAt
<1>4. stack \in Nat /\ sp \in Nat /\ stackCapacity \in Nat \ {0} /\ locals \in Nat /\ ip \in Loc
      /\ CodeLength \in Nat
  BY TaskConstants DEF TypeOK
<1>5. stack <= locals /\ locals + Arity[fn] + LocalCount[fn] <= sp
  BY <1>1, <1>2 DEF FramesLieInOrder, End, ArityOf
<1>6. locals + Arity[fn] + StackEffect[fn] <= stack + stackCapacity
  BY <1>1, <1>2 DEF RoomIsKept, ArityOf
<1>7. locals + Arity[fn] + Depth[fn] <= stack + stackCapacity
  <2>1. Arity[fn] \in Nat /\ Depth[fn] \in Nat /\ StackEffect[fn] \in Nat
        /\ Depth[fn] <= StackEffect[fn]
    BY <1>2, Constants
  <2> HIDE DEF TaskInv
  <2> QED  BY <1>4, <1>6, <2>1
<1> QED
  BY <1>1, <1>2, <1>3, <1>4, <1>5, <1>7, Constants DEF RoomIsKept

(* Its numbers alone.                                                      *)
LEMMA RunningRoom ==
    ASSUME TaskInv, Running
    PROVE  /\ locals \in Nat /\ Arity[fn] \in Nat /\ LocalCount[fn] \in Nat
           /\ stack \in Nat /\ sp \in Nat /\ stackCapacity \in Nat \ {0}
           /\ stack <= locals /\ locals + Arity[fn] + LocalCount[fn] <= sp
           /\ locals + Arity[fn] + Depth[fn] <= stack + stackCapacity
           /\ sp <= stack + stackCapacity
           /\ Depth[fn] \in Nat /\ LocalCount[fn] <= Depth[fn]
BY RunningFacts, Constants

(* An instruction that only computes leaves the frames where they are.     *)
LEMMA ComputingInv ==
    ASSUME TaskInv, Running, Computing, ip' \in Loc,
           mem' \in [0 .. stackCapacity - 1 -> Content],
           sp' \in Nat, locals + Arity[fn] + LocalCount[fn] <= sp',
           sp' <= stack + stackCapacity
    PROVE  TaskInv'
<1> USE DEF TaskInv, Computing
<1>1. TypeOK'
  BY DEF TypeOK
<1>2. Index' = Index /\ \A n \in Index : Base(n)' = Base(n) /\ ArityOf(n)' = ArityOf(n)
  BY DEF Index, Base, ArityOf
<1>3. \A n \in Index : End(n)' = IF n = Len(frames) THEN sp' ELSE End(n)
  BY DEF End
<1>4. FramesLieInOrder'
  <2>1. \A n \in Index : Base(n) + ArityOf(n) + LocalCount[frames[n].fn] <= End(n)'
    BY <1>3, RunningFacts DEF FramesLieInOrder, ArityOf
  <2>2. \A n \in Index : (Base(n) + ArityOf(n) + LocalCount[frames[n].fn] <= End(n))'
    BY <1>2, <2>1
  <2>3. frames' = frames /\ stack' = stack  OBVIOUS
  <2> QED  BY <1>2, <2>2, <2>3 DEF FramesLieInOrder, Base
<1>5. RoomIsKept'
  BY <1>2, RunningFacts DEF RoomIsKept
<1>6. TopIsRunning'
  BY DEF TopIsRunning, Running, FrameAt, Base
<1> QED  BY <1>1, <1>4, <1>5, <1>6

LEMMA AdvanceStays == ASSUME TaskInv, Running, Advance PROVE ip' \in Loc /\ ip + 1 \in Loc
BY RunningFacts DEF Advance, Loc

(* A write to a cell of the stack, a read from one.                        *)
LEMMA Cells ==
    ASSUME TypeOK, NEW p \in Nat, stack <= p, p < stack + stackCapacity
    PROVE  /\ At(p) \in Content
           /\ \A v \in Content : Write(p, v) \in [0 .. stackCapacity - 1 -> Content]
<1>1. p - stack \in 0 .. stackCapacity - 1
  BY TaskConstants DEF TypeOK
<1>2. mem \in [0 .. stackCapacity - 1 -> Content]  BY DEF TypeOK
<1> QED  BY <1>1, <1>2 DEF At, Write
-----------------------------------------------------------------------------
LEMMA LoadInv == ASSUME TaskInv, NEW v \in Value, Load(v) PROVE TaskInv'
<1>1. Running /\ HasRoom(1) /\ Advance /\ Computing /\ mem' = Write(sp, v) /\ sp' = sp + 1
  BY DEF Load
<1>2. v \in Content /\ TypeOK  BY DEF Content, TaskInv
<1>3. stack <= sp /\ sp + 1 <= stack + stackCapacity
      /\ locals + Arity[fn] + LocalCount[fn] <= sp + 1
  BY <1>1, RunningRoom DEF HasRoom
<1> QED  BY <1>1, <1>2, <1>3, Cells, AdvanceStays, ComputingInv, RunningRoom

(* The parameters and locals of the running activation are cells it has.   *)
LEMMA SlotsAreCells ==
    ASSUME TaskInv, Running, NEW i \in 0 .. Slots - 1
    PROVE  /\ locals + i \in Nat /\ stack <= locals + i /\ locals + i < sp
           /\ locals + i < stack + stackCapacity
BY RunningRoom DEF Slots

LEMMA LoadLocalInv == ASSUME TaskInv, LoadLocal PROVE TaskInv'
<1>1. Running /\ HasRoom(1) /\ Advance /\ Computing /\ sp' = sp + 1
  BY DEF LoadLocal
<1>2. PICK i \in 0 .. Slots - 1 : mem' = Write(sp, At(locals + i))  BY DEF LoadLocal
<1>3. TypeOK  BY DEF TaskInv
<1>4. At(locals + i) \in Content  BY <1>1, <1>3, SlotsAreCells, Cells
<1>5. stack <= sp /\ sp + 1 <= stack + stackCapacity
      /\ locals + Arity[fn] + LocalCount[fn] <= sp + 1
  BY <1>1, RunningRoom DEF HasRoom
<1>6. mem' \in [0 .. stackCapacity - 1 -> Content]
  <2>1. sp \in Nat /\ stack <= sp /\ sp < stack + stackCapacity  BY <1>1, <1>5, RunningRoom
  <2> QED  BY <1>2, <1>3, <1>4, <2>1, Cells
<1> QED  BY <1>1, <1>5, <1>6, AdvanceStays, ComputingInv, RunningRoom

LEMMA StoreLocalInv == ASSUME TaskInv, StoreLocal PROVE TaskInv'
<1>1. Running /\ Operands >= 1 /\ Advance /\ Computing /\ sp' = sp - 1
  BY DEF StoreLocal
<1>2. PICK i \in 0 .. Slots - 1 : mem' = Write(locals + i, At(sp - 1))  BY DEF StoreLocal
<1>3. TypeOK  BY DEF TaskInv
<1>4. /\ sp - 1 \in Nat /\ stack <= sp - 1 /\ sp - 1 < stack + stackCapacity
      /\ locals + Arity[fn] + LocalCount[fn] <= sp - 1
  BY <1>1, RunningRoom DEF Operands
<1>5. At(sp - 1) \in Content  BY <1>3, <1>4, Cells
<1>6. mem' \in [0 .. stackCapacity - 1 -> Content]
  BY <1>1, <1>2, <1>3, <1>5, SlotsAreCells, Cells
<1> QED  BY <1>1, <1>4, <1>6, AdvanceStays, ComputingInv, RunningRoom

LEMMA CombineInv ==
    ASSUME TaskInv, NEW n \in 1 .. 2, NEW v \in Value, Combine(n, v) PROVE TaskInv'
<1>1. Running /\ Operands >= n /\ Advance /\ Computing /\ mem' = Write(sp - n, v)
      /\ sp' = sp - n + 1
  BY DEF Combine
<1>2. v \in Content /\ TypeOK  BY DEF Content, TaskInv
<1>3. /\ sp - n \in Nat /\ stack <= sp - n /\ sp - n < stack + stackCapacity
      /\ locals + Arity[fn] + LocalCount[fn] <= sp - n + 1
      /\ sp - n + 1 \in Nat /\ sp - n + 1 <= stack + stackCapacity
  BY <1>1, RunningRoom DEF Operands
<1> QED  BY <1>1, <1>2, <1>3, Cells, AdvanceStays, ComputingInv

LEMMA DropInv == ASSUME TaskInv, NEW n \in 1 .. 2, Drop(n) PROVE TaskInv'
<1>1. Running /\ Operands >= n /\ Advance /\ Computing /\ mem' = mem /\ sp' = sp - n
  BY DEF Drop
<1>2. /\ sp - n \in Nat /\ sp - n <= stack + stackCapacity
      /\ locals + Arity[fn] + LocalCount[fn] <= sp - n
  BY <1>1, RunningRoom DEF Operands
<1>3. mem \in [0 .. stackCapacity - 1 -> Content]  BY DEF TaskInv, TypeOK
<1> QED  BY <1>1, <1>2, <1>3, AdvanceStays, ComputingInv

LEMMA SwapInv == ASSUME TaskInv, Swap PROVE TaskInv'
<1>1. Running /\ Operands >= 2 /\ Advance /\ Computing /\ sp' = sp
      /\ mem' = [mem EXCEPT ![sp - 1 - stack] = At(sp - 2), ![sp - 2 - stack] = At(sp - 1)]
  BY DEF Swap
<1>2. TypeOK  BY DEF TaskInv
<1>3. /\ sp - 1 \in Nat /\ stack <= sp - 1 /\ sp - 1 < stack + stackCapacity
      /\ sp - 2 \in Nat /\ stack <= sp - 2 /\ sp - 2 < stack + stackCapacity
  BY <1>1, RunningRoom DEF Operands
<1>4. At(sp - 1) \in Content /\ At(sp - 2) \in Content  BY <1>2, <1>3, Cells
<1>5. mem' \in [0 .. stackCapacity - 1 -> Content]
  BY <1>1, <1>2, <1>4 DEF TypeOK
<1> QED  BY <1>1, <1>5, AdvanceStays, ComputingInv, RunningRoom

LEMMA JumpInv == ASSUME TaskInv, NEW n \in 0 .. 1, NEW l \in Loc, Jump(n, l) PROVE TaskInv'
<1>1. Running /\ Operands >= n /\ Computing /\ mem' = mem /\ sp' = sp - n /\ ip' = l
  BY DEF Jump
<1>2. /\ sp - n \in Nat /\ sp - n <= stack + stackCapacity
      /\ locals + Arity[fn] + LocalCount[fn] <= sp - n
  BY <1>1, RunningRoom DEF Operands
<1>3. mem \in [0 .. stackCapacity - 1 -> Content]  BY DEF TaskInv, TypeOK
<1> QED  BY <1>1, <1>2, <1>3, ComputingInv

LEMMA HaltInv == ASSUME TaskInv, Halt PROVE TaskInv'
<1>1. UNCHANGED <<taskVars, regVars>> /\ status' = "ended"  BY DEF Halt
<1> USE <1>1 DEF taskVars, regVars, TaskInv
<1>2. TypeOK'  BY DEF TypeOK
<1>3. FramesLieInOrder'  BY DEF FramesLieInOrder, Index, Base, ArityOf, End
<1>4. RoomIsKept'  BY DEF RoomIsKept, Index, Base, ArityOf
<1>5. TopIsRunning'  BY DEF TopIsRunning, Running
<1> QED  BY <1>2, <1>3, <1>4, <1>5

-----------------------------------------------------------------------------
LEMMA InvokeForeignInv ==
    ASSUME TaskInv, NEW f \in Foreign, NEW result \in SeqOf(Value, 1), InvokeForeign(f, result)
    PROVE  TaskInv'
<1>0. Arity[f] \in Nat /\ TypeOK  BY TaskConstants DEF Function, TaskInv
<1>1. /\ Running /\ Operands >= Arity[f] /\ (Len(result) > Arity[f] => HasRoom(1)) /\ Advance
      /\ frames' = [frames EXCEPT ![Len(frames)].ip = ip + 1]
      /\ UNCHANGED <<stack, stackCapacity, framesAt, frameCapacity, frame, fn, locals, status>>
  BY RunningFacts DEF InvokeForeign
<1>a. /\ sp - Arity[f] \in Nat /\ locals + Arity[fn] + LocalCount[fn] <= sp - Arity[f]
      /\ stack <= sp - Arity[f] /\ sp - Arity[f] <= stack + stackCapacity
  <2>1. Running /\ Operands >= Arity[f]  BY DEF InvokeForeign
  <2> QED  BY <1>0, <2>1, RunningRoom DEF Operands
<1>b. mem \in [0 .. stackCapacity - 1 -> Content] /\ Running  BY <1>0, <1>1 DEF TypeOK
<1>2. /\ sp' \in Nat /\ locals + Arity[fn] + LocalCount[fn] <= sp' /\ sp' <= stack + stackCapacity
      /\ mem' \in [0 .. stackCapacity - 1 -> Content]
  <2>1. CASE result = <<>>
    <3>1. sp' = sp - Arity[f] /\ mem' = mem  BY <2>1 DEF InvokeForeign
    <3> QED  BY <1>a, <1>b, <3>1
  <2>2. ASSUME NEW v \in Value, result = <<v>>
        PROVE  /\ sp' \in Nat /\ locals + Arity[fn] + LocalCount[fn] <= sp'
               /\ sp' <= stack + stackCapacity /\ mem' \in [0 .. stackCapacity - 1 -> Content]
    <3>1. Len(result) = 1 /\ result # <<>> /\ result[1] = v  BY <2>2
    <3>2. sp' = sp - (Arity[f] - 1) /\ mem' = Write(sp - Arity[f], v)
      BY <3>1 DEF InvokeForeign
    <3>3. sp - Arity[f] < stack + stackCapacity
      <4>1. CASE Arity[f] = 0
        <5>1. HasRoom(1)  BY <1>1, <3>1, <4>1
        <5> QED  BY <1>a, <1>b, <4>1, <5>1, RunningRoom DEF HasRoom
      <4>2. CASE Arity[f] >= 1
        BY <1>0, <1>b, <4>2, RunningRoom
      <4> QED  BY <1>0, <4>1, <4>2
    <3>4. v \in Content  BY DEF Content
    <3>5. mem' \in [0 .. stackCapacity - 1 -> Content]
      BY <1>0, <1>a, <3>2, <3>3, <3>4, Cells
    <3>6. sp' = sp - Arity[f] + 1  BY <1>0, <1>b, <3>2, RunningRoom
    <3>7. stack + stackCapacity \in Nat /\ locals + Arity[fn] + LocalCount[fn] \in Nat
      BY <1>b, RunningRoom
    <3>8. /\ sp - Arity[f] + 1 \in Nat /\ locals + Arity[fn] + LocalCount[fn] <= sp - Arity[f] + 1
          /\ sp - Arity[f] + 1 <= stack + stackCapacity
      BY <1>a, <3>3, <3>7
    <3> QED  BY <3>5, <3>6, <3>8
  <2> QED  BY <2>1, <2>2, OneResult
<1>3. /\ Len(frames') = Len(frames) /\ Len(frames) \in Nat \ {0}
      /\ \A n \in Index : /\ frames'[n].stackBase = Base(n) /\ frames'[n].fn = frames[n].fn
                          /\ frames'[n] \in FrameType
  <2>1. Len(frames) \in Nat \ {0} /\ ip + 1 \in Loc  BY <1>1, AdvanceStays, RunningFacts
  <2> QED  BY <1>0, <1>1, <2>1, FramesAreTyped DEF TypeOK, Index, Base, FrameType
<1>4. TypeOK'
  <2>1. frames' \in Seq(FrameType)
    <3>1. frames \in Seq(FrameType)  BY <1>0 DEF TypeOK
    <3> DEFINE top == [frames[Len(frames)] EXCEPT !.ip = ip + 1]
    <3>2. frames' = [frames EXCEPT ![Len(frames)] = top]  BY <1>1
    <3>3. Len(frames) \in 1 .. Len(frames) /\ Len(frames) \in Index  BY <1>3 DEF Index
    <3>4. top \in FrameType
      <4>1. frames'[Len(frames)] = top  BY <3>1, <3>2, <3>3
      <4> QED  BY <1>3, <3>3, <4>1
    <3> HIDE DEF top
    <3> QED  BY <3>1, <3>2, <3>3, <3>4
  <2>2. ip' \in Loc  BY <1>1, AdvanceStays
  <2> QED  BY <1>0, <1>1, <1>2, <2>1, <2>2 DEF TypeOK
<1>5. Index' = Index /\ \A n \in Index : Base(n)' = Base(n) /\ ArityOf(n)' = ArityOf(n)
                                       /\ frames'[n].fn = frames[n].fn
  BY <1>3 DEF Index, Base, ArityOf
<1>6. \A n \in Index : End(n)' = IF n = Len(frames) THEN sp' ELSE End(n)
  BY <1>3 DEF End, Index, Base
<1>7. FramesLieInOrder'
  <2>1. FramesLieInOrder /\ 1 \in Index /\ frames # <<>>  BY <1>3 DEF TaskInv, Index
  <2>2. Base(1)' = stack'  BY <1>1, <1>5, <2>1 DEF FramesLieInOrder
  <2>3. \A n \in Index : Base(n) + ArityOf(n) + LocalCount[frames[n].fn] <= End(n)'
    BY <1>1, <1>2, <1>6, <2>1, RunningFacts DEF FramesLieInOrder, ArityOf
  <2>4. \A n \in Index : (Base(n) + ArityOf(n) + LocalCount[frames[n].fn] <= End(n))'
    BY <1>5, <2>3
  <2>5. \A m, n \in Index : m <= n => Base(m)' <= Base(n)'  BY <1>5, <2>1 DEF FramesLieInOrder
  <2>6. \A n \in Index : (stack <= Base(n))'  BY <1>1, <1>5, <2>1 DEF FramesLieInOrder
  <2> QED  BY <1>5, <2>2, <2>4, <2>5, <2>6 DEF FramesLieInOrder
<1>8. RoomIsKept'
  <2>1. RoomIsKept  BY DEF TaskInv
  <2> QED  BY <1>1, <1>2, <1>3, <1>5, <2>1, RunningRoom DEF RoomIsKept
<1>9. TopIsRunning'
  <2>1. TopIsRunning /\ Len(frames) \in Index  BY <1>3 DEF TaskInv, Index
  <2>2. frames' # <<>>  BY <1>3
  <2> QED  BY <1>1, <1>3, <1>5, <2>1, <2>2 DEF TopIsRunning, Running, FrameAt
<1> QED  BY <1>4, <1>7, <1>8, <1>9 DEF TaskInv
-----------------------------------------------------------------------------
(* A call grows the stack to the room it asks for, shifts every pointer    *)
(* along, and puts a frame on the parameters.                              *)
LEMMA InvokeGrows ==
    ASSUME TaskInv, NEW f \in Native, NEW base \in Address, Invoke(f, base)
    PROVE  /\ Running /\ Arity[f] \in Nat /\ Operands >= Arity[f] /\ ip + 1 \in Loc
           /\ base \in Nat /\ stack' = base
           /\ stackCapacity' \in Nat /\ stackCapacity' <= MaxStack
           /\ stackCapacity <= stackCapacity' /\ sp - stack + StackEffect[f] <= stackCapacity'
           /\ mem' = [i \in 0 .. stackCapacity' - 1 |-> IF i < stackCapacity THEN mem[i] ELSE Junk]
<1> USE TaskConstants
<1>1. Running /\ Operands >= Arity[f] /\ ip < CodeLength /\ EnsureStack(StackEffect[f], base)
  BY DEF Invoke
<1>2. base \in Nat /\ Arity[f] \in Nat  BY Constants
<1>3. ip + 1 \in Loc
  <2>1. ip \in 0 .. CodeLength /\ CodeLength \in Nat /\ ip < CodeLength  BY <1>1, RunningFacts DEF Loc
  <2> QED  BY <2>1 DEF Loc
<1> DEFINE r == sp - stack + StackEffect[f]
<1>4. r \in Nat /\ r <= stackCapacity + 255 /\ stackCapacity \in Nat \ {0}
  BY <1>1, RunningRoom, Constants
<1>5. /\ Enough(stackCapacity, r) \in Nat /\ stackCapacity <= Enough(stackCapacity, r)
      /\ r <= Enough(stackCapacity, r)
  <2> HIDE DEF r
  <2> QED  BY <1>4, EnoughIsEnough
<1>6. /\ stack' = base /\ stackCapacity' = Enough(stackCapacity, r)
      /\ Enough(stackCapacity, r) <= MaxStack
      /\ mem' = [i \in 0 .. Enough(stackCapacity, r) - 1 |-> IF i < stackCapacity THEN mem[i] ELSE Junk]
  BY <1>1, Zenon DEF EnsureStack
<1> QED  BY <1>1, <1>2, <1>3, <1>5, <1>6

LEMMA InvokeRegisters ==
    ASSUME TaskInv, NEW f \in Native, NEW base \in Address, Invoke(f, base)
    PROVE  /\ sp' = sp + (base - stack) + LocalCount[f]
           /\ locals' = sp + (base - stack) - Arity[f]
           /\ fn' = f /\ ip' = 0 /\ status' = status
           /\ frame' = [block |-> framesAt', index |-> Len(frames) + 1]
           /\ framesAt' \in Block /\ frameCapacity' \in FirstFrames .. MaxFrames
           /\ Len(frames) + 1 <= frameCapacity'
<1>1. /\ sp' = sp + (base - stack) + LocalCount[f]
      /\ locals' = sp + (base - stack) - Arity[f]
      /\ fn' = f /\ ip' = 0 /\ status' = status
      /\ frame' = [block |-> framesAt', index |-> Len(frames) + 1]
  BY DEF Invoke, Shift, Parameters
<1>2. /\ framesAt' \in Block /\ frameCapacity' \in FirstFrames .. MaxFrames
      /\ Len(frames) + 1 <= frameCapacity'
  <2>1. EnsureFrames /\ framesAt \in Block /\ frameCapacity \in FirstFrames .. MaxFrames
        /\ Len(frames) <= frameCapacity /\ Len(frames) \in Nat
    BY InvokeGrows, RunningFacts DEF Invoke, TypeOK, RoomIsKept, TaskInv
  <2> QED  BY <2>1, TaskConstants DEF EnsureFrames
<1> QED  BY <1>1, <1>2

LEMMA InvokePushes ==
    ASSUME TaskInv, NEW f \in Native, NEW base \in Address, Invoke(f, base)
    PROVE  /\ frames' \in Seq(FrameType) /\ Len(frames') = Len(frames) + 1
           /\ \A n \in Index :
                 /\ frames'[n].fn = frames[n].fn
                 /\ frames'[n].ip = IF n = Len(frames) THEN ip + 1 ELSE frames[n].ip
                 /\ frames'[n].stackBase = Base(n) + (base - stack)
           /\ frames'[Len(frames) + 1].fn = f
           /\ frames'[Len(frames) + 1].ip = 0
           /\ frames'[Len(frames) + 1].stackBase = sp + (base - stack) - Arity[f]
<1>1. TypeOK /\ FramesLieInOrder  BY DEF TaskInv
<1>2. Running  BY InvokeGrows
<1>3. Len(frames) \in Nat \ {0} /\ Len(frames) \in Index /\ frame.index = Len(frames)
  BY <1>2, RunningFacts
<1>4. ip + 1 \in Loc /\ base \in Nat /\ stack \in Nat /\ sp \in Nat /\ Arity[f] \in Nat
  BY <1>2, InvokeGrows, RunningRoom
<1> DEFINE move == base - stack
           new  == [fn |-> f, ip |-> 0, stackBase |-> sp + move - Arity[f]]
           moved == [n \in 1 .. Len(frames) |->
                       [fn |-> frames[n].fn, ip |-> frames[n].ip, stackBase |-> Base(n) + move]]
           saved == [moved EXCEPT ![Len(frames)].ip = ip + 1]
<1>5. Moved(base) = moved
  <2>1. \A n \in 1 .. Len(frames) :
           [frames[n] EXCEPT !.stackBase = @ + Shift(base)]
             = [fn |-> frames[n].fn, ip |-> frames[n].ip, stackBase |-> Base(n) + move]
    BY <1>1, FramesAreTyped DEF Shift, Index, Base, FrameType
  <2> QED  BY <2>1 DEF Moved
<1>6. moved \in Seq(FrameType) /\ Len(moved) = Len(frames)
  <2>1. \A n \in Index : Base(n) + move \in Nat
    <3>1. \A n \in Index : Base(n) \in Nat /\ stack <= Base(n)
      BY <1>1, FramesAreTyped DEF FramesLieInOrder
    <3> QED  BY <1>4, <3>1
  <2>2. \A n \in 1 .. Len(frames) :
          [fn |-> frames[n].fn, ip |-> frames[n].ip, stackBase |-> Base(n) + move] \in FrameType
    BY <1>1, <2>1, FramesAreTyped DEF FrameType, Index
  <2> QED  BY <1>3, <2>2
<1>10. new \in FrameType
  <2>1. Operands >= Arity[f]  BY InvokeGrows
  <2>2. sp + move - Arity[f] \in Nat  BY <1>2, <1>4, <2>1, RunningRoom DEF Operands
  <2>3. 0 \in Loc  BY TaskConstants DEF Loc
  <2> QED  BY <2>2, <2>3 DEF FrameType
<1>11. frames' = Append(saved, new)
  <2>1. frames' = Append([Moved(base) EXCEPT ![frame.index].ip = ip + 1], new)
    BY Zenon DEF Invoke, Pushed, Parameters, Shift
  <2> QED  BY <1>3, <1>5, <2>1
<1>12. /\ saved \in Seq(FrameType) /\ Len(saved) = Len(frames)
       /\ \A n \in Index : /\ saved[n].fn = moved[n].fn
                           /\ saved[n].stackBase = moved[n].stackBase
                           /\ saved[n].ip = IF n = Len(frames) THEN ip + 1 ELSE moved[n].ip
  <2> HIDE DEF moved
  <2>1. Len(frames) \in 1 .. Len(moved)  BY <1>3, <1>6 DEF Index
  <2> QED  BY <1>4, <1>6, <2>1, SetIp DEF Index
<1>13. /\ frames' \in Seq(FrameType) /\ Len(frames') = Len(frames) + 1
       /\ \A n \in Index : frames'[n] = saved[n]
       /\ frames'[Len(frames) + 1] = new
  <2> HIDE DEF saved, new
  <2> QED  BY <1>3, <1>10, <1>12, <1>11, AppendProperties DEF Index
<1>14. \A n \in Index : /\ moved[n].fn = frames[n].fn /\ moved[n].ip = frames[n].ip
                        /\ moved[n].stackBase = Base(n) + move
  BY DEF Index
<1>15. \A n \in Index :
                 /\ frames'[n].fn = frames[n].fn
                 /\ frames'[n].ip = IF n = Len(frames) THEN ip + 1 ELSE frames[n].ip
                 /\ frames'[n].stackBase = Base(n) + move
  <2> HIDE DEF saved, moved
  <2> QED  BY <1>12, <1>13, <1>14
<1>16. new.fn = f /\ new.ip = 0 /\ new.stackBase = sp + move - Arity[f]  OBVIOUS
<1> QED
  <2> HIDE DEF new
  <2> QED  BY <1>13, <1>15, <1>16

LEMMA InvokeInv ==
    ASSUME TaskInv, NEW f \in Native, NEW base \in Address, Invoke(f, base)
    PROVE  TaskInv'
<1>1. TypeOK /\ RoomIsKept /\ FramesLieInOrder  BY DEF TaskInv
<1>2. Running /\ Len(frames) \in Nat \ {0} /\ Len(frames) \in Index
      /\ base \in Nat /\ stack \in Nat /\ sp \in Nat /\ stackCapacity \in Nat
      /\ stackCapacity' \in Nat /\ stackCapacity <= stackCapacity' /\ stack' = base
      /\ sp - stack + StackEffect[f] <= stackCapacity'
      /\ stack <= sp /\ locals + Arity[fn] + LocalCount[fn] <= sp - Arity[f]
      /\ locals \in Nat /\ Arity[fn] \in Nat /\ LocalCount[fn] \in Nat /\ stack <= locals
  <2>1. Running  BY InvokeGrows
  <2>2. Operands >= Arity[f] /\ Arity[f] \in Nat  BY InvokeGrows
  <2>3. locals + Arity[fn] + LocalCount[fn] <= sp - Arity[f]
    BY <2>1, <2>2, RunningRoom DEF Operands
  <2>4. Len(frames) \in Nat \ {0} /\ Len(frames) \in Index  BY <2>1, RunningFacts
  <2> QED  BY <2>1, <2>2, <2>3, <2>4, InvokeGrows, RunningRoom
<1>3. Arity[f] \in Nat /\ LocalCount[f] \in Nat /\ StackEffect[f] \in Nat
      /\ LocalCount[f] <= StackEffect[f]
  BY Constants
<1>n. /\ sp \in Nat /\ stack \in Nat /\ base \in Nat /\ locals \in Nat
      /\ Arity[f] \in Nat /\ LocalCount[f] \in Nat /\ StackEffect[f] \in Nat
      /\ stack <= sp - Arity[f] /\ LocalCount[f] <= StackEffect[f]
  BY <1>2, <1>3
<1>k. /\ stackCapacity \in Nat /\ stackCapacity' \in Nat /\ stackCapacity <= stackCapacity'
      /\ stack' = base /\ sp - stack + StackEffect[f] <= stackCapacity'
  BY <1>2
<1>t. PICK len \in Nat \ {0} : len = Len(frames)  BY <1>2
<1>m. PICK move \in Int : move = base - stack  BY <1>2
<1>top. PICK top \in Nat \ {0} : top = len + 1  BY <1>t
<1>p. /\ Len(frames') = top
      /\ \A n \in Index : frames'[n].fn = frames[n].fn /\ frames'[n].stackBase = Base(n) + move
      /\ frames'[top].fn = f /\ frames'[top].stackBase = sp + move - Arity[f]
  BY <1>t, <1>m, <1>top, InvokePushes
<1>a. /\ sp' = sp + move + LocalCount[f] /\ locals' = sp + move - Arity[f]
      /\ sp' \in Nat /\ locals' \in Nat
  <2>1. sp' = sp + move + LocalCount[f] /\ locals' = sp + move - Arity[f]
    BY <1>m, InvokeRegisters
  <2>2. base \in Nat /\ stack \in Nat /\ sp \in Nat /\ stack <= sp - Arity[f]
    BY <1>2, <1>3
  <2>3. sp + move - Arity[f] \in Nat /\ sp + move + LocalCount[f] \in Nat
    BY <1>m, <1>3, <2>2
  <2> QED  BY <2>1, <2>3
<1>4. TypeOK'
  <2>1. sp' \in Nat /\ locals' \in Nat  BY <1>a
  <2>2. stackCapacity' \in FirstStack .. MaxStack
    <3>1. FirstStack <= stackCapacity /\ FirstStack \in Nat /\ MaxStack \in Nat
      BY <1>1, TaskConstants DEF TypeOK
    <3>2. stackCapacity' <= MaxStack  BY InvokeGrows
    <3> QED  BY <1>2, <3>1, <3>2
  <2>3. mem' \in [0 .. stackCapacity' - 1 -> Content]
    <3>1. mem \in [0 .. stackCapacity - 1 -> Content] /\ Junk \in Content
      BY <1>1 DEF TypeOK, Content
    <3>2. mem' = [i \in 0 .. stackCapacity' - 1 |-> IF i < stackCapacity THEN mem[i] ELSE Junk]
      BY InvokeGrows
    <3>3. stackCapacity \in Nat /\ stackCapacity' \in Nat  BY <1>2
    <3>4. \A i \in 0 .. stackCapacity' - 1 : (IF i < stackCapacity THEN mem[i] ELSE Junk) \in Content
      BY <3>1, <3>3
    <3> QED  BY <3>2, <3>4
  <2>4. frame' \in [block : Block, index : Nat \ {0}]
    <3>1. Len(frames) + 1 \in Nat \ {0}  BY <1>2
    <3> QED  BY <3>1, InvokeRegisters
  <2>5. ip' \in Loc /\ fn' \in Native /\ status' \in {"running", "ended"}
    <3>1. 0 \in Loc  BY TaskConstants DEF Loc
    <3>2. fn' = f /\ ip' = 0 /\ status' = status  BY InvokeRegisters
    <3> QED  BY <1>1, <3>1, <3>2 DEF TypeOK
  <2>6. frames' \in Seq(FrameType) /\ framesAt' \in Block /\ frameCapacity' \in FirstFrames .. MaxFrames
    BY InvokePushes, InvokeRegisters
  <2> QED  BY <1>2, <2>1, <2>2, <2>3, <2>4, <2>5, <2>6 DEF TypeOK
<1>5. Index' = 1 .. top /\ Index = 1 .. len
  BY <1>t, <1>p DEF Index
<1>6. \A n \in Index : Base(n)' = Base(n) + move /\ ArityOf(n)' = ArityOf(n)
                      /\ frames'[n].fn = frames[n].fn
  BY <1>p DEF Base, ArityOf
<1>7. Base(top)' = sp + move - Arity[f] /\ ArityOf(top)' = Arity[f] /\ frames'[top].fn = f
  BY <1>p DEF Base, ArityOf
<1>8. \A n \in Index' : n \in Index \/ n = top
  BY <1>t, <1>top, <1>5
<1>9. \A n \in Index : /\ Base(n) \in Nat /\ frames[n].fn \in Native
                       /\ Arity[frames[n].fn] \in Nat /\ LocalCount[frames[n].fn] \in Nat
                       /\ StackEffect[frames[n].fn] \in Nat
                       /\ Base(n) <= Base(len)
                       /\ End(n) \in Nat
  <2>1. \A n \in Index : Base(n) \in Nat /\ frames[n].fn \in Native  BY <1>1, FramesAreTyped
  <2>2. \A n \in Index : Base(n) <= Base(len)
    BY <1>1, <1>t, <1>5 DEF FramesLieInOrder
  <2>3. \A n \in Index : n # len => n + 1 \in Index  BY <1>t, <1>5
  <2>4. \A n \in Index : End(n) \in Nat  BY <1>2, <1>m, <1>t, <2>1, <2>3 DEF End, Base
  <2> QED  BY <2>1, <2>2, <2>4, Constants
<1>10. Base(len) = locals /\ fn = frames[len].fn  BY <1>2, <1>m, <1>t, RunningFacts
<1>11. FramesLieInOrder'
  <2>1. Base(1)' = stack'
    <3>1. 1 \in Index /\ Base(1) = stack  BY <1>1, <1>2 DEF Index, FramesLieInOrder
    <3> QED  BY <1>2, <1>m, <1>6, <3>1
  <2>2. \A m, n \in Index' : m <= n => Base(m)' <= Base(n)'
    <3> SUFFICES ASSUME NEW m \in Index', NEW n \in Index', m <= n PROVE Base(m)' <= Base(n)'
      OBVIOUS
    <3>1. CASE n \in Index
      <4>1. m \in Index  BY <1>2, <1>m, <1>5, <3>1 DEF Index
      <4>2. Base(m) <= Base(n)  BY <1>1, <3>1, <4>1 DEF FramesLieInOrder
      <4> QED  BY <1>2, <1>m, <1>6, <1>9, <3>1, <4>1, <4>2
    <3>2. CASE m \in Index /\ n = top
      <4>1. Base(m) <= locals  BY <1>9, <1>10, <3>2
      <4>2. locals <= sp - Arity[f]
        <5>1. locals + Arity[fn] + LocalCount[fn] <= sp - Arity[f] /\ Arity[fn] \in Nat
              /\ LocalCount[fn] \in Nat
          BY <1>2
        <5> QED  BY <1>n, <5>1
      <4> QED  BY <1>n, <1>m, <1>6, <1>7, <1>9, <3>2, <4>1, <4>2
    <3>3. CASE m = top /\ n = top
      BY <1>2, <1>m, <1>3, <1>7, <3>3
    <3> QED  BY <1>2, <1>m, <1>5, <1>8, <3>1, <3>2, <3>3 DEF Index
  <2>3. \A n \in Index' : stack' <= Base(n)'
    <3>1. \A n \in Index : stack' <= Base(n)'
      BY <1>1, <1>n, <1>k, <1>m, <1>6, <1>9 DEF FramesLieInOrder
    <3>2. stack' <= Base(top)'  BY <1>n, <1>k, <1>m, <1>7
    <3> QED  BY <1>8, <3>1, <3>2
  <2>4. \A n \in Index' : Base(n)' + ArityOf(n)' + LocalCount[frames'[n].fn] <= End(n)'
    <3>1. ASSUME NEW n \in Index, n # len
          PROVE  Base(n)' + ArityOf(n)' + LocalCount[frames'[n].fn] <= End(n)'
      <4>1. n + 1 \in Index /\ n # top  BY <1>t, <1>top, <1>5, <3>1
      <4>2. End(n)' = Base(n + 1) + move /\ End(n) = Base(n + 1)
        BY <1>t, <1>p, <1>6, <3>1, <4>1 DEF End, Base
      <4>3. Base(n) + ArityOf(n) + LocalCount[frames[n].fn] <= End(n)
        BY <1>1 DEF FramesLieInOrder
      <4> QED  BY <1>m, <1>6, <1>9, <4>1, <4>2, <4>3 DEF ArityOf
    <3>2. Base(len)' + ArityOf(len)' + LocalCount[frames'[len].fn]
            <= End(len)'
      <4>1. End(len)' = sp + move - Arity[f]
        BY <1>t, <1>p, <1>top, <1>7 DEF End, Base
      <4>2. locals + Arity[fn] + LocalCount[fn] <= sp - Arity[f] /\ Arity[fn] \in Nat
            /\ LocalCount[fn] \in Nat
        BY <1>2
      <4>3. len \in Index  BY <1>t, <1>5
      <4>4. Base(len)' = locals + move /\ ArityOf(len)' = Arity[fn] /\ frames'[len].fn = fn
        BY <1>6, <1>10, <4>3 DEF ArityOf
      <4> QED  BY <1>n, <1>m, <4>1, <4>2, <4>4
    <3>3. Base(top)' + ArityOf(top)' + LocalCount[frames'[top].fn] <= End(top)'
      <4>1. End(top)' = sp + move + LocalCount[f]  BY <1>a, <1>p DEF End
      <4> QED  BY <1>n, <1>m, <1>7, <4>1
    <3> QED  BY <1>8, <3>1, <3>2, <3>3
  <2> QED  BY <2>1, <2>2, <2>3, <2>4 DEF FramesLieInOrder
<1>12. RoomIsKept'
  <2>1. \A n \in Index : (Base(n) + ArityOf(n) + StackEffect[frames[n].fn] <= stack + stackCapacity)'
    <3>1. \A n \in Index : Base(n) + ArityOf(n) + StackEffect[frames[n].fn] <= stack + stackCapacity
      BY <1>1 DEF RoomIsKept
    <3> QED  BY <1>n, <1>k, <1>m, <1>6, <1>9, <3>1 DEF ArityOf
  <2>2. (Base(top) + ArityOf(top) + StackEffect[frames[top].fn])' <= stack' + stackCapacity'
    BY <1>2, <1>m, <1>3, <1>7
  <2>3. stack' <= sp' /\ sp' <= stack' + stackCapacity'
    BY <1>n, <1>k, <1>m, <1>a
  <2> QED  BY <1>8, <1>p, <1>t, <1>top, <2>1, <2>2, <2>3, InvokeRegisters DEF RoomIsKept
<1>13. TopIsRunning'
  <2>1. frames' # <<>>  BY <1>p, <1>top
  <2> QED
    <3>1. frame' = [block |-> framesAt', index |-> top] /\ fn' = f  BY <1>t, <1>top, InvokeRegisters
    <3> QED  BY <1>a, <1>p, <1>7, <2>1, <3>1 DEF TopIsRunning, FrameAt
<1> QED  BY <1>4, <1>11, <1>12, <1>13 DEF TaskInv
-----------------------------------------------------------------------------
LEMMA FrontOfSeq ==
    ASSUME NEW S, NEW s \in Seq(S), s # <<>>
    PROVE  /\ Front(s) \in Seq(S) /\ Len(Front(s)) = Len(s) - 1
           /\ \A n \in 1 .. Len(s) - 1 : Front(s)[n] = s[n]
<1>1. Len(s) \in Nat \ {0}  BY EmptySeq
<1>2. PICK n \in Int : n = Len(s) - 1  BY <1>1
<1>3. \A i \in 1 .. n : s[i] \in S  BY <1>1, <1>2
<1>4. Front(s) = SubSeq(s, 1, n)  BY <1>2 DEF Front
<1>5. /\ SubSeq(s, 1, n) \in Seq(S) /\ Len(SubSeq(s, 1, n)) = IF 1 <= n THEN n - 1 + 1 ELSE 0
      /\ \A i \in 1 .. n - 1 + 1 : SubSeq(s, 1, n)[i] = s[1 + i - 1]
  BY <1>3, SubSeqProperties
<1> QED  BY <1>1, <1>2, <1>4, <1>5

(* A return gives the caller back its frame; what it pushed on it is at    *)
(* most as high as the callee was.                                         *)
LEMMA LeaveInv ==
    ASSUME TaskInv, Running, Leave, UNCHANGED <<stack, stackCapacity, framesAt, frameCapacity>>,
           mem' \in [0 .. stackCapacity - 1 -> Content],
           sp' \in Nat, locals <= sp', sp' <= sp
    PROVE  TaskInv'
<1>1. TypeOK /\ RoomIsKept /\ FramesLieInOrder  BY DEF TaskInv
<1>2. PICK len \in Nat \ {0} : len = Len(frames)  BY RunningFacts
<1>3. frames # <<>> /\ Index = 1 .. len /\ len \in Index /\ Base(len) = locals
  BY <1>2, RunningFacts DEF Index, TaskInv, TopIsRunning
<1>4. /\ frames' = Front(frames) /\ frames' \in Seq(FrameType) /\ Len(frames') = len - 1
      /\ \A n \in 1 .. len - 1 : frames'[n] = frames[n]
  BY <1>1, <1>2, <1>3, FrontOfSeq DEF Leave, TypeOK
<1>5. Index' = 1 .. len - 1 /\ \A n \in Index' : n \in Index  BY <1>2, <1>3, <1>4 DEF Index
<1>6. \A n \in Index' : /\ Base(n)' = Base(n) /\ ArityOf(n)' = ArityOf(n)
                        /\ frames'[n].fn = frames[n].fn
  BY <1>4, <1>5 DEF Base, ArityOf
<1>n. /\ stack \in Nat /\ sp \in Nat /\ stackCapacity \in Nat /\ locals \in Nat
      /\ stack <= locals /\ sp <= stack + stackCapacity
      /\ stack' = stack /\ stackCapacity' = stackCapacity
  BY RunningRoom
<1>7. FramesLieInOrder'
  <2>1. frames' # <<>> => Base(1)' = stack'
    <3> SUFFICES ASSUME frames' # <<>> PROVE Base(1)' = stack'
      OBVIOUS
    <3>1. Len(frames') # 0  BY <1>4, EmptySeq
    <3>2. 1 \in Index'  BY <1>2, <1>4, <1>5, <3>1
    <3> QED  BY <1>1, <1>3, <1>6, <1>n, <3>2 DEF FramesLieInOrder
  <2>2. \A m, n \in Index' : m <= n => Base(m)' <= Base(n)'
    BY <1>1, <1>5, <1>6 DEF FramesLieInOrder
  <2>3. \A n \in Index' : stack' <= Base(n)'
    BY <1>1, <1>5, <1>6, <1>n DEF FramesLieInOrder
  <2>4. \A n \in Index' : Base(n)' + ArityOf(n)' + LocalCount[frames'[n].fn] <= End(n)'
    <3> SUFFICES ASSUME NEW n \in Index'
                 PROVE  Base(n) + ArityOf(n) + LocalCount[frames[n].fn] <= End(n)'
      BY <1>6
    <3>1. Base(n) + ArityOf(n) + LocalCount[frames[n].fn] <= End(n) /\ n # len /\ n \in Nat
      BY <1>1, <1>2, <1>5 DEF FramesLieInOrder
    <3>2. End(n) = Base(n + 1)  BY <1>2, <3>1 DEF End, Base
    <3>3. CASE n = len - 1
      <4>1. End(n)' = sp' /\ End(n) = locals
        BY <1>2, <1>3, <1>4, <3>2, <3>3 DEF End
      <4>2. /\ Base(n) \in Nat /\ ArityOf(n) \in Nat /\ LocalCount[frames[n].fn] \in Nat
        BY <1>1, <1>5, FramesAreTyped, Constants DEF ArityOf
      <4> QED  BY <1>n, <3>1, <4>1, <4>2
    <3>4. CASE n # len - 1
      <4>1. n + 1 \in 1 .. len - 1  BY <1>2, <1>5, <3>4
      <4>2. End(n)' = frames'[n + 1].stackBase  BY <1>4, <3>4 DEF End
      <4> QED  BY <1>4, <3>1, <3>2, <4>1, <4>2 DEF Base
    <3> QED  BY <3>3, <3>4
  <2> QED  BY <2>1, <2>2, <2>3, <2>4 DEF FramesLieInOrder
<1>8. RoomIsKept'
  <2>1. \A n \in Index' : (Base(n) + ArityOf(n) + StackEffect[frames[n].fn] <= stack + stackCapacity)'
    BY <1>1, <1>5, <1>6, <1>n DEF RoomIsKept
  <2>2. stack' <= sp' /\ sp' <= stack' + stackCapacity'  BY <1>n
  <2>3. Len(frames') <= frameCapacity'
    BY <1>1, <1>2, <1>4, TaskConstants DEF RoomIsKept, TypeOK
  <2> QED  BY <2>1, <2>2, <2>3 DEF RoomIsKept
<1>9. CASE len = 1
  <2>1. status' = "ended" /\ UNCHANGED regVars  BY <1>2, <1>9 DEF Leave
  <2>2. TypeOK'  BY <1>1, <1>4, <2>1 DEF TypeOK, regVars
  <2>3. TopIsRunning'  BY <2>1 DEF TopIsRunning, Running
  <2> QED  BY <1>7, <1>8, <2>2, <2>3 DEF TaskInv
<1>10. CASE len # 1
  <2>1. /\ frame' = FrameAt(len - 1) /\ fn' = frames[len - 1].fn /\ ip' = frames[len - 1].ip
        /\ locals' = Base(len - 1) /\ status' = status
    BY <1>2, <1>10 DEF Leave, Base
  <2>2. len - 1 \in 1 .. len - 1 /\ len - 1 \in Index' /\ len - 1 \in Index
    BY <1>2, <1>5, <1>10
  <2>3. TypeOK'
    <3>1. fn' \in Native /\ ip' \in Loc /\ locals' \in Nat
      BY <1>1, <2>1, <2>2, FramesAreTyped
    <3>2. frame' \in [block : Block, index : Nat \ {0}]
      BY <1>1, <2>1, <2>2 DEF FrameAt, TypeOK
    <3> QED  BY <1>1, <1>4, <2>1, <3>1, <3>2 DEF TypeOK
  <2>4. TopIsRunning'
    <3>1. frames' # <<>>  BY <1>4, <2>2, EmptySeq
    <3>2. frames'[len - 1] = frames[len - 1] /\ Len(frames') = len - 1  BY <1>4, <2>2
    <3>3. frame' = FrameAt(len - 1)'  BY <2>1 DEF FrameAt
    <3> QED  BY <2>1, <3>1, <3>2, <3>3 DEF TopIsRunning, Base, FrameAt
  <2> QED  BY <1>7, <1>8, <2>3, <2>4 DEF TaskInv
<1> QED  BY <1>9, <1>10

LEMMA RetInv == ASSUME TaskInv, Ret PROVE TaskInv'
<1>1. Running /\ Leave /\ UNCHANGED <<stack, stackCapacity, mem, framesAt, frameCapacity>>
  BY DEF Ret
<1>2. frames[frame.index].stackBase = locals  BY <1>1, RunningFacts DEF Base
<1>3. sp' = locals  BY <1>2 DEF Ret
<1>4. locals \in Nat /\ locals <= sp  BY <1>1, RunningRoom
<1>5. mem' \in [0 .. stackCapacity - 1 -> Content]  BY <1>1 DEF TaskInv, TypeOK
<1> QED  BY <1>1, <1>3, <1>4, <1>5, LeaveInv

LEMMA RetValInv == ASSUME TaskInv, RetVal PROVE TaskInv'
<1>1. Running /\ Leave /\ Operands >= 1 /\ UNCHANGED <<stack, stackCapacity, framesAt, frameCapacity>>
  BY DEF RetVal
<1>2. frames[frame.index].stackBase = locals  BY <1>1, RunningFacts DEF Base
<1>3. sp' = locals + 1 /\ mem' = Write(locals, At(sp - 1))  BY <1>2 DEF RetVal
<1>4. /\ locals \in Nat /\ locals + 1 \in Nat /\ locals <= locals + 1 /\ locals + 1 <= sp
      /\ sp - 1 \in Nat /\ stack <= sp - 1 /\ sp - 1 < stack + stackCapacity
      /\ stack <= locals /\ locals < stack + stackCapacity
  BY <1>1, RunningRoom DEF Operands
<1>5. mem' \in [0 .. stackCapacity - 1 -> Content]
  <2>1. TypeOK  BY DEF TaskInv
  <2>2. At(sp - 1) \in Content  BY <1>4, <2>1, Cells
  <2> QED  BY <1>3, <1>4, <2>1, <2>2, Cells
<1> QED  BY <1>1, <1>3, <1>4, <1>5, LeaveInv

(* The pointers of a task, its frames and its room stay in order through   *)
(* every instruction, call, growth and return.                             *)
THEOREM TaskInvariance == Spec => []TaskInv
<1>1. TaskInv /\ [Next]_vars => TaskInv'
  <2> SUFFICES ASSUME TaskInv, [Next]_vars PROVE TaskInv'
    OBVIOUS
  <2>1. ASSUME NEW v \in Value, Load(v) PROVE TaskInv'  BY <2>1, LoadInv
  <2>2. CASE LoadLocal  BY <2>2, LoadLocalInv
  <2>3. CASE StoreLocal  BY <2>3, StoreLocalInv
  <2>4. ASSUME NEW n \in 1 .. 2, NEW v \in Value, Combine(n, v) PROVE TaskInv'
    BY <2>4, CombineInv
  <2>5. ASSUME NEW n \in 1 .. 2, Drop(n) PROVE TaskInv'  BY <2>5, DropInv
  <2>6. CASE Swap  BY <2>6, SwapInv
  <2>7. ASSUME NEW n \in 0 .. 1, NEW l \in Loc, Jump(n, l) PROVE TaskInv'  BY <2>7, JumpInv
  <2>8. CASE Halt  BY <2>8, HaltInv
  <2>9. ASSUME NEW f \in Native, NEW base \in Address, Invoke(f, base) PROVE TaskInv'
    BY <2>9, InvokeInv
  <2>10. ASSUME NEW f \in Foreign, NEW result \in SeqOf(Value, 1), InvokeForeign(f, result)
         PROVE  TaskInv'
    BY <2>10, InvokeForeignInv
  <2>11. CASE Ret  BY <2>11, RetInv
  <2>12. CASE RetVal  BY <2>12, RetValInv
  <2>13. CASE UNCHANGED vars
    BY <2>13 DEF vars, taskVars, regVars, TaskInv, TypeOK, FramesLieInOrder, RoomIsKept,
                 TopIsRunning, Index, Base, ArityOf, End, FrameAt, Running
  <2> QED
    BY <2>1, <2>2, <2>3, <2>4, <2>5, <2>6, <2>7, <2>8, <2>9, <2>10, <2>11, <2>12, <2>13 DEF Next
<1> QED  BY <1>1, InitInv, PTL DEF Spec

(* orbit_vmEnsureStack leaves no pointer behind in the old block, and no   *)
(* activation reaches into the slots of another.                           *)
THEOREM PointersStayNested == Spec => []PointersAreNested
<1>1. TaskInv => PointersAreNested
  <2> SUFFICES ASSUME TaskInv PROVE PointersAreNested
    OBVIOUS
  <2>1. TypeOK /\ FramesLieInOrder /\ RoomIsKept  BY DEF TaskInv
  <2>2. \A n \in Index : Base(n) <= End(n)
    <3> SUFFICES ASSUME NEW n \in Index PROVE Base(n) <= End(n)
      OBVIOUS
    <3>1. /\ Base(n) \in Nat /\ ArityOf(n) \in Nat /\ LocalCount[frames[n].fn] \in Nat
      BY <2>1, FramesAreTyped, Constants DEF ArityOf
    <3>2. Base(n) + ArityOf(n) + LocalCount[frames[n].fn] <= End(n)  BY <2>1 DEF FramesLieInOrder
    <3>3. End(n) \in Int
      <4>1. CASE n = Len(frames)
        BY <2>1, <4>1 DEF End, TypeOK
      <4>2. CASE n # Len(frames)
        <5>1. n + 1 \in Index  BY <2>1, <4>2 DEF Index, TypeOK
        <5> QED  BY <2>1, <4>2, <5>1, FramesAreTyped DEF End, Base
      <4> QED  BY <4>1, <4>2
    <3> QED  BY <3>1, <3>2, <3>3
  <2> QED  BY <2>1, <2>2 DEF PointersAreNested, FramesLieInOrder, RoomIsKept, Index, Base
<1> QED  BY <1>1, TaskInvariance, PTL

(* The room that was tested at a call is there until the return.           *)
THEOREM DeclaredRoomStays == Spec => []DeclaredRoomIsThere
<1>1. TaskInv => DeclaredRoomIsThere
  BY RunningFacts DEF TaskInv, RoomIsKept, DeclaredRoomIsThere, ArityOf
<1> QED  BY <1>1, TaskInvariance, PTL

(* The pointers orbit_vmRun keeps in its locals are those of the frame on  *)
(* top of the task, before and after it moves.                             *)
THEOREM RegistersStayInStep == Spec => []RegistersFollowFrames
<1>1. TaskInv => RegistersFollowFrames
  BY DEF TaskInv, TopIsRunning, RoomIsKept, RegistersFollowFrames, Base
<1> QED  BY <1>1, TaskInvariance, PTL
-----------------------------------------------------------------------------
(* The activations that the memory of a task holds.                        *)
Calls == [n \in 1 .. Len(frames) |-> Activation(n)]

SlotsOf(n) == [i \in 1 .. End(n) - Base(n) |-> At(Base(n) + i - 1)]

TopSlots == [i \in 1 .. sp - locals |-> At(locals + i - 1)]

(* Every activation has its slots, in cells that are inside the stack.     *)
LEMMA SlotsAreTyped ==
    TaskInv => \A n \in Index : /\ Base(n) \in Nat /\ End(n) \in Nat /\ stack \in Nat
                                /\ stack <= Base(n) /\ Base(n) <= End(n)
                                /\ End(n) <= stack + stackCapacity
                                /\ SlotsOf(n) \in Seq(Content)
                                /\ Len(SlotsOf(n)) = End(n) - Base(n)
<1> SUFFICES ASSUME TaskInv, NEW n \in Index
             PROVE  /\ Base(n) \in Nat /\ End(n) \in Nat /\ stack \in Nat
                    /\ stack <= Base(n) /\ Base(n) <= End(n)
                    /\ End(n) <= stack + stackCapacity
                    /\ SlotsOf(n) \in Seq(Content) /\ Len(SlotsOf(n)) = End(n) - Base(n)
  OBVIOUS
<1>1. TypeOK /\ FramesLieInOrder /\ RoomIsKept  BY DEF TaskInv
<1>2. Base(n) \in Nat /\ ArityOf(n) \in Nat /\ LocalCount[frames[n].fn] \in Nat
  BY <1>1, FramesAreTyped, Constants DEF ArityOf
<1>3. End(n) \in Nat /\ End(n) <= stack + stackCapacity
  <2>1. CASE n = Len(frames)
    BY <1>1, <2>1 DEF End, TypeOK, RoomIsKept
  <2>2. CASE n # Len(frames)
    <3>1. n + 1 \in Index  BY <1>1, <2>2 DEF Index, TypeOK
    <3>2. End(n) = Base(n + 1)  BY <2>2 DEF End, Base
    <3>3. /\ Base(n + 1) \in Nat /\ ArityOf(n + 1) \in Nat /\ StackEffect[frames[n + 1].fn] \in Nat
          /\ Base(n + 1) + ArityOf(n + 1) + StackEffect[frames[n + 1].fn] <= stack + stackCapacity
      BY <1>1, <3>1, FramesAreTyped, Constants DEF ArityOf, RoomIsKept
    <3>4. stack \in Nat /\ stackCapacity \in Nat  BY <1>1, TaskConstants DEF TypeOK
    <3> QED  BY <3>2, <3>3, <3>4
  <2> QED  BY <2>1, <2>2
<1>4. stack \in Nat /\ stackCapacity \in Nat /\ stack <= Base(n)
  BY <1>1, TaskConstants DEF TypeOK, FramesLieInOrder
<1>5. Base(n) <= End(n)
  <2>1. Base(n) + ArityOf(n) + LocalCount[frames[n].fn] <= End(n)  BY <1>1 DEF FramesLieInOrder
  <2> QED  BY <1>2, <1>3, <2>1
<1>6. \A i \in 1 .. End(n) - Base(n) : At(Base(n) + i - 1) \in Content
  <2> SUFFICES ASSUME NEW i \in 1 .. End(n) - Base(n) PROVE At(Base(n) + i - 1) \in Content
    OBVIOUS
  <2>1. Base(n) + i - 1 \in Nat /\ stack <= Base(n) + i - 1 /\ Base(n) + i - 1 < stack + stackCapacity
    BY <1>2, <1>3, <1>4
  <2> QED  BY <1>1, <2>1, Cells
<1>7. SlotsOf(n) \in Seq(Content) /\ Len(SlotsOf(n)) = End(n) - Base(n)
  <2>1. End(n) - Base(n) \in Nat  BY <1>2, <1>3, <1>5
  <2> QED  BY <1>6, <2>1 DEF SlotsOf
<1> QED  BY <1>2, <1>3, <1>4, <1>5, <1>7

LEMMA TopIsTyped ==
    TaskInv /\ Running =>
        /\ TopSlots \in Seq(Content) /\ Len(TopSlots) = sp - locals
        /\ sp - locals \in Nat /\ Len(frames) \in Index
        /\ SlotsOf(Len(frames)) = TopSlots
        /\ \A n \in Index : n # Len(frames) => End(n) <= locals
<1> SUFFICES ASSUME TaskInv, Running
             PROVE  /\ TopSlots \in Seq(Content) /\ Len(TopSlots) = sp - locals
                    /\ sp - locals \in Nat /\ Len(frames) \in Index
                    /\ SlotsOf(Len(frames)) = TopSlots
                    /\ \A n \in Index : n # Len(frames) => End(n) <= locals
  OBVIOUS
<1>1. Len(frames) \in Index /\ Base(Len(frames)) = locals /\ End(Len(frames)) = sp
  BY RunningFacts DEF End
<1>2. SlotsOf(Len(frames)) = TopSlots  BY <1>1 DEF SlotsOf, TopSlots
<1>3. sp - locals \in Nat
  BY <1>1, SlotsAreTyped
<1>4. ASSUME NEW n \in Index, n # Len(frames) PROVE End(n) <= locals
  <2>1. n + 1 \in Index /\ n + 1 <= Len(frames)
    BY <1>4, RunningFacts DEF Index
  <2>2. End(n) = Base(n + 1)  BY <1>4 DEF End, Base
  <2> QED  BY <1>1, <2>1, <2>2 DEF TaskInv, FramesLieInOrder
<1> QED  BY <1>1, <1>2, <1>3, <1>4, SlotsAreTyped

LEMMA CallsAreSeq ==
    TypeOK => /\ Len(Calls) = Len(frames) /\ DOMAIN Calls = Index
              /\ \A n \in Index : Calls[n] = Activation(n) /\ Activation(n).slots = SlotsOf(n)
                                 /\ Activation(n).fn = frames[n].fn
              /\ (Calls = <<>>) = (frames = <<>>)
<1> SUFFICES ASSUME TypeOK
             PROVE  /\ Len(Calls) = Len(frames) /\ DOMAIN Calls = Index
                    /\ \A n \in Index : /\ Calls[n] = Activation(n)
                                        /\ Activation(n).slots = SlotsOf(n)
                                        /\ Activation(n).fn = frames[n].fn
                    /\ (Calls = <<>>) = (frames = <<>>)
  OBVIOUS
<1>1. Len(frames) \in Nat  BY DEF TypeOK
<1>2. Len(Calls) = Len(frames) /\ DOMAIN Calls = Index
  <2> HIDE DEF Activation
  <2> QED  BY <1>1 DEF Calls, Index
<1>3. \A n \in Index : Calls[n] = Activation(n)  BY DEF Calls, Index
<1>4. \A n \in Index : Activation(n).slots = SlotsOf(n) /\ Activation(n).fn = frames[n].fn
  BY DEF Activation, SlotsOf, Base
<1>5. (Calls = <<>>) = (frames = <<>>)
  <2>1. CASE frames = <<>>
    <3>1. Len(frames) = 0  BY <2>1
    <3>2. Calls = [n \in 1 .. 0 |-> Activation(n)]  BY <3>1 DEF Calls
    <3>3. Calls = <<>>  BY <3>2
    <3> QED  BY <2>1, <3>3
  <2>2. CASE frames # <<>>
    <3>1. Len(frames) # 0  BY <2>2, EmptySeq DEF TypeOK
    <3>2. Calls # <<>>
      <4> HIDE DEF Calls
      <4> QED  BY <1>2, <3>1
    <3> QED  BY <2>2, <3>2
  <2> QED  BY <2>1, <2>2
<1> QED  BY <1>2, <1>3, <1>4, <1>5
LEMMA LenCalls == TypeOK => Len(Calls) = Len(frames)
BY CallsAreSeq

-----------------------------------------------------------------------------
(* A step of the running activation: it moves no frame and writes no cell  *)
(* below its own.                                                          *)
TopStep ==
    /\ Running /\ Running'
    /\ UNCHANGED <<stack, locals, fn>>
    /\ Len(frames') = Len(frames)
    /\ \A n \in Index : /\ frames'[n].fn = frames[n].fn
                        /\ frames'[n].stackBase = Base(n)
                        /\ n # Len(frames) => frames'[n].ip = frames[n].ip
    /\ \A i \in 0 .. locals - stack - 1 : mem'[i] = mem[i]

LEMMA TopBecomes ==
    ASSUME TaskInv, TaskInv', TopStep
    PROVE  Calls' = [Calls EXCEPT ![Len(Calls)] =
                       [fn |-> Calls[Len(Calls)].fn, pc |-> ip', slots |-> TopSlots']]
<1> DEFINE top == [fn |-> Calls[Len(Calls)].fn, pc |-> ip', slots |-> TopSlots']
<1>0. TypeOK /\ TypeOK' /\ Running /\ Running'  BY DEF TaskInv, TopStep
<1>1. PICK len \in Nat \ {0} : len = Len(frames)  BY <1>0, RunningFacts
<1>s. /\ stack' = stack /\ locals' = locals
      /\ \A n \in Index : /\ frames'[n].fn = frames[n].fn
                          /\ frames'[n].stackBase = Base(n)
                          /\ n # len => frames'[n].ip = frames[n].ip
  BY <1>1 DEF TopStep
<1>2. Len(frames') = len /\ Index = 1 .. len /\ Index' = 1 .. len /\ len \in Index
  BY <1>1 DEF TopStep, Index
<1>3. Len(Calls) = len /\ Len(Calls') = len /\ DOMAIN Calls = 1 .. len
  <2>1. TypeOK' => (Len(Calls) = Len(frames))'  BY LenCalls, PTL
  <2> QED  BY <1>0, <1>1, <1>2, <2>1, CallsAreSeq
<1>4. Calls' = [n \in 1 .. len |-> Calls'[n]]  BY <1>2 DEF Calls
<1>5. Calls'[len] = top
  <2>1. Calls'[len] = [fn |-> frames'[len].fn, pc |-> ip', slots |-> SlotsOf(len)']
    BY <1>2 DEF Calls, Activation, SlotsOf, Base
  <2>2. SlotsOf(len)' = TopSlots'
    <3>1. TaskInv' /\ Running' => (SlotsOf(Len(frames)) = TopSlots)'  BY TopIsTyped, PTL
    <3>2. (SlotsOf(Len(frames)) = TopSlots)'  BY <1>0, <3>1
    <3> QED  BY <1>2, <3>2 DEF SlotsOf, End, Base
  <2>3. Calls[len] = [fn |-> frames[len].fn, pc |-> ip, slots |-> SlotsOf(len)]
    BY <1>1, <1>2 DEF Calls, Activation, SlotsOf, Base
  <2>4. top = [fn |-> frames[len].fn, pc |-> ip', slots |-> TopSlots']
    BY <1>3, <2>3
  <2>5. frames'[len].fn = frames[len].fn  BY <1>2, <1>s
  <2> QED  BY <2>1, <2>2, <2>4, <2>5
<1>6. ASSUME NEW n \in 1 .. len, n # len PROVE Calls'[n] = Calls[n]
  <2>1. n \in Index /\ n + 1 \in Index  BY <1>1, <1>2, <1>6
  <2>2. End(n) = Base(n + 1) /\ End(n)' = Base(n + 1) /\ Base(n)' = Base(n)
    <3>1. frames'[n].stackBase = Base(n) /\ frames'[n + 1].stackBase = Base(n + 1)
      BY <1>s, <2>1
    <3> QED  BY <1>1, <1>2, <1>6, <3>1 DEF End, Base
  <2>3. /\ Base(n) \in Nat /\ End(n) \in Nat /\ stack \in Nat /\ locals \in Nat
        /\ stack <= Base(n) /\ Base(n) <= End(n) /\ End(n) <= locals
    BY <1>0, <1>1, <1>6, <2>1, SlotsAreTyped, TopIsTyped DEF TypeOK
  <2>4. \A i \in 1 .. End(n) - Base(n) : mem'[(Base(n) + i - 1) - stack] = mem[(Base(n) + i - 1) - stack]
    <3> SUFFICES ASSUME NEW i \in 1 .. End(n) - Base(n)
                 PROVE  mem'[(Base(n) + i - 1) - stack] = mem[(Base(n) + i - 1) - stack]
      OBVIOUS
    <3>1. (Base(n) + i - 1) - stack \in 0 .. locals - stack - 1  BY <2>3
    <3> QED  BY <3>1 DEF TopStep
  <2>5. SlotsOf(n)' = SlotsOf(n)
    <3> DEFINE e == End(n)
               b == Base(n)
    <3>1. SlotsOf(n) = [i \in 1 .. e - b |-> mem[(b + i - 1) - stack]]  BY DEF SlotsOf, At
    <3>2. SlotsOf(n)' = [i \in 1 .. End(n)' - Base(n)' |-> mem'[(Base(n)' + i - 1) - stack']]
      BY DEF SlotsOf, At
    <3>3. End(n)' = e /\ Base(n)' = b /\ stack' = stack  BY <1>s, <2>2
    <3>4. SlotsOf(n)' = [i \in 1 .. e - b |-> mem'[(b + i - 1) - stack]]  BY <3>2, <3>3
    <3> HIDE DEF e, b
    <3>5. \A i \in 1 .. e - b : mem'[(b + i - 1) - stack] = mem[(b + i - 1) - stack]
      BY <2>4 DEF e, b
    <3> QED  BY <3>1, <3>4, <3>5
  <2>6. Calls[n] = [fn |-> frames[n].fn, pc |-> frames[n].ip, slots |-> SlotsOf(n)]
    BY <1>1, <1>6 DEF Calls, Activation, SlotsOf, Base
  <2>7. Calls'[n] = [fn |-> frames'[n].fn, pc |-> frames'[n].ip, slots |-> SlotsOf(n)']
    BY <1>2, <1>6 DEF Calls, Activation, SlotsOf, Base
  <2>8. frames'[n].fn = frames[n].fn /\ frames'[n].ip = frames[n].ip
    BY <1>6, <2>1, <1>s
  <2> QED  BY <2>5, <2>6, <2>7, <2>8
<1>7. [Calls EXCEPT ![Len(Calls)] = top] = [n \in 1 .. len |-> IF n = len THEN top ELSE Calls[n]]
  <2> HIDE DEF top, Calls
  <2> QED  BY <1>3
<1> QED
  <2> HIDE DEF top, Calls
  <2>1. \A n \in 1 .. len : Calls'[n] = IF n = len THEN top ELSE Calls[n]  BY <1>5, <1>6
  <2>2. Calls' = [Calls EXCEPT ![Len(Calls)] = top]  BY <1>4, <1>7, <2>1
  <2> QED  BY <2>2 DEF top

LEMMA TopOfCalls ==
    ASSUME TaskInv, Running
    PROVE  /\ A!Top.slots = TopSlots /\ A!Top = Calls[Len(Calls)]
           /\ [n \in 1 .. Len(frames) |-> Activation(n)] = Calls
           /\ Calls # <<>>
<1>1. TypeOK /\ frames # <<>>  BY DEF TaskInv, TopIsRunning
<1>2. A!Top = Calls[Len(Calls)]  BY DEF A!Top, Calls
<1>3. Calls[Len(Calls)].slots = TopSlots  BY <1>1, CallsAreSeq, TopIsTyped
<1> QED  BY <1>1, <1>2, <1>3, CallsAreSeq DEF Calls

LEMMA Becomes ==
    ASSUME TaskInv, TaskInv', TopStep, NEW slots, TopSlots' = slots, NEW l, ip' = l
    PROVE  A!Become(slots, l)
<1>1. Calls' = [Calls EXCEPT ![Len(Calls)] =
                  [fn |-> Calls[Len(Calls)].fn, pc |-> l, slots |-> slots]]
  BY TopBecomes
<1>2. A!Become(slots, l) <=>
        Calls' = [Calls EXCEPT ![Len(Calls)] = [fn |-> Calls[Len(Calls)].fn, pc |-> l, slots |-> slots]]
  BY DEF A!Become, A!With, A!SetTop, A!Top, Calls
<1> QED  BY <1>1, <1>2
-----------------------------------------------------------------------------
LEMMA TopSlotsAfter ==
    ASSUME TaskInv, TaskInv', TopStep
    PROVE  /\ locals \in Nat /\ stack \in Nat /\ sp \in Nat /\ sp' \in Nat
           /\ stack <= locals /\ locals <= sp /\ locals <= sp'
           /\ TopSlots \in Seq(Content) /\ Len(TopSlots) = sp - locals
           /\ TopSlots' \in Seq(Content) /\ Len(TopSlots') = sp' - locals
           /\ \A i \in 1 .. sp - locals : TopSlots[i] = mem[(locals - stack) + (i - 1)]
           /\ \A i \in 1 .. sp' - locals : TopSlots'[i] = mem'[(locals - stack) + (i - 1)]
<1>1. Running /\ Running' /\ stack' = stack /\ locals' = locals  BY DEF TopStep
<1>2. /\ TopSlots \in Seq(Content) /\ Len(TopSlots) = sp - locals
      /\ locals \in Nat /\ stack \in Nat /\ sp \in Nat /\ stack <= locals /\ locals <= sp
  <2>1. /\ locals \in Nat /\ stack \in Nat /\ sp \in Nat /\ stack <= locals  BY <1>1, RunningRoom
  <2>2. sp - locals \in Nat  BY <1>1, TopIsTyped
  <2> QED  BY <1>1, <2>1, <2>2, TopIsTyped
<1>3. /\ TopSlots' \in Seq(Content) /\ Len(TopSlots') = sp' - locals
      /\ sp' \in Nat /\ locals <= sp'
  <2>1. TaskInv' /\ Running' =>
          (/\ TopSlots \in Seq(Content) /\ Len(TopSlots) = sp - locals
           /\ sp - locals \in Nat /\ Len(frames) \in Index
           /\ SlotsOf(Len(frames)) = TopSlots
           /\ \A n \in Index : n # Len(frames) => End(n) <= locals)'
    BY TopIsTyped, PTL
  <2>2. TopSlots' \in Seq(Content) /\ Len(TopSlots') = sp' - locals /\ sp' - locals \in Nat
    BY <1>1, <2>1
  <2>3. sp' \in Nat  BY DEF TaskInv, TypeOK
  <2>4. locals \in Nat  BY <1>2
  <2>5. locals <= sp'
    <3>1. PICK q \in Nat : q = sp'  BY <2>3
    <3>2. q - locals \in Nat  BY <2>2, <3>1
    <3>3. locals <= q  BY <2>4, <3>2
    <3> QED  BY <3>1, <3>3
  <2> QED  BY <2>2, <2>3, <2>5
<1>4. \A i \in 1 .. sp - locals : TopSlots[i] = mem[(locals - stack) + (i - 1)]
  <2> SUFFICES ASSUME NEW i \in 1 .. sp - locals
               PROVE  TopSlots[i] = mem[(locals - stack) + (i - 1)]
    OBVIOUS
  <2>1. TopSlots[i] = mem[(locals + i - 1) - stack]  BY DEF TopSlots, At
  <2>2. (locals + i - 1) - stack = (locals - stack) + (i - 1)  BY <1>2
  <2> QED  BY <2>1, <2>2
<1>5. \A i \in 1 .. sp' - locals : TopSlots'[i] = mem'[(locals - stack) + (i - 1)]
  <2> SUFFICES ASSUME NEW i \in 1 .. sp' - locals
               PROVE  TopSlots'[i] = mem'[(locals - stack) + (i - 1)]
    OBVIOUS
  <2>1. TopSlots'[i] = mem'[(locals + i - 1) - stack]  BY <1>1 DEF TopSlots, At
  <2>2. (locals + i - 1) - stack = (locals - stack) + (i - 1)  BY <1>2
  <2> QED  BY <2>1, <2>2
<1> QED  BY <1>2, <1>3, <1>4, <1>5

LEMMA StepOfTop ==
    ASSUME TaskInv, TaskInv', TopStep, NEW slots, TopSlots' = slots
    PROVE  A!Become(slots, ip') /\ A!Top.slots = TopSlots /\ ip' \in A!Loc
           /\ [n \in 1 .. Len(frames) |-> Activation(n)] # <<>>
<1>1. Running  BY DEF TopStep
<1>2. ip' \in A!Loc  BY DEF TaskInv, TypeOK, Loc, A!Loc
<1>3. A!Become(slots, ip')  BY Becomes
<1> QED  BY <1>1, <1>2, <1>3, TopOfCalls

(* The topmost n slots make room for at most one value.                    *)
LEMMA ComputeStep ==
    ASSUME TaskInv, TaskInv', TopStep, NEW n \in 0 .. sp - locals, NEW new \in SeqOf(Value, 1),
           sp' = (sp - n) + Len(new),
           \A i \in 1 .. Len(new) : mem'[(sp - n) - stack] = new[i],
           \A i \in 0 .. (sp - n) - stack - 1 : mem'[i] = mem[i]
    PROVE  A!Next
<1> DEFINE k == sp - locals
           own == SubSeq(TopSlots, 1, k - n)
<1>1. k \in Nat /\ k - n \in Nat /\ locals - stack \in Nat
      /\ (sp - n) - stack = (locals - stack) + (k - n) /\ sp' - locals = (k - n) + Len(new)
      /\ Len(new) \in {0, 1} /\ new \in Seq(Content)
  <2>1. /\ locals \in Nat /\ stack \in Nat /\ sp \in Nat /\ stack <= locals /\ locals <= sp
    BY TopSlotsAfter
  <2>2. Len(new) \in {0, 1} /\ new \in Seq(Content)
    <3>1. CASE new = <<>>
      BY <3>1
    <3>2. ASSUME NEW v \in Value, new = <<v>> PROVE Len(new) \in {0, 1} /\ new \in Seq(Content)
      BY <3>2 DEF Content
    <3> QED  BY <3>1, <3>2, OneResult
  <2>3. k \in Nat /\ k - n \in Nat /\ locals - stack \in Nat  BY <2>1
  <2>4. (sp - n) - stack = (locals - stack) + (k - n)  BY <2>1
  <2>5. sp' - locals = (k - n) + Len(new)  BY <2>1, <2>2
  <2> HIDE DEF k
  <2> QED  BY <2>2, <2>3, <2>4, <2>5
<1>2. /\ TopSlots \in Seq(Content) /\ Len(TopSlots) = k /\ TopSlots' \in Seq(Content)
      /\ Len(TopSlots') = (k - n) + Len(new)
      /\ \A i \in 1 .. k : TopSlots[i] = mem[(locals - stack) + (i - 1)]
      /\ \A i \in 1 .. (k - n) + Len(new) : TopSlots'[i] = mem'[(locals - stack) + (i - 1)]
  BY <1>1, TopSlotsAfter
<1> HIDE DEF k
<1>3. own \in Seq(Content) /\ Len(own) = k - n /\ \A i \in 1 .. k - n : own[i] = TopSlots[i]
  <2>1. PICK j \in Nat : j = k - n  BY <1>1
  <2>2. \A i \in 1 .. j : TopSlots[i] \in Content
    BY <1>1, <1>2, <2>1, ElementOfSeq
  <2>3. /\ SubSeq(TopSlots, 1, j) \in Seq(Content)
        /\ Len(SubSeq(TopSlots, 1, j)) = IF 1 <= j THEN j - 1 + 1 ELSE 0
        /\ \A i \in 1 .. j - 1 + 1 : SubSeq(TopSlots, 1, j)[i] = TopSlots[1 + i - 1]
    BY <2>2, SubSeqProperties
  <2> QED  BY <2>1, <2>3
<1> HIDE DEF own
<1>4. own \o new \in Seq(Content) /\ Len(own \o new) = (k - n) + Len(new)
      /\ \A i \in 1 .. (k - n) + Len(new) :
           (own \o new)[i] = IF i <= k - n THEN own[i] ELSE new[i - (k - n)]
  <2>1. /\ own \o new \in Seq(Content) /\ Len(own \o new) = Len(own) + Len(new)
        /\ \A i \in 1 .. Len(own) + Len(new) :
              (own \o new)[i] = IF i <= Len(own) THEN own[i] ELSE new[i - Len(own)]
    BY <1>1, <1>3, ConcatProperties
  <2> QED  BY <1>3, <2>1
<1>5. ASSUME NEW i \in 1 .. (k - n) + Len(new) PROVE TopSlots'[i] = (own \o new)[i]
  <2>1. CASE i <= k - n
    <3>1. (locals - stack) + (i - 1) \in 0 .. (sp - n) - stack - 1  BY <1>1, <2>1
    <3>2. mem'[(locals - stack) + (i - 1)] = mem[(locals - stack) + (i - 1)]  BY <3>1
    <3>3. i \in 1 .. k /\ i \in 1 .. k - n  BY <1>1, <2>1
    <3>4. (own \o new)[i] = own[i] /\ own[i] = TopSlots[i]  BY <1>3, <1>4, <2>1, <3>3
    <3>5. TopSlots[i] = mem[(locals - stack) + (i - 1)]  BY <1>2, <3>3
    <3>6. TopSlots'[i] = mem'[(locals - stack) + (i - 1)]  BY <1>2
    <3> QED  BY <3>2, <3>4, <3>5, <3>6
  <2>2. CASE ~(i <= k - n)
    <3>1. Len(new) = 1 /\ i = (k - n) + 1  BY <1>1, <2>2
    <3>2. mem'[(sp - n) - stack] = new[1]  BY <3>1
    <3>3. (locals - stack) + (i - 1) = (sp - n) - stack /\ i - (k - n) = 1  BY <1>1, <3>1
    <3>4. (own \o new)[i] = new[1]  BY <1>4, <2>2, <3>3
    <3>5. TopSlots'[i] = mem'[(locals - stack) + (i - 1)]  BY <1>2
    <3> QED  BY <3>2, <3>3, <3>4, <3>5
  <2> QED  BY <2>1, <2>2
<1>6. TopSlots' = own \o new  BY <1>2, <1>4, <1>5, SeqEqual
<1>7. own = SubSeq(TopSlots, 1, Len(TopSlots) - n)  BY <1>2 DEF own
<1>8. A!Compute(n, new, ip')  BY <1>6, <1>7, StepOfTop DEF A!Compute
<1>9. n \in 0 .. Len(A!Top.slots)  BY <1>2, StepOfTop DEF k
<1>10. ip' \in A!Loc /\ [m \in 1 .. Len(frames) |-> Activation(m)] # <<>>  BY StepOfTop
<1>11. new \in A!SeqOf(Value, 1)  BY DEF SeqOf, A!SeqOf
<1> QED  BY <1>8, <1>9, <1>10, <1>11, Zenon DEF A!Next
-----------------------------------------------------------------------------
LEMMA WriteLeavesBelow ==
    ASSUME TypeOK, NEW p \in Nat, stack <= p, p < stack + stackCapacity, NEW v
    PROVE  /\ Write(p, v)[p - stack] = v
           /\ \A i \in 0 .. p - stack - 1 : Write(p, v)[i] = mem[i]
           /\ \A i \in 0 .. stackCapacity - 1 : i # p - stack => Write(p, v)[i] = mem[i]
<1>1. stack \in Nat /\ stackCapacity \in Nat /\ mem \in [0 .. stackCapacity - 1 -> Content]
  BY TaskConstants DEF TypeOK
<1>2. PICK j \in Nat : j = p - stack /\ j \in 0 .. stackCapacity - 1  BY <1>1
<1>3. Write(p, v) = [mem EXCEPT ![j] = v]  BY <1>2 DEF Write
<1> QED  BY <1>1, <1>2, <1>3

LEMMA ComputingIsTopStep ==
    ASSUME TaskInv, Running, Computing, \A i \in 0 .. locals - stack - 1 : mem'[i] = mem[i]
    PROVE  TopStep
BY DEF TopStep, Computing, Running, Base

LEMMA OneIsResult ==
    ASSUME NEW v \in Value
    PROVE  <<v>> \in SeqOf(Value, 1) /\ Len(<<v>>) = 1 /\ <<v>>[1] = v
           /\ <<>> \in SeqOf(Value, 1)
<1>1. <<v>> \in [1 .. 1 -> Value] /\ 1 \in 0 .. 1  OBVIOUS
<1>2. <<>> \in [1 .. 0 -> Value] /\ 0 \in 0 .. 1  OBVIOUS
<1> QED  BY <1>1, <1>2 DEF SeqOf

LEMMA NoneIsResult == <<>> \in SeqOf(Value, 1) /\ Len(<<>>) = 0
<1>1. <<>> \in [1 .. 0 -> Value] /\ 0 \in 0 .. 1  OBVIOUS
<1> QED  BY <1>1 DEF SeqOf

(* A value takes the place of the topmost n operands.                      *)
LEMMA PushStep ==
    ASSUME TaskInv, TaskInv', Running, Computing, NEW n \in Nat, NEW v \in Value,
           n <= sp - locals, sp - n < stack + stackCapacity,
           mem' = Write(sp - n, v), sp' = (sp - n) + 1
    PROVE  A!Next
<1>0. TypeOK  BY DEF TaskInv
<1>1. /\ locals \in Nat /\ stack \in Nat /\ sp \in Nat /\ stack <= locals
      /\ sp - locals \in Nat
  BY RunningRoom, TopIsTyped
<1>2. PICK p \in Nat : p = sp - n /\ locals <= p /\ stack <= p  BY <1>1
<1>3. /\ Write(p, v)[p - stack] = v
      /\ \A i \in 0 .. p - stack - 1 : Write(p, v)[i] = mem[i]
  BY <1>0, <1>2, WriteLeavesBelow
<1>4. mem' = Write(p, v)  BY <1>2
<1>5. \A i \in 0 .. locals - stack - 1 : mem'[i] = mem[i]
  <2>1. \A i \in 0 .. locals - stack - 1 : i \in 0 .. p - stack - 1  BY <1>1, <1>2
  <2> QED  BY <1>3, <1>4, <2>1
<1>6. TopStep  BY <1>5, ComputingIsTopStep
<1>7. n \in 0 .. sp - locals /\ <<v>> \in SeqOf(Value, 1) /\ Len(<<v>>) = 1 /\ <<v>>[1] = v
  BY <1>1, OneIsResult
<1>8. \A i \in 1 .. Len(<<v>>) : mem'[(sp - n) - stack] = <<v>>[i]
  BY <1>2, <1>3, <1>4, <1>7
<1>9. \A i \in 0 .. (sp - n) - stack - 1 : mem'[i] = mem[i]  BY <1>2, <1>3, <1>4
<1>10. sp' = (sp - n) + Len(<<v>>)  BY <1>7
<1> QED  BY <1>6, <1>7, <1>8, <1>9, <1>10, ComputeStep

(* The topmost n operands are dropped.                                     *)
LEMMA PopStep ==
    ASSUME TaskInv, TaskInv', Running, Computing, NEW n \in Nat,
           n <= sp - locals, mem' = mem, sp' = sp - n
    PROVE  A!Next
<1>1. sp \in Nat /\ locals \in Nat /\ sp - locals \in Nat  BY RunningRoom, TopIsTyped
<1>2. TopStep  BY ComputingIsTopStep
<1>3. n \in 0 .. sp - locals  BY <1>1
<1>4. sp' = (sp - n) + Len(<<>>)  BY <1>1, NoneIsResult
<1>5. \A i \in 1 .. Len(<<>>) : mem'[(sp - n) - stack] = <<>>[i]  BY NoneIsResult
<1>6. \A i \in 0 .. (sp - n) - stack - 1 : mem'[i] = mem[i]  OBVIOUS
<1> QED  BY <1>2, <1>3, <1>4, <1>5, <1>6, NoneIsResult, ComputeStep

LEMMA LoadStep == ASSUME TaskInv, TaskInv', NEW v \in Value, Load(v) PROVE A!Next
<1>1. Running /\ HasRoom(1) /\ Computing /\ mem' = Write(sp, v) /\ sp' = sp + 1
  BY DEF Load
<1>2. /\ sp \in Nat /\ locals \in Nat /\ sp - locals \in Nat /\ sp < stack + stackCapacity
  <2>1. sp + 1 <= stack + stackCapacity  BY <1>1, RunningRoom DEF HasRoom
  <2> QED  BY <1>1, <2>1, RunningRoom, TopIsTyped
<1>3. sp - 0 = sp  BY <1>2
<1>4. 0 <= sp - locals /\ sp - 0 < stack + stackCapacity
      /\ mem' = Write(sp - 0, v) /\ sp' = (sp - 0) + 1
  BY <1>1, <1>2, <1>3
<1> QED  BY <1>1, <1>4, PushStep

LEMMA CombineStep ==
    ASSUME TaskInv, TaskInv', NEW n \in 1 .. 2, NEW v \in Value, Combine(n, v) PROVE A!Next
<1>1. Running /\ Operands >= n /\ Computing /\ mem' = Write(sp - n, v) /\ sp' = sp - n + 1
  BY DEF Combine
<1>2. n <= sp - locals /\ sp - n < stack + stackCapacity  BY <1>1, RunningRoom DEF Operands
<1>3. sp' = (sp - n) + 1 /\ n \in Nat  BY <1>1
<1> QED  BY <1>1, <1>2, <1>3, PushStep

LEMMA DropStep == ASSUME TaskInv, TaskInv', NEW n \in 1 .. 2, Drop(n) PROVE A!Next
<1>1. Running /\ Operands >= n /\ Computing /\ mem' = mem /\ sp' = sp - n
  BY DEF Drop
<1>2. n <= sp - locals /\ n \in Nat  BY <1>1, RunningRoom DEF Operands
<1> QED  BY <1>1, <1>2, PopStep

LEMMA JumpStep ==
    ASSUME TaskInv, TaskInv', NEW n \in 0 .. 1, NEW l \in Loc, Jump(n, l) PROVE A!Next
<1>1. Running /\ Operands >= n /\ Computing /\ mem' = mem /\ sp' = sp - n
  BY DEF Jump
<1>2. n <= sp - locals /\ n \in Nat  BY <1>1, RunningRoom DEF Operands
<1> QED  BY <1>1, <1>2, PopStep

LEMMA InvokeForeignStep ==
    ASSUME TaskInv, TaskInv', NEW f \in Foreign, NEW result \in SeqOf(Value, 1),
           InvokeForeign(f, result)
    PROVE  A!Next
<1>0. TypeOK /\ Arity[f] \in Nat  BY TaskConstants DEF Function, TaskInv
<1>1. /\ Running /\ Operands >= Arity[f]
      /\ frames' = [frames EXCEPT ![Len(frames)].ip = ip + 1]
      /\ UNCHANGED <<stack, stackCapacity, framesAt, frameCapacity, frame, fn, locals, status>>
  BY RunningFacts DEF InvokeForeign
<1>2. /\ locals \in Nat /\ stack \in Nat /\ sp \in Nat /\ stack <= locals
      /\ sp - locals \in Nat /\ Arity[f] \in 0 .. sp - locals
  <2>1. locals + Arity[fn] + LocalCount[fn] <= sp - Arity[f]
    BY <1>0, <1>1, RunningRoom DEF Operands
  <2>2. Arity[f] <= sp - locals  BY <1>0, <1>1, <2>1, RunningRoom
  <2> QED  BY <1>0, <1>1, <2>2, RunningRoom, TopIsTyped
<1>3. PICK p \in Nat : p = sp - Arity[f] /\ locals <= p /\ stack <= p  BY <1>0, <1>2
<1>4. /\ sp' = (sp - Arity[f]) + Len(result)
      /\ \A i \in 1 .. Len(result) : mem'[(sp - Arity[f]) - stack] = result[i]
      /\ \A i \in 0 .. (sp - Arity[f]) - stack - 1 : mem'[i] = mem[i]
  <2>1. CASE result = <<>>
    <3>1. sp' = sp - Arity[f] /\ mem' = mem /\ Len(result) = 0  BY <2>1 DEF InvokeForeign
    <3> QED  BY <1>0, <1>2, <3>1
  <2>2. ASSUME NEW v \in Value, result = <<v>>
        PROVE  /\ sp' = (sp - Arity[f]) + Len(result)
               /\ \A i \in 1 .. Len(result) : mem'[(sp - Arity[f]) - stack] = result[i]
               /\ \A i \in 0 .. (sp - Arity[f]) - stack - 1 : mem'[i] = mem[i]
    <3>1. Len(result) = 1 /\ result # <<>> /\ result[1] = v  BY <2>2
    <3>2. sp' = sp - (Arity[f] - 1) /\ mem' = Write(sp - Arity[f], v)
      BY <3>1 DEF InvokeForeign
    <3>3. p < stack + stackCapacity
      <4>1. CASE Arity[f] = 0
        <5>1. HasRoom(1)  BY <3>1, <4>1 DEF InvokeForeign
        <5>2. sp + 1 <= stack + stackCapacity  BY <1>1, <5>1, RunningRoom DEF HasRoom
        <5> QED  BY <1>1, <1>2, <1>3, <4>1, <5>2, RunningRoom
      <4>2. CASE Arity[f] >= 1
        BY <1>0, <1>1, <1>3, <4>2, RunningRoom
      <4> QED  BY <1>0, <4>1, <4>2
    <3>4. /\ mem'[p - stack] = v
          /\ \A i \in 0 .. p - stack - 1 : mem'[i] = mem[i]
      BY <1>0, <1>3, <3>2, <3>3, WriteLeavesBelow
    <3>5. sp' = (sp - Arity[f]) + 1  BY <1>0, <1>2, <3>2
    <3> QED  BY <1>3, <3>1, <3>4, <3>5
  <2> QED  BY <2>1, <2>2, OneResult
<1>5. \A i \in 0 .. locals - stack - 1 : mem'[i] = mem[i]
  <2>1. \A i \in 0 .. locals - stack - 1 : i \in 0 .. p - stack - 1  BY <1>2, <1>3
  <2>2. \A i \in 0 .. p - stack - 1 : mem'[i] = mem[i]  BY <1>3, <1>4
  <2> QED  BY <2>1, <2>2
<1>6. TopStep
  <2>1. /\ Len(frames') = Len(frames)
        /\ \A n \in Index : /\ frames'[n].fn = frames[n].fn
                            /\ frames'[n].stackBase = frames[n].stackBase
                            /\ n # Len(frames) => frames'[n].ip = frames[n].ip
    <3>1. frames \in Seq(FrameType) /\ Len(frames) \in 1 .. Len(frames) /\ ip + 1 \in Loc
      BY <1>0, <1>1, RunningFacts, AdvanceStays DEF TypeOK, Index, InvokeForeign
    <3> QED  BY <1>1, <3>1, SetIp DEF Index
  <2> QED  BY <1>1, <1>5, <2>1 DEF TopStep, Running, Base
<1> QED  BY <1>2, <1>4, <1>6, ComputeStep
-----------------------------------------------------------------------------
LEMMA LoadLocalStep == ASSUME TaskInv, TaskInv', LoadLocal PROVE A!Next
<1>0. TypeOK  BY DEF TaskInv
<1>1. Running /\ HasRoom(1) /\ Computing /\ sp' = sp + 1
  BY DEF LoadLocal
<1>2. PICK j \in 0 .. Slots - 1 : mem' = Write(sp, At(locals + j))  BY DEF LoadLocal
<1>3. /\ locals \in Nat /\ stack \in Nat /\ sp \in Nat /\ stack <= locals /\ stack <= sp
      /\ sp - locals \in Nat /\ sp < stack + stackCapacity
      /\ locals + j < sp /\ j \in Nat /\ locals - stack \in Nat
  <2>1. sp + 1 <= stack + stackCapacity  BY <1>1, RunningRoom DEF HasRoom
  <2> QED  BY <1>1, <2>1, RunningRoom, TopIsTyped, SlotsAreCells
<1> DEFINE v == At(locals + j)
           k == sp - locals
<1>4. mem'[sp - stack] = v /\ \A i \in 0 .. sp - stack - 1 : mem'[i] = mem[i]
  BY <1>0, <1>2, <1>3, WriteLeavesBelow
<1>5. TopStep
  <2>1. \A i \in 0 .. locals - stack - 1 : i \in 0 .. sp - stack - 1  BY <1>3
  <2> QED  BY <1>1, <1>4, <2>1, ComputingIsTopStep
<1>6. /\ TopSlots \in Seq(Content) /\ Len(TopSlots) = k
      /\ TopSlots' \in Seq(Content) /\ Len(TopSlots') = sp' - locals
      /\ \A i \in 1 .. k : TopSlots[i] = mem[(locals - stack) + (i - 1)]
      /\ \A i \in 1 .. sp' - locals : TopSlots'[i] = mem'[(locals - stack) + (i - 1)]
  BY <1>5, TopSlotsAfter
<1>7. sp' - locals = k + 1 /\ k \in Nat /\ j + 1 \in 1 .. k  BY <1>1, <1>3
<1>8. v = TopSlots[j + 1]
  <2>1. (locals + j) - stack = (locals - stack) + ((j + 1) - 1)  BY <1>3
  <2> QED  BY <1>6, <1>7, <2>1 DEF At
<1>9. v \in Content
  BY <1>6, <1>7, <1>8, ElementOfSeq
<1> HIDE DEF v
<1>10. /\ Append(TopSlots, v) \in Seq(Content) /\ Len(Append(TopSlots, v)) = k + 1
       /\ \A i \in 1 .. k : Append(TopSlots, v)[i] = TopSlots[i]
       /\ Append(TopSlots, v)[k + 1] = v
  <2> HIDE DEF k
  <2> QED  BY <1>6, <1>7, <1>9, AppendProperties
<1>11. ASSUME NEW i \in 1 .. k + 1 PROVE TopSlots'[i] = Append(TopSlots, v)[i]
  <2>1. TopSlots'[i] = mem'[(locals - stack) + (i - 1)]  BY <1>6, <1>7
  <2>2. CASE i = k + 1
    <3>1. (locals - stack) + (i - 1) = sp - stack  BY <1>3, <2>2
    <3> QED  BY <1>4, <1>10, <2>1, <2>2, <3>1
  <2>3. CASE i # k + 1
    <3>1. i \in 1 .. k /\ (locals - stack) + (i - 1) \in 0 .. sp - stack - 1  BY <1>3, <1>7, <2>3
    <3>2. TopSlots[i] = mem[(locals - stack) + (i - 1)]  BY <1>6, <3>1
    <3> QED  BY <1>4, <1>10, <2>1, <3>1, <3>2
  <2> QED  BY <2>2, <2>3
<1>12. TopSlots' = Append(TopSlots, v)
  <2> HIDE DEF k
  <2>1. Len(TopSlots') = k + 1  BY <1>6, <1>7
  <2> QED  BY <1>6, <1>10, <1>11, <2>1, SeqEqual
<1>13. j + 1 \in 1 .. Len(A!Top.slots) /\ A!Top.slots = TopSlots
  BY <1>5, <1>6, <1>7, <1>12, StepOfTop
<1>14. A!Become(Append(A!Top.slots, A!Top.slots[j + 1]), ip')
  BY <1>5, <1>8, <1>12, <1>13, StepOfTop
<1>15. A!Fetch(ip')  BY <1>13, <1>14, Zenon DEF A!Fetch
<1>16. ip' \in A!Loc /\ [m \in 1 .. Len(frames) |-> Activation(m)] # <<>>  BY <1>5, StepOfTop
<1> QED  BY <1>15, <1>16, Zenon DEF A!Next

LEMMA StoreLocalStep == ASSUME TaskInv, TaskInv', StoreLocal PROVE A!Next
<1>0. TypeOK  BY DEF TaskInv
<1>1. Running /\ Operands >= 1 /\ Computing /\ sp' = sp - 1
  BY DEF StoreLocal
<1>2. PICK j \in 0 .. Slots - 1 : mem' = Write(locals + j, At(sp - 1))  BY DEF StoreLocal
<1>3. /\ locals \in Nat /\ stack \in Nat /\ sp \in Nat /\ stack <= locals
      /\ j \in Nat /\ locals + j < sp - 1 /\ sp <= stack + stackCapacity
      /\ locals - stack \in Nat /\ stackCapacity \in Nat
  <2>1. locals + (Arity[fn] + LocalCount[fn]) <= sp - 1 /\ Slots = Arity[fn] + LocalCount[fn]
    BY <1>1, RunningRoom DEF Operands, Slots
  <2> QED  BY <1>1, <2>1, RunningRoom
<1> DEFINE v == At(sp - 1)
           k == sp - locals
<1>4. /\ mem'[(locals + j) - stack] = v
      /\ \A i \in 0 .. (locals + j) - stack - 1 : mem'[i] = mem[i]
      /\ \A i \in 0 .. stackCapacity - 1 : i # (locals + j) - stack => mem'[i] = mem[i]
  BY <1>0, <1>2, <1>3, WriteLeavesBelow
<1>5. TopStep
  <2>1. \A i \in 0 .. locals - stack - 1 : i \in 0 .. (locals + j) - stack - 1  BY <1>3
  <2> QED  BY <1>1, <1>4, <2>1, ComputingIsTopStep
<1>6. /\ TopSlots \in Seq(Content) /\ Len(TopSlots) = k
      /\ TopSlots' \in Seq(Content) /\ Len(TopSlots') = sp' - locals
      /\ \A i \in 1 .. k : TopSlots[i] = mem[(locals - stack) + (i - 1)]
      /\ \A i \in 1 .. sp' - locals : TopSlots'[i] = mem'[(locals - stack) + (i - 1)]
  BY <1>5, TopSlotsAfter
<1>7. /\ sp' - locals = k - 1 /\ k \in Nat \ {0} /\ j + 1 \in 1 .. k - 1 /\ j + 1 \in 1 .. k
      /\ k - 1 \in Nat
  BY <1>1, <1>3
<1>8. v = TopSlots[k]
  <2>1. (sp - 1) - stack = (locals - stack) + (k - 1) /\ k \in 1 .. k  BY <1>3
  <2> QED  BY <1>6, <2>1 DEF At
<1>9. v \in Content
  BY <1>6, <1>7, <1>8, ElementOfSeq
<1> HIDE DEF v
<1> DEFINE set == [TopSlots EXCEPT ![j + 1] = v]
<1>10. /\ set \in Seq(Content) /\ Len(set) = k
       /\ \A i \in 1 .. k : set[i] = IF i = j + 1 THEN v ELSE TopSlots[i]
  BY <1>6, <1>7, <1>9, ExceptSeq
<1> HIDE DEF set
<1>11. /\ Front(set) \in Seq(Content) /\ Len(Front(set)) = k - 1
       /\ \A i \in 1 .. k - 1 : Front(set)[i] = set[i]
  <2>1. set # <<>>  BY <1>7, <1>10
  <2> QED  BY <1>10, <2>1, FrontOfSeq
<1>12. ASSUME NEW i \in 1 .. k - 1 PROVE TopSlots'[i] = Front(set)[i]
  <2>1. TopSlots'[i] = mem'[(locals - stack) + (i - 1)]  BY <1>6, <1>7
  <2>2. i \in 1 .. k /\ Front(set)[i] = IF i = j + 1 THEN v ELSE TopSlots[i]
    BY <1>7, <1>10, <1>11
  <2>3. CASE i = j + 1
    <3>1. (locals - stack) + (i - 1) = (locals + j) - stack  BY <1>3, <2>3
    <3> QED  BY <1>4, <2>1, <2>2, <2>3, <3>1
  <2>4. CASE i # j + 1
    <3>1. /\ (locals - stack) + (i - 1) \in 0 .. stackCapacity - 1
          /\ (locals - stack) + (i - 1) # (locals + j) - stack
      BY <1>3, <1>7, <2>4
    <3>2. TopSlots[i] = mem[(locals - stack) + (i - 1)]  BY <1>6, <2>2
    <3> QED  BY <1>4, <2>1, <2>2, <2>4, <3>1, <3>2
  <2> QED  BY <2>3, <2>4
<1>13. TopSlots' = Front(set)
  <2> HIDE DEF k
  <2>1. Len(TopSlots') = k - 1  BY <1>6, <1>7
  <2> QED  BY <1>6, <1>11, <1>12, <2>1, SeqEqual
<1>14. j + 1 \in 1 .. Len(A!Top.slots) - 1 /\ A!Top.slots = TopSlots
  BY <1>5, <1>6, <1>7, <1>13, StepOfTop
<1>15. A!Become(A!Front([A!Top.slots EXCEPT ![j + 1] = A!Last(A!Top.slots)]), ip')
  <2>1. A!Become(Front(set), ip')  BY <1>5, <1>13, StepOfTop
  <2>2. A!Last(A!Top.slots) = v  BY <1>6, <1>8, <1>14 DEF A!Last
  <2>3. set = [A!Top.slots EXCEPT ![j + 1] = A!Last(A!Top.slots)]  BY <1>14, <2>2 DEF set
  <2>4. A!Front(set) = Front(set)  BY DEF A!Front, Front
  <2> QED  BY <2>1, <2>3, <2>4
<1>16. A!Assign(ip')  BY <1>14, <1>15, Zenon DEF A!Assign
<1>17. ip' \in A!Loc /\ [m \in 1 .. Len(frames) |-> Activation(m)] # <<>>  BY <1>5, StepOfTop
<1> QED  BY <1>16, <1>17, Zenon DEF A!Next

LEMMA SwapStep == ASSUME TaskInv, TaskInv', Swap PROVE A!Next
<1>0. TypeOK  BY DEF TaskInv
<1>1. /\ Running /\ Operands >= 2 /\ Computing /\ sp' = sp
      /\ mem' = [mem EXCEPT ![sp - 1 - stack] = At(sp - 2), ![sp - 2 - stack] = At(sp - 1)]
  BY DEF Swap
<1>2. /\ locals \in Nat /\ stack \in Nat /\ sp \in Nat /\ stack <= locals
      /\ locals <= sp - 2 /\ sp <= stack + stackCapacity
      /\ locals - stack \in Nat /\ stackCapacity \in Nat
  BY <1>1, RunningRoom DEF Operands
<1>3. PICK d \in Nat : d = sp - 2 - stack /\ d + 1 = sp - 1 - stack /\ d + 1 \in 0 .. stackCapacity - 1
                     /\ d >= locals - stack
  BY <1>2
<1>4. /\ mem'[d] = mem[d + 1] /\ mem'[d + 1] = mem[d]
      /\ \A i \in 0 .. stackCapacity - 1 : i # d /\ i # d + 1 => mem'[i] = mem[i]
  <2>1. mem \in [0 .. stackCapacity - 1 -> Content]  BY <1>0 DEF TypeOK
  <2>2. mem' = [mem EXCEPT ![d + 1] = mem[d], ![d] = mem[d + 1]]  BY <1>1, <1>2, <1>3 DEF At
  <2>3. d \in 0 .. stackCapacity - 1 /\ d # d + 1  BY <1>2, <1>3
  <2> QED  BY <1>3, <2>1, <2>2, <2>3
<1>5. TopStep
  <2>1. \A i \in 0 .. locals - stack - 1 : i \in 0 .. stackCapacity - 1 /\ i # d /\ i # d + 1
    BY <1>2, <1>3
  <2> QED  BY <1>1, <1>4, <2>1, ComputingIsTopStep
<1> DEFINE k == sp - locals
<1>6. /\ TopSlots \in Seq(Content) /\ Len(TopSlots) = k
      /\ TopSlots' \in Seq(Content) /\ Len(TopSlots') = k
      /\ \A i \in 1 .. k : TopSlots[i] = mem[(locals - stack) + (i - 1)]
      /\ \A i \in 1 .. k : TopSlots'[i] = mem'[(locals - stack) + (i - 1)]
  BY <1>1, <1>5, TopSlotsAfter
<1>7. k \in Nat /\ k >= 2 /\ k \in 1 .. k /\ k - 1 \in 1 .. k /\ k # k - 1
      /\ (locals - stack) + (k - 1) = d + 1 /\ (locals - stack) + ((k - 1) - 1) = d
  BY <1>2, <1>3
<1>8. TopSlots[k] = mem[d + 1] /\ TopSlots[k - 1] = mem[d]  BY <1>6, <1>7
<1> DEFINE swapped == [TopSlots EXCEPT ![k] = TopSlots[k - 1], ![k - 1] = TopSlots[k]]
<1>9. /\ swapped \in Seq(Content) /\ Len(swapped) = k
      /\ swapped[k] = TopSlots[k - 1] /\ swapped[k - 1] = TopSlots[k]
      /\ \A i \in 1 .. k : i # k /\ i # k - 1 => swapped[i] = TopSlots[i]
  <2> DEFINE once == [TopSlots EXCEPT ![k] = TopSlots[k - 1]]
  <2>1. swapped = [once EXCEPT ![k - 1] = TopSlots[k]]  OBVIOUS
  <2> HIDE DEF k, swapped
  <2>2. TopSlots[k] \in Content /\ TopSlots[k - 1] \in Content  BY <1>6, <1>7, ElementOfSeq
  <2>3. /\ once \in Seq(Content) /\ Len(once) = k
        /\ \A i \in 1 .. k : once[i] = IF i = k THEN TopSlots[k - 1] ELSE TopSlots[i]
    BY <1>6, <1>7, <2>2, ExceptSeq
  <2> HIDE DEF once
  <2>4. /\ swapped \in Seq(Content) /\ Len(swapped) = k
        /\ \A i \in 1 .. k : swapped[i] = IF i = k - 1 THEN TopSlots[k] ELSE once[i]
    BY <1>7, <2>1, <2>2, <2>3, ExceptSeq
  <2> QED  BY <1>7, <2>3, <2>4
<1> HIDE DEF swapped
<1>10. ASSUME NEW i \in 1 .. k PROVE TopSlots'[i] = swapped[i]
  <2>1. TopSlots'[i] = mem'[(locals - stack) + (i - 1)]  BY <1>6
  <2>2. CASE i = k  BY <1>4, <1>7, <1>8, <1>9, <2>1, <2>2
  <2>3. CASE i = k - 1  BY <1>4, <1>7, <1>8, <1>9, <2>1, <2>3
  <2>4. CASE i # k /\ i # k - 1
    <3>1. /\ (locals - stack) + (i - 1) \in 0 .. stackCapacity - 1
          /\ (locals - stack) + (i - 1) # d /\ (locals - stack) + (i - 1) # d + 1
      BY <1>2, <1>3, <1>7, <2>4
    <3> QED  BY <1>4, <1>6, <1>9, <2>1, <2>4, <3>1
  <2> QED  BY <2>2, <2>3, <2>4
<1>11. TopSlots' = swapped
  <2> HIDE DEF k
  <2> QED  BY <1>6, <1>9, <1>10, SeqEqual
<1>12. A!Top.slots = TopSlots /\ A!Become(swapped, ip') /\ Len(A!Top.slots) = k
  BY <1>5, <1>6, <1>11, StepOfTop
<1>13. A!Become([A!Top.slots EXCEPT ![k] = A!Top.slots[k - 1], ![k - 1] = A!Top.slots[k]], ip')
  BY <1>12 DEF swapped
<1>14. A!Exchange(ip')
  <2> HIDE DEF k
  <2> QED  BY <1>7, <1>12, <1>13 DEF A!Exchange
<1>15. ip' \in A!Loc /\ [m \in 1 .. Len(frames) |-> Activation(m)] # <<>>  BY <1>5, <1>11, StepOfTop
<1> QED  BY <1>14, <1>15, Zenon DEF A!Next
-----------------------------------------------------------------------------
LEMMA FirstOfSeq ==
    ASSUME NEW S, NEW s \in Seq(S), NEW j \in Nat, j <= Len(s)
    PROVE  /\ SubSeq(s, 1, j) \in Seq(S) /\ Len(SubSeq(s, 1, j)) = j
           /\ \A i \in 1 .. j : SubSeq(s, 1, j)[i] = s[i]
<1>1. \A i \in 1 .. j : s[i] \in S  BY ElementOfSeq
<1>2. /\ SubSeq(s, 1, j) \in Seq(S)
      /\ Len(SubSeq(s, 1, j)) = IF 1 <= j THEN j - 1 + 1 ELSE 0
      /\ \A i \in 1 .. j - 1 + 1 : SubSeq(s, 1, j)[i] = s[1 + i - 1]
  BY <1>1, SubSeqProperties
<1> QED  BY <1>2

LEMMA LastOfSeq ==
    ASSUME NEW S, NEW s \in Seq(S), NEW j \in Nat, j <= Len(s)
    PROVE  LET t == SubSeq(s, j + 1, Len(s))
           IN  /\ t \in Seq(S) /\ Len(t) = Len(s) - j
               /\ \A i \in 1 .. Len(s) - j : t[i] = s[j + i]
<1> DEFINE t == SubSeq(s, j + 1, Len(s))
<1>1. PICK k \in Nat : k = Len(s)  OBVIOUS
<1>2. \A i \in j + 1 .. k : s[i] \in S  BY <1>1, ElementOfSeq
<1>3. /\ SubSeq(s, j + 1, k) \in Seq(S)
      /\ Len(SubSeq(s, j + 1, k)) = IF j + 1 <= k THEN k - (j + 1) + 1 ELSE 0
      /\ \A i \in 1 .. k - (j + 1) + 1 : SubSeq(s, j + 1, k)[i] = s[j + 1 + i - 1]
  BY <1>2, SubSeqProperties
<1>4. /\ t \in Seq(S) /\ Len(t) = k - j
      /\ \A i \in 1 .. k - j : t[i] = s[j + i]
  BY <1>1, <1>3
<1> QED  BY <1>1, <1>4

(* What a call leaves in the stack: its cells keep their contents and      *)
(* their distance from the bottom.                                         *)
LEMMA InvokeKeepsCells ==
    ASSUME TaskInv, NEW f \in Native, NEW base \in Address, Invoke(f, base)
    PROVE  \A i \in 0 .. sp - stack - 1 : mem'[i] = mem[i]
<1>1. /\ Running /\ stackCapacity' \in Nat /\ stackCapacity <= stackCapacity'
      /\ mem' = [i \in 0 .. stackCapacity' - 1 |-> IF i < stackCapacity THEN mem[i] ELSE Junk]
  BY InvokeGrows
<1>2. PICK c \in Nat : c = stackCapacity'  BY <1>1
<1>3. sp \in Nat /\ stack \in Nat /\ stackCapacity \in Nat /\ sp <= stack + stackCapacity
      /\ stackCapacity <= c
  BY <1>1, <1>2, RunningRoom
<1>4. mem' = [i \in 0 .. c - 1 |-> IF i < stackCapacity THEN mem[i] ELSE Junk]  BY <1>1, <1>2
<1> QED  BY <1>3, <1>4

LEMMA CallsAfter ==
    ASSUME TaskInv'
    PROVE  /\ Len(Calls') = Len(frames') /\ Index' = 1 .. Len(frames')
           /\ \A n \in Index' : /\ Calls'[n] =
                                     [fn |-> frames'[n].fn,
                                      pc |-> IF n = Len(frames') THEN ip' ELSE frames'[n].ip,
                                      slots |-> SlotsOf(n)']
                                /\ SlotsOf(n)' \in Seq(Content)
                                /\ Len(SlotsOf(n)') = End(n)' - Base(n)'
                                /\ End(n)' \in Nat /\ Base(n)' \in Nat /\ Base(n)' <= End(n)'
                                /\ \A i \in 1 .. End(n)' - Base(n)' :
                                      SlotsOf(n)'[i] = mem'[(Base(n)' + (i - 1)) - stack']
<1>1. TypeOK'  BY DEF TaskInv
<1>2. TypeOK' => (Len(Calls) = Len(frames))'  BY LenCalls, PTL
<1>3. TaskInv' => (\A n \in Index : /\ Base(n) \in Nat /\ End(n) \in Nat /\ stack \in Nat
                                    /\ stack <= Base(n) /\ Base(n) <= End(n)
                                    /\ End(n) <= stack + stackCapacity
                                    /\ SlotsOf(n) \in Seq(Content)
                                    /\ Len(SlotsOf(n)) = End(n) - Base(n))'
  BY SlotsAreTyped, PTL
<1>4. Index' = 1 .. Len(frames')  BY DEF Index
<1>5. \A n \in Index' : Calls'[n] =
                                     [fn |-> frames'[n].fn,
                                      pc |-> IF n = Len(frames') THEN ip' ELSE frames'[n].ip,
                                      slots |-> SlotsOf(n)']
  BY <1>4 DEF Calls, Activation, SlotsOf, Base
<1>6. \A n \in Index' : \A i \in 1 .. End(n)' - Base(n)' :
                                      SlotsOf(n)'[i] = mem'[(Base(n)' + (i - 1)) - stack']
  BY DEF SlotsOf, At
<1>7. \A n \in Index' : /\ SlotsOf(n)' \in Seq(Content)
                        /\ Len(SlotsOf(n)') = End(n)' - Base(n)'
                        /\ End(n)' \in Nat /\ Base(n)' \in Nat /\ Base(n)' <= End(n)'
  BY <1>3
<1>8. Len(Calls') = Len(frames')  BY <1>1, <1>2
<1> QED  BY <1>4, <1>5, <1>6, <1>7, <1>8

LEMMA CallsBefore ==
    ASSUME TaskInv
    PROVE  /\ Len(Calls) = Len(frames) /\ Index = 1 .. Len(frames) /\ DOMAIN Calls = Index
           /\ \A n \in Index : /\ Calls[n] =
                                    [fn |-> frames[n].fn,
                                     pc |-> IF n = Len(frames) THEN ip ELSE frames[n].ip,
                                     slots |-> SlotsOf(n)]
                               /\ SlotsOf(n) \in Seq(Content)
                               /\ Len(SlotsOf(n)) = End(n) - Base(n)
                               /\ End(n) \in Nat /\ Base(n) \in Nat /\ Base(n) <= End(n)
                               /\ stack <= Base(n) /\ stack \in Nat
                               /\ \A i \in 1 .. End(n) - Base(n) :
                                     SlotsOf(n)[i] = mem[(Base(n) + (i - 1)) - stack]
<1>1. TypeOK  BY DEF TaskInv
<1>4. Index = 1 .. Len(frames)  BY DEF Index
<1>5. \A n \in Index : Calls[n] =
                                     [fn |-> frames[n].fn,
                                      pc |-> IF n = Len(frames) THEN ip ELSE frames[n].ip,
                                      slots |-> SlotsOf(n)]
  BY <1>4 DEF Calls, Activation, SlotsOf, Base
<1>6. \A n \in Index : \A i \in 1 .. End(n) - Base(n) :
                                      SlotsOf(n)[i] = mem[(Base(n) + (i - 1)) - stack]
  BY DEF SlotsOf, At
<1>7. \A n \in Index : /\ SlotsOf(n) \in Seq(Content)
                       /\ Len(SlotsOf(n)) = End(n) - Base(n)
                       /\ End(n) \in Nat /\ Base(n) \in Nat /\ Base(n) <= End(n)
                       /\ stack <= Base(n) /\ stack \in Nat
  BY SlotsAreTyped
<1>8. Len(Calls) = Len(frames) /\ DOMAIN Calls = Index  BY <1>1, CallsAreSeq
<1> QED  BY <1>4, <1>5, <1>6, <1>7, <1>8

(* An activation whose cells were not written, wherever they are now.      *)
LEMMA SlotsMove ==
    ASSUME TaskInv, TaskInv', NEW n \in Index, n \in Index', NEW move \in Int,
           stack' = stack + move, Base(n)' = Base(n) + move, End(n)' = End(n) + move,
           \A i \in 0 .. End(n) - stack - 1 : mem'[i] = mem[i]
    PROVE  SlotsOf(n)' = SlotsOf(n)
<1>1. PICK b, e, q \in Nat : b = Base(n) /\ e = End(n) /\ q = stack
  BY CallsBefore
<1>2. q <= b /\ b <= e /\ SlotsOf(n) \in Seq(Content) /\ Len(SlotsOf(n)) = e - b
      /\ \A i \in 1 .. e - b : SlotsOf(n)[i] = mem[(b + (i - 1)) - q]
  BY <1>1, CallsBefore
<1>3. Base(n)' = b + move /\ End(n)' = e + move /\ stack' = q + move  BY <1>1
<1>4. (e + move) - (b + move) = e - b  BY <1>1
<1>5. SlotsOf(n)' \in Seq(Content) /\ Len(SlotsOf(n)') = e - b
      /\ \A i \in 1 .. e - b : SlotsOf(n)'[i] = mem'[((b + move) + (i - 1)) - (q + move)]
  <2>1. /\ SlotsOf(n)' \in Seq(Content) /\ Len(SlotsOf(n)') = End(n)' - Base(n)'
        /\ \A i \in 1 .. End(n)' - Base(n)' :
              SlotsOf(n)'[i] = mem'[(Base(n)' + (i - 1)) - stack']
    BY CallsAfter
  <2> QED  BY <1>3, <1>4, <2>1, Zenon
<1>6. ASSUME NEW i \in 1 .. e - b PROVE SlotsOf(n)'[i] = SlotsOf(n)[i]
  <2>1. ((b + move) + (i - 1)) - (q + move) = (b + (i - 1)) - q
        /\ (b + (i - 1)) - q \in 0 .. e - q - 1
    BY <1>1, <1>2
  <2>2. mem'[(b + (i - 1)) - q] = mem[(b + (i - 1)) - q]  BY <1>1, <2>1
  <2> QED  BY <1>2, <1>5, <2>1, <2>2
<1> QED  BY <1>2, <1>5, <1>6, SeqEqual
LEMMA OperandsAreThere ==
    ASSUME TaskInv, Running, NEW n \in Nat, Operands >= n
    PROVE  locals <= sp - n /\ sp - n \in Nat
BY RunningRoom DEF Operands

(* What a call does to the activations: those below the caller stay as     *)
(* they are, the caller is left with its slots below the parameters, and   *)
(* the callee has these, its locals above them.                            *)
LEMMA InvokeSlots ==
    ASSUME TaskInv, TaskInv', NEW f \in Native, NEW base \in Address, Invoke(f, base),
           NEW len \in Nat \ {0}, len = Len(frames)
    PROVE  LET k == Len(TopSlots)
               x == [i \in 1 .. LocalCount[f] |-> mem'[(sp - stack) + (i - 1)]]
           IN  /\ Arity[f] \in 0 .. k /\ x \in A!Locals(f)
               /\ \A n \in 1 .. len - 1 : SlotsOf(n)' = SlotsOf(n)
               /\ SlotsOf(len)' = SubSeq(TopSlots, 1, k - Arity[f])
               /\ SlotsOf(len + 1)' = SubSeq(TopSlots, (k - Arity[f]) + 1, k) \o x
<1> DEFINE x == [i \in 1 .. LocalCount[f] |-> mem'[(sp - stack) + (i - 1)]]
<1>0. Running  BY InvokeGrows
<1>1. len \in Nat \ {0} /\ len = Len(frames)  OBVIOUS
<1>2. PICK ar, lc, lo, s, p, c \in Nat :
           /\ ar = Arity[f] /\ lc = LocalCount[f] /\ lo = locals /\ s = stack /\ p = sp
           /\ c = stackCapacity'
           /\ s <= lo /\ lo <= p - ar /\ (p - s) + lc <= c /\ p - ar \in Nat
  <2>1. /\ Arity[f] \in Nat /\ LocalCount[f] \in Nat /\ StackEffect[f] \in Nat
        /\ LocalCount[f] <= StackEffect[f] /\ Operands >= Arity[f]
        /\ stackCapacity' \in Nat /\ sp - stack + StackEffect[f] <= stackCapacity'
    BY Constants, InvokeGrows
  <2>2. /\ locals \in Nat /\ stack \in Nat /\ sp \in Nat /\ stack <= locals
        /\ Arity[fn] \in Nat /\ LocalCount[fn] \in Nat
    BY <1>0, RunningRoom
  <2>3. locals <= sp - Arity[f] /\ sp - Arity[f] \in Nat
    <3>1. Operands >= Arity[f] /\ Arity[f] \in Nat  BY <2>1
    <3> QED  BY <1>0, <3>1, OperandsAreThere
  <2>4. PICK c \in Nat : c = stackCapacity'  BY <2>1
  <2>5. (sp - stack) + LocalCount[f] <= c
    <3>1. sp - stack + StackEffect[f] <= c  BY <2>1, <2>4
    <3>2. LocalCount[f] \in Nat /\ StackEffect[f] \in Nat /\ LocalCount[f] <= StackEffect[f]  BY <2>1
    <3> QED  BY <2>2, <3>1, <3>2
  <2> QED  BY <2>1, <2>2, <2>3, <2>4, <2>5
<1>o. s <= lo /\ lo <= p - ar /\ (p - s) + lc <= c /\ p - ar \in Nat  BY <1>2
<1>k. PICK k \in Nat : k = p - lo  BY <1>o
<1>d. base \in Nat /\ stack' = base  BY InvokeGrows
<1>m. PICK d \in Int : d = base - s  BY <1>d
<1>3. /\ base \in Nat /\ stack' = base /\ d = base - s
      /\ sp' = (p + d) + lc
      /\ frames'[len + 1].stackBase = (p - ar) + d
      /\ \A n \in 1 .. len : Base(n)' = Base(n) + d
      /\ Len(frames') = len + 1 /\ Index' = 1 .. len + 1 /\ Index = 1 .. len
  <2>2. sp' = (p + d) + lc  BY <1>2, <1>m, InvokeRegisters
  <2>3. frames'[len + 1].stackBase = (p - ar) + d
    <3>1. frames'[len + 1].stackBase = p + d - ar  BY <1>1, <1>2, <1>m, InvokePushes
    <3> QED  BY <3>1
  <2>4. Index = 1 .. len /\ Len(frames') = len + 1 /\ Index' = 1 .. len + 1
    BY <1>1, InvokePushes DEF Index
  <2>5. \A n \in 1 .. len : Base(n)' = Base(n) + d
    BY <1>2, <1>m, <2>4, InvokePushes DEF Base
  <2> QED  BY <1>d, <1>m, <2>2, <2>3, <2>4, <2>5
<1>4. /\ TopSlots \in Seq(Content) /\ Len(TopSlots) = k /\ Base(len) = lo /\ End(len) = p
      /\ SlotsOf(len) = TopSlots /\ \A n \in 1 .. len - 1 : End(n) <= lo
      /\ \A i \in 1 .. p - lo : TopSlots[i] = mem[(lo + (i - 1)) - s]
  <2>1. TopSlots \in Seq(Content) /\ Len(TopSlots) = k /\ SlotsOf(len) = TopSlots
    BY <1>0, <1>1, <1>2, <1>k, TopIsTyped
  <2>4. ASSUME NEW n \in 1 .. len - 1 PROVE End(n) <= lo
    <3>1. n \in Index /\ n # len  BY <1>3
    <3> QED  BY <1>0, <1>1, <1>2, <3>1, TopIsTyped
  <2>2. Base(len) = lo /\ End(len) = p  BY <1>0, <1>1, <1>2, RunningFacts DEF End
  <2>3. len \in Index  BY <1>1, <1>3
  <2>5. \A i \in 1 .. p - lo : TopSlots[i] = mem[(lo + (i - 1)) - s]
    <3>1. \A i \in 1 .. End(len) - Base(len) :
             SlotsOf(len)[i] = mem[(Base(len) + (i - 1)) - stack]
      BY DEF SlotsOf, At
    <3> QED  BY <1>2, <2>1, <2>2, <3>1
  <2> QED  BY <2>1, <2>2, <2>4, <2>5
<1>5. \A i \in 0 .. p - s - 1 : mem'[i] = mem[i]  BY <1>2, InvokeKeepsCells
<1>6. ASSUME NEW n \in 1 .. len - 1 PROVE SlotsOf(n)' = SlotsOf(n)
  <2>1. n \in Index /\ n \in Index' /\ n + 1 \in 1 .. len /\ n # len /\ n # len + 1
    <3>1. n \in 1 .. len /\ n \in 1 .. len + 1 /\ n + 1 \in 1 .. len /\ n # len /\ n # len + 1
      OBVIOUS
    <3> QED  BY <1>3, <3>1
  <2>2. End(n) = Base(n + 1)  BY <1>1, <2>1 DEF End, Base
  <2>3. End(n)' = Base(n + 1)'  BY <1>3, <2>1 DEF End, Base
  <2>4. Base(n)' = Base(n) + d /\ End(n)' = End(n) + d
    BY <1>3, <2>1, <2>2, <2>3
  <2>5. PICK e \in Nat : e = End(n) /\ e <= lo  BY <1>4, <2>1, SlotsAreTyped
  <2>6. \A i \in 0 .. e - s - 1 : i \in 0 .. p - s - 1  BY <1>o, <2>5
  <2>7. \A i \in 0 .. End(n) - stack - 1 : mem'[i] = mem[i]  BY <1>2, <1>5, <2>5, <2>6
  <2>8. stack' = stack + d
    <3>1. base = s + d  BY <1>d, <1>m
    <3> QED  BY <1>2, <1>d, <3>1
  <2> QED  BY <1>3, <2>1, <2>4, <2>7, <2>8, SlotsMove
<1>7. SlotsOf(len)' = SubSeq(TopSlots, 1, k - ar)
  <2> DEFINE own == SubSeq(TopSlots, 1, k - ar)
  <2>1. len \in Index' /\ End(len)' = (p - ar) + d /\ Base(len)' = lo + d
    <3>1. len \in 1 .. len /\ len # len + 1 /\ len \in 1 .. len + 1  BY <1>1
    <3> QED  BY <1>3, <1>4, <3>1 DEF End
  <2>2. PICK b, e \in Nat : b = lo + d /\ e = (p - ar) + d
    BY <1>o, <1>m, <1>d
  <2>3. /\ SlotsOf(len)' \in Seq(Content) /\ Len(SlotsOf(len)') = e - b
        /\ \A i \in 1 .. e - b : SlotsOf(len)'[i] = mem'[(b + (i - 1)) - base]
    <3>1. Base(len)' = b /\ End(len)' = e  BY <2>1, <2>2
    <3>2. /\ SlotsOf(len)' \in Seq(Content)
          /\ Len(SlotsOf(len)') = End(len)' - Base(len)'
          /\ \A i \in 1 .. End(len)' - Base(len)' :
                SlotsOf(len)'[i] = mem'[(Base(len)' + (i - 1)) - stack']
      BY <2>1, CallsAfter
    <3> QED  BY <1>d, <3>1, <3>2, Zenon
  <2>4. k - ar \in Nat /\ k - ar <= k /\ e - b = k - ar  BY <1>o, <1>k, <2>2
  <2>5. own \in Seq(Content) /\ Len(own) = k - ar /\ \A i \in 1 .. k - ar : own[i] = TopSlots[i]
    <3>1. PICK m \in Nat : m = k - ar /\ m <= k  BY <2>4
    <3> QED  BY <1>4, <3>1, FirstOfSeq
  <2>6. ASSUME NEW i \in 1 .. e - b PROVE SlotsOf(len)'[i] = own[i]
    <3>1. (b + (i - 1)) - base = (lo + (i - 1)) - s /\ (lo + (i - 1)) - s \in 0 .. p - s - 1
          /\ i \in 1 .. p - lo /\ i \in 1 .. k - ar
      BY <1>o, <1>m, <1>d, <1>k, <2>2
    <3>2. own[i] = TopSlots[i] /\ TopSlots[i] = mem[(lo + (i - 1)) - s]  BY <1>4, <2>5, <3>1
    <3> QED  BY <1>5, <2>3, <3>1, <3>2
  <2> HIDE DEF own
  <2>7. SlotsOf(len)' = own  BY <2>3, <2>4, <2>5, <2>6, SeqEqual
  <2> QED  BY <2>7 DEF own
<1>8. x \in [1 .. lc -> Content] /\ \A i \in 1 .. lc : x[i] = mem'[(p - s) + (i - 1)]
  <2>1. \A i \in 1 .. lc : mem'[(p - s) + (i - 1)] \in Content
    <3> SUFFICES ASSUME NEW i \in 1 .. lc PROVE mem'[(p - s) + (i - 1)] \in Content
      OBVIOUS
    <3>1. mem' \in [0 .. c - 1 -> Content]
      <4>1. mem' \in [0 .. stackCapacity' - 1 -> Content]  BY DEF TaskInv, TypeOK
      <4> QED  BY <1>2, <4>1
    <3>2. (p - s) + (i - 1) \in 0 .. c - 1  BY <1>o
    <3> QED  BY <3>1, <3>2
  <2>2. x = [i \in 1 .. lc |-> mem'[(p - s) + (i - 1)]]  BY <1>2
  <2> HIDE DEF x
  <2> QED  BY <2>1, <2>2
<1>9. SlotsOf(len + 1)' = SubSeq(TopSlots, (k - ar) + 1, k) \o x
  <2> DEFINE args == SubSeq(TopSlots, (k - ar) + 1, k)
  <2>1. len + 1 \in Index' /\ End(len + 1)' = (p + d) + lc
        /\ Base(len + 1)' = (p - ar) + d
    <3>1. len + 1 \in 1 .. len + 1  BY <1>1
    <3> QED  BY <1>3, <3>1 DEF End, Base
  <2>2. PICK b, e \in Nat : b = (p - ar) + d /\ e = (p + d) + lc
    BY <1>o, <1>m, <1>d
  <2>3. /\ SlotsOf(len + 1)' \in Seq(Content) /\ Len(SlotsOf(len + 1)') = e - b
        /\ \A i \in 1 .. e - b : SlotsOf(len + 1)'[i] = mem'[(b + (i - 1)) - base]
    <3>1. Base(len + 1)' = b /\ End(len + 1)' = e  BY <2>1, <2>2
    <3>2. /\ SlotsOf(len + 1)' \in Seq(Content)
          /\ Len(SlotsOf(len + 1)') = End(len + 1)' - Base(len + 1)'
          /\ \A i \in 1 .. End(len + 1)' - Base(len + 1)' :
                SlotsOf(len + 1)'[i] = mem'[(Base(len + 1)' + (i - 1)) - stack']
      BY <2>1, CallsAfter
    <3> QED  BY <1>d, <3>1, <3>2, Zenon
  <2>4. e - b = ar + lc /\ k - ar \in Nat /\ k - (k - ar) = ar  BY <1>o, <1>k, <2>2
  <2>5. args \in Seq(Content) /\ Len(args) = ar /\ \A i \in 1 .. ar : args[i] = TopSlots[(k - ar) + i]
    <3>1. PICK m \in Nat : m = k - ar /\ m <= k /\ m <= Len(TopSlots)  BY <1>4, <2>4
    <3>2. LET t == SubSeq(TopSlots, m + 1, Len(TopSlots))
          IN  /\ t \in Seq(Content) /\ Len(t) = Len(TopSlots) - m
              /\ \A i \in 1 .. Len(TopSlots) - m : t[i] = TopSlots[m + i]
      <4>1. TopSlots \in Seq(Content) /\ m <= Len(TopSlots)  BY <1>4, <3>1
      <4> QED  BY <4>1, LastOfSeq
    <3> QED  BY <1>4, <2>4, <3>1, <3>2
  <2>6. x \in Seq(Content) /\ Len(x) = lc
    <3> HIDE DEF x
    <3> QED  BY <1>8
  <2> HIDE DEF args, x
  <2>7. /\ args \o x \in Seq(Content) /\ Len(args \o x) = ar + lc
        /\ \A i \in 1 .. ar + lc : (args \o x)[i] = IF i <= ar THEN args[i] ELSE x[i - ar]
    BY <2>5, <2>6, ConcatProperties
  <2>8. ASSUME NEW i \in 1 .. ar + lc PROVE SlotsOf(len + 1)'[i] = (args \o x)[i]
    <3>1. SlotsOf(len + 1)'[i] = mem'[(b + (i - 1)) - base]  BY <2>3, <2>4
    <3>2. CASE i <= ar
      <4>1. i \in 1 .. ar /\ (k - ar) + i \in 1 .. p - lo
            /\ (b + (i - 1)) - base = (lo + (((k - ar) + i) - 1)) - s
            /\ (b + (i - 1)) - base \in 0 .. p - s - 1
        BY <1>o, <1>m, <1>d, <1>k, <2>2, <3>2
      <4>2. (args \o x)[i] = TopSlots[(k - ar) + i]  BY <2>5, <2>7, <3>2, <4>1
      <4>3. TopSlots[(k - ar) + i] = mem[(lo + (((k - ar) + i) - 1)) - s]  BY <1>4, <4>1
      <4> QED  BY <1>5, <3>1, <4>1, <4>2, <4>3
    <3>3. CASE ~(i <= ar)
      <4>1. i - ar \in 1 .. lc /\ (b + (i - 1)) - base = (p - s) + ((i - ar) - 1)
        BY <1>o, <1>m, <1>d, <2>2, <3>3
      <4> QED  BY <1>8, <2>7, <3>1, <3>3, <4>1
    <3> QED  BY <3>2, <3>3
  <2>9. SlotsOf(len + 1)' = args \o x  BY <2>3, <2>4, <2>7, <2>8, SeqEqual
  <2> QED  BY <2>9 DEF args
<1>10. ar \in 0 .. k /\ x \in A!Locals(f)
  <2>1. ar \in 0 .. k  BY <1>o, <1>k
  <2>2. A!Locals(f) = [1 .. lc -> Content]  BY <1>2 DEF A!Locals, A!Content, Content
  <2> QED  BY <1>8, <2>1, <2>2
<1> HIDE DEF x
<1>11. /\ Arity[f] \in 0 .. k /\ x \in A!Locals(f)
       /\ \A n \in 1 .. len - 1 : SlotsOf(n)' = SlotsOf(n)
  BY <1>1, <1>2, <1>4, <1>6, <1>10
<1>12. SlotsOf(len)' = SubSeq(TopSlots, 1, k - Arity[f])
       /\ SlotsOf(len + 1)' = SubSeq(TopSlots, (k - Arity[f]) + 1, k) \o x
  BY <1>1, <1>2, <1>7, <1>9, Zenon
<1> QED  BY <1>4, <1>11, <1>12 DEF x
Act == [fn : Native, pc : Loc, slots : Seq(Content)]

LEMMA CallsTyped ==
    TaskInv => Calls \in Seq(Act) /\ Len(Calls) = Len(frames)
<1> SUFFICES ASSUME TaskInv PROVE Calls \in Seq(Act) /\ Len(Calls) = Len(frames)
  OBVIOUS
<1>1. TypeOK  BY DEF TaskInv
<1>2. PICK len \in Nat : len = Len(frames)  BY <1>1 DEF TypeOK
<1>3. ASSUME NEW n \in 1 .. len PROVE Calls[n] \in Act
  <2>1. n \in Index  BY <1>2, <1>3 DEF Index
  <2>2. /\ frames[n].fn \in Native /\ frames[n].ip \in Loc /\ SlotsOf(n) \in Seq(Content)
        /\ ip \in Loc
    BY <1>1, <2>1, FramesAreTyped, SlotsAreTyped DEF TypeOK
  <2>3. Calls[n] = [fn |-> frames[n].fn, pc |-> IF n = Len(frames) THEN ip ELSE frames[n].ip,
                    slots |-> SlotsOf(n)]
    BY <1>2 DEF Calls, Activation, SlotsOf, Base
  <2> QED  BY <2>2, <2>3 DEF Act
<1>4. Calls = [n \in 1 .. len |-> Calls[n]]  BY <1>2 DEF Calls
<1> HIDE DEF Calls
<1> QED  BY <1>2, <1>3, <1>4

LEMMA CallsTypedAfter ==
    ASSUME TaskInv' PROVE Calls' \in Seq(Act) /\ Len(Calls') = Len(frames')
<1>1. TaskInv' => (Calls \in Seq(Act) /\ Len(Calls) = Len(frames))'  BY CallsTyped, PTL
<1>2. Act' = Act  BY DEF Act, Loc, Content
<1> QED  BY <1>1, <1>2

(* A call is the call of an activation.                                    *)
LEMMA InvokeStep ==
    ASSUME TaskInv, TaskInv', NEW f \in Native, NEW base \in Address, Invoke(f, base)
    PROVE  A!Next
<1>0. Running  BY InvokeGrows
<1>1. PICK len \in Nat \ {0} : len = Len(frames)  BY <1>0, RunningFacts
<1> DEFINE k == Len(TopSlots)
           own == SubSeq(TopSlots, 1, k - Arity[f])
           args == SubSeq(TopSlots, (k - Arity[f]) + 1, k)
           x == [i \in 1 .. LocalCount[f] |-> mem'[(sp - stack) + (i - 1)]]
           caller == [fn |-> Calls[len].fn, pc |-> ip + 1, slots |-> own]
           callee == [fn |-> f, pc |-> 0, slots |-> args \o x]
<1>2. /\ Arity[f] \in 0 .. k /\ x \in A!Locals(f)
      /\ \A n \in 1 .. len - 1 : SlotsOf(n)' = SlotsOf(n)
      /\ SlotsOf(len)' = own /\ SlotsOf(len + 1)' = args \o x
  BY <1>1, InvokeSlots
<1> HIDE DEF k, own, args, x
<1>3. /\ Calls \in Seq(Act) /\ Len(Calls) = len
      /\ Calls' \in Seq(Act) /\ Len(Calls') = len + 1
      /\ Len(frames') = len + 1 /\ Index = 1 .. len /\ Index' = 1 .. len + 1
  BY <1>1, CallsTyped, CallsTypedAfter, InvokePushes DEF Index
<1>4. \A n \in 1 .. len + 1 :
         Calls'[n] = [fn |-> frames'[n].fn, pc |-> IF n = len + 1 THEN ip' ELSE frames'[n].ip,
                      slots |-> SlotsOf(n)']
  BY <1>3, CallsAfter
<1>5. \A n \in 1 .. len :
         Calls[n] = [fn |-> frames[n].fn, pc |-> IF n = len THEN ip ELSE frames[n].ip,
                     slots |-> SlotsOf(n)]
  BY <1>1, <1>3, CallsBefore
<1>6. /\ \A n \in 1 .. len : /\ frames'[n].fn = frames[n].fn
                             /\ frames'[n].ip = IF n = len THEN ip + 1 ELSE frames[n].ip
      /\ frames'[len + 1].fn = f /\ ip' = 0
  <2>1. \A n \in 1 .. len : /\ frames'[n].fn = frames[n].fn
                            /\ frames'[n].ip = IF n = len THEN ip + 1 ELSE frames[n].ip
    BY <1>1, <1>3, InvokePushes
  <2>2. frames'[len + 1].fn = f  BY <1>1, InvokePushes
  <2> QED  BY <2>1, <2>2, InvokeRegisters
<1>7. ASSUME NEW n \in 1 .. len - 1 PROVE Calls'[n] = Calls[n]
  <2>1. n \in 1 .. len + 1 /\ n \in 1 .. len /\ n # len /\ n # len + 1  BY <1>1
  <2>2. Calls'[n] = [fn |-> frames'[n].fn, pc |-> frames'[n].ip, slots |-> SlotsOf(n)']
    BY <1>4, <2>1
  <2>3. Calls[n] = [fn |-> frames[n].fn, pc |-> frames[n].ip, slots |-> SlotsOf(n)]
    BY <1>5, <2>1
  <2> QED  BY <1>2, <1>6, <2>1, <2>2, <2>3
<1>8. Calls'[len] = caller
  <2>1. len \in 1 .. len + 1 /\ len \in 1 .. len /\ len # len + 1  BY <1>1
  <2>2. Calls'[len] = [fn |-> frames'[len].fn, pc |-> frames'[len].ip, slots |-> SlotsOf(len)']
    BY <1>4, <2>1
  <2>3. Calls[len].fn = frames[len].fn
    <3>1. Calls[len] = [fn |-> frames[len].fn, pc |-> ip, slots |-> SlotsOf(len)]
      BY <1>5, <2>1
    <3> QED  BY <3>1
  <2>4. frames'[len].fn = frames[len].fn /\ frames'[len].ip = ip + 1  BY <1>6, <2>1
  <2> QED  BY <1>2, <2>2, <2>3, <2>4
<1>9. Calls'[len + 1] = callee
  <2>1. len + 1 \in 1 .. len + 1  BY <1>1
  <2>2. Calls'[len + 1] = [fn |-> frames'[len + 1].fn, pc |-> ip', slots |-> SlotsOf(len + 1)']
    BY <1>4, <2>1
  <2> QED  BY <1>2, <1>6, <2>2
<1>10. caller \in Act /\ callee \in Act
  <2>1. len \in 1 .. len + 1 /\ len + 1 \in 1 .. len + 1  BY <1>1
  <2> QED  BY <1>3, <1>8, <1>9, <2>1, ElementOfSeq
<1> HIDE DEF caller, callee
<1> DEFINE w == [Calls EXCEPT ![len] = caller]
<1>11. w \in Seq(Act) /\ Len(w) = len /\ \A n \in 1 .. len : w[n] = IF n = len THEN caller ELSE Calls[n]
  BY <1>3, <1>10, ExceptSeq
<1> HIDE DEF w
<1>12. /\ Append(w, callee) \in Seq(Act) /\ Len(Append(w, callee)) = len + 1
       /\ \A n \in 1 .. len : Append(w, callee)[n] = w[n]
       /\ Append(w, callee)[len + 1] = callee
  BY <1>10, <1>11, AppendProperties
<1>13. ASSUME NEW n \in 1 .. len + 1 PROVE Calls'[n] = Append(w, callee)[n]
  <2>1. CASE n = len + 1  BY <1>9, <1>12, <2>1
  <2>2. CASE n = len  BY <1>8, <1>11, <1>12, <2>2
  <2>3. CASE n # len /\ n # len + 1
    <3>1. n \in 1 .. len - 1 /\ n \in 1 .. len  BY <2>3
    <3> QED  BY <1>7, <1>11, <1>12, <2>3, <3>1
  <2> QED  BY <2>1, <2>2, <2>3
<1>14. Calls' = Append(w, callee)  BY <1>3, <1>12, <1>13, SeqEqual
<1>15. A!Top.slots = TopSlots /\ A!Top = Calls[len] /\ Calls # <<>>
       /\ [n \in 1 .. Len(frames) |-> Activation(n)] = Calls
  BY <1>0, <1>1, <1>3, TopOfCalls
<1>16. w = A!With(own, ip + 1)
  BY <1>3, <1>15 DEF w, caller, A!With, A!SetTop
<1>17. callee = A!Frame(f, args, x)  BY DEF callee, A!Frame
<1>18. own = SubSeq(A!Top.slots, 1, Len(A!Top.slots) - Arity[f])
  BY <1>15 DEF own, k
<1>19. args = SubSeq(A!Top.slots, Len(own) + 1, Len(A!Top.slots))
  <2>1. TopSlots \in Seq(Content) /\ k \in Nat  BY <1>0, TopIsTyped DEF k
  <2>2. PICK m \in Nat : m = k - Arity[f] /\ m <= k  BY <1>2, <2>1
  <2>3. m <= Len(TopSlots)  BY <2>2 DEF k
  <2>4. Len(own) = k - Arity[f]  BY <2>1, <2>2, <2>3, FirstOfSeq DEF own
  <2> QED  BY <1>15, <2>4 DEF args, k
<1>20. A!Invoke(f, ip + 1)
  <2>1. Arity[f] <= Len(A!Top.slots)  BY <1>2, <1>15 DEF k
  <2>2. Calls' = Append(A!With(own, ip + 1), A!Frame(f, args, x))  BY <1>14, <1>16, <1>17
  <2> QED  BY <1>2, <1>18, <1>19, <2>1, <2>2 DEF A!Invoke, Calls
<1>21. ip + 1 \in A!Loc  BY InvokeGrows DEF Loc, A!Loc
<1>22. [n \in 1 .. Len(frames) |-> Activation(n)] # <<>>  BY <1>15
<1> QED  BY <1>20, <1>21, <1>22, Zenon DEF A!Next
(* A return is the return of an activation: the caller has its slots, and  *)
(* the result on top of them.                                              *)
LEMMA LeaveStep ==
    ASSUME TaskInv, TaskInv', Running, Leave, stack' = stack,
           NEW r \in 0 .. 1, r <= sp - locals, sp' = locals + r,
           \A i \in 0 .. locals - stack - 1 : mem'[i] = mem[i],
           r = 1 => mem'[locals - stack] = At(sp - 1)
    PROVE  A!Next
<1>0. TypeOK  BY DEF TaskInv
<1>1. PICK len \in Nat \ {0} : len = Len(frames)  BY RunningFacts
<1>2. /\ TopSlots \in Seq(Content) /\ Calls \in Seq(Act) /\ Len(Calls) = len
      /\ Calls' \in Seq(Act) /\ Len(Calls') = Len(frames')
      /\ Index = 1 .. len /\ Calls # <<>>
      /\ A!Top.slots = TopSlots /\ [n \in 1 .. Len(frames) |-> Activation(n)] = Calls
  BY <1>1, TopIsTyped, TopOfCalls, CallsTyped, CallsTypedAfter DEF Index
<1>3. PICK lo, s, p, k \in Nat : /\ lo = locals /\ s = stack /\ p = sp /\ k = Len(TopSlots)
                                 /\ s <= lo /\ p = lo + k
  <2>1. locals \in Nat /\ stack \in Nat /\ sp \in Nat /\ stack <= locals  BY RunningRoom
  <2>2. Len(TopSlots) = sp - locals /\ sp - locals \in Nat  BY TopIsTyped
  <2> QED  BY <2>1, <2>2
<1>o. s <= lo /\ p = lo + k /\ r <= k  BY <1>3
<1> DEFINE result == SubSeq(TopSlots, (k - r) + 1, k)
<1>4. /\ result \in Seq(Content) /\ Len(result) = r
      /\ \A i \in 1 .. r : result[i] = mem'[lo - s]
  <2>1. PICK m \in Nat : m = k - r /\ m <= k /\ k - m = r  BY <1>o
  <2>2. /\ result \in Seq(Content) /\ Len(result) = r
        /\ \A i \in 1 .. r : result[i] = TopSlots[m + i]
    <3>1. TopSlots \in Seq(Content) /\ m <= Len(TopSlots) /\ k = Len(TopSlots)  BY <1>2, <1>3, <2>1
    <3>2. LET t == SubSeq(TopSlots, m + 1, Len(TopSlots))
          IN  /\ t \in Seq(Content) /\ Len(t) = Len(TopSlots) - m
              /\ \A i \in 1 .. Len(TopSlots) - m : t[i] = TopSlots[m + i]
      BY <3>1, LastOfSeq
    <3> QED  BY <2>1, <3>1, <3>2
  <2>3. ASSUME NEW i \in 1 .. r PROVE TopSlots[m + i] = mem'[lo - s]
    <3>1. r = 1 /\ m + i = k /\ k >= 1 /\ k \in 1 .. k  BY <1>o, <2>1
    <3>2. TopSlots[k] = At(locals + k - 1)
      <4>1. k \in 1 .. sp - locals  BY <1>3, <3>1
      <4> QED  BY <4>1 DEF TopSlots
    <3>3. locals + k - 1 = sp - 1  BY <1>3, <3>1
    <3>4. mem'[locals - stack] = At(sp - 1)  BY <3>1
    <3> QED  BY <1>3, <3>1, <3>2, <3>3, <3>4
  <2> HIDE DEF result
  <2> QED  BY <2>2, <2>3
<1> HIDE DEF result
<1>5. Len(frames') = len - 1 /\ \A n \in 1 .. len - 1 : frames'[n] = frames[n]
  <2>1. frames \in Seq(FrameType) /\ frames # <<>> /\ frames' = Front(frames)
    BY <1>0 DEF TypeOK, TaskInv, TopIsRunning, Leave
  <2> QED  BY <1>1, <2>1, FrontOfSeq
<1>6. Index' = 1 .. len - 1  BY <1>5 DEF Index
<1> DEFINE outer == Front(Calls)
<1>7. outer \in Seq(Act) /\ Len(outer) = len - 1 /\ \A n \in 1 .. len - 1 : outer[n] = Calls[n]
  BY <1>2, FrontOfSeq
<1>8. A!Front(Calls) = outer  BY DEF A!Front, Front
<1> HIDE DEF outer
<1> DEFINE returned == IF outer = <<>> THEN <<>>
                       ELSE [outer EXCEPT ![Len(outer)] =
                               [fn |-> @.fn, pc |-> @.pc, slots |-> @.slots \o result]]
<1>9. ASSUME len = 1 PROVE Calls' = returned
  <2>1. outer = <<>> /\ Calls' = <<>>  BY <1>2, <1>5, <1>7, <1>9, EmptySeq
  <2> QED  BY <2>1
<1>10. ASSUME len # 1 PROVE Calls' = returned
  <2>1. PICK m \in Nat \ {0} : m = len - 1 /\ m + 1 = len  BY <1>10
  <2>2. /\ m \in Index /\ m \in Index' /\ m \in 1 .. m /\ len \in Index /\ len # m
        /\ Index' = 1 .. m /\ Len(frames') = m
    BY <1>1, <1>2, <1>5, <1>6, <2>1
  <2>3. End(m) = lo /\ Base(len) = lo
    BY <1>1, <1>3, <2>1, <2>2, RunningFacts DEF End, Base
  <2>4. \A n \in 1 .. m : Base(n)' = Base(n) /\ frames'[n] = frames[n]
    BY <1>5, <2>1 DEF Base
  <2>5. \A n \in 1 .. m :
           Calls'[n] = [fn |-> frames'[n].fn, pc |-> IF n = m THEN ip' ELSE frames'[n].ip,
                        slots |-> SlotsOf(n)']
    BY <2>2, CallsAfter
  <2>6. \A n \in 1 .. m :
           Calls[n] = [fn |-> frames[n].fn, pc |-> frames[n].ip, slots |-> SlotsOf(n)]
    <3> SUFFICES ASSUME NEW n \in 1 .. m
                 PROVE  Calls[n] = [fn |-> frames[n].fn, pc |-> frames[n].ip, slots |-> SlotsOf(n)]
      OBVIOUS
    <3>1. n \in 1 .. len /\ n # len  BY <2>1
    <3> QED  BY <1>1, <3>1 DEF Calls, Activation, SlotsOf, Base
  <2>7. ip' = frames[m].ip  BY <1>1, <1>10, <2>1 DEF Leave
  <2>8. ASSUME NEW n \in 1 .. m, n # m PROVE Calls'[n] = Calls[n]
    <3>1. n \in Index /\ n \in Index' /\ n # Len(frames) /\ n + 1 \in 1 .. m /\ n # Len(frames')
      BY <1>1, <1>2, <2>1, <2>2, <2>8
    <3>2. End(n) = Base(n + 1) /\ End(n)' = Base(n + 1)'  BY <3>1 DEF End, Base
    <3>3. End(n)' = End(n) /\ Base(n)' = Base(n)  BY <2>4, <3>1, <3>2
    <3>4. PICK e, b \in Nat : e = End(n) /\ b = Base(n) /\ e <= lo
      BY <1>3, <3>1, SlotsAreTyped, TopIsTyped
    <3>5. \A i \in 0 .. e - s - 1 : i \in 0 .. lo - s - 1  BY <1>o, <3>4
    <3>6. \A i \in 0 .. End(n) - stack - 1 : mem'[i] = mem[i]  BY <1>3, <3>4, <3>5
    <3>7. stack' = stack + 0 /\ Base(n)' = Base(n) + 0 /\ End(n)' = End(n) + 0
      BY <1>3, <3>3, <3>4
    <3>8. SlotsOf(n)' = SlotsOf(n)  BY <3>1, <3>6, <3>7, SlotsMove
    <3>9. Calls'[n] = [fn |-> frames'[n].fn, pc |-> frames'[n].ip, slots |-> SlotsOf(n)']
      BY <2>5, <2>8
    <3> QED  BY <2>4, <2>6, <3>8, <3>9
  <2>9. SlotsOf(m)' = SlotsOf(m) \o result
    <3>1. PICK b \in Nat : b = Base(m) /\ s <= b /\ b <= lo
      BY <1>3, <2>2, <2>3, SlotsAreTyped
    <3>2. /\ SlotsOf(m) \in Seq(Content) /\ Len(SlotsOf(m)) = lo - b
          /\ \A i \in 1 .. lo - b : SlotsOf(m)[i] = mem[(b + (i - 1)) - s]
      <4>1. SlotsOf(m) \in Seq(Content) /\ Len(SlotsOf(m)) = End(m) - Base(m)
        BY <2>2, SlotsAreTyped
      <4>2. \A i \in 1 .. End(m) - Base(m) : SlotsOf(m)[i] = mem[(Base(m) + (i - 1)) - stack]
        BY DEF SlotsOf, At
      <4> QED  BY <1>3, <2>3, <3>1, <4>1, <4>2, Zenon
    <3>3. Base(m)' = b /\ End(m)' = lo + r /\ stack' = s
      <4>1. End(m)' = sp'  BY <2>2 DEF End
      <4> QED  BY <1>3, <2>2, <2>4, <3>1, <4>1
    <3>4. /\ SlotsOf(m)' \in Seq(Content) /\ Len(SlotsOf(m)') = (lo + r) - b
          /\ \A i \in 1 .. (lo + r) - b : SlotsOf(m)'[i] = mem'[(b + (i - 1)) - s]
      <4>1. /\ SlotsOf(m)' \in Seq(Content)
            /\ Len(SlotsOf(m)') = End(m)' - Base(m)'
            /\ \A i \in 1 .. End(m)' - Base(m)' :
                  SlotsOf(m)'[i] = mem'[(Base(m)' + (i - 1)) - stack']
        BY <2>2, CallsAfter
      <4> QED  BY <3>3, <4>1, Zenon
    <3>5. /\ SlotsOf(m) \o result \in Seq(Content) /\ Len(SlotsOf(m) \o result) = (lo - b) + r
          /\ \A i \in 1 .. (lo - b) + r : (SlotsOf(m) \o result)[i] =
                IF i <= lo - b THEN SlotsOf(m)[i] ELSE result[i - (lo - b)]
      <4>1. /\ SlotsOf(m) \o result \in Seq(Content)
            /\ Len(SlotsOf(m) \o result) = Len(SlotsOf(m)) + Len(result)
            /\ \A i \in 1 .. Len(SlotsOf(m)) + Len(result) : (SlotsOf(m) \o result)[i] =
                  IF i <= Len(SlotsOf(m)) THEN SlotsOf(m)[i] ELSE result[i - Len(SlotsOf(m))]
        BY <1>4, <3>2, ConcatProperties
      <4> QED  BY <1>4, <3>2, <4>1, Zenon
    <3>n. (lo + r) - b = (lo - b) + r /\ lo - b \in Nat  BY <3>1
    <3>6. ASSUME NEW i \in 1 .. (lo - b) + r PROVE SlotsOf(m)'[i] = (SlotsOf(m) \o result)[i]
      <4>1. SlotsOf(m)'[i] = mem'[(b + (i - 1)) - s]  BY <3>4, <3>n
      <4>2. CASE i <= lo - b
        <5>1. (b + (i - 1)) - s \in 0 .. lo - s - 1 /\ i \in 1 .. lo - b  BY <1>o, <3>1, <4>2
        <5>2. mem'[(b + (i - 1)) - s] = mem[(b + (i - 1)) - s]  BY <1>3, <5>1
        <5> QED  BY <3>2, <3>5, <4>1, <4>2, <5>1, <5>2
      <4>3. CASE ~(i <= lo - b)
        <5>1. i - (lo - b) \in 1 .. r /\ (b + (i - 1)) - s = lo - s  BY <1>o, <3>1, <4>3
        <5> QED  BY <1>4, <3>5, <4>1, <4>3, <5>1
      <4> QED  BY <4>2, <4>3
    <3> QED  BY <3>2, <3>4, <3>5, <3>6, <3>n, SeqEqual
  <2> DEFINE resumed == [fn |-> outer[m].fn, pc |-> outer[m].pc, slots |-> outer[m].slots \o result]
  <2>10. Calls'[m] = resumed
    <3>1. Calls'[m] = [fn |-> frames'[m].fn, pc |-> ip', slots |-> SlotsOf(m)']
      BY <2>2, <2>5
    <3>2. outer[m] = [fn |-> frames[m].fn, pc |-> frames[m].ip, slots |-> SlotsOf(m)]
      BY <1>7, <2>1, <2>2, <2>6
    <3>3. resumed = [fn |-> frames[m].fn, pc |-> frames[m].ip, slots |-> SlotsOf(m) \o result]
      BY <3>2
    <3>4. frames'[m].fn = frames[m].fn  BY <2>2, <2>4
    <3> QED  BY <2>7, <2>9, <3>1, <3>3, <3>4
  <2> HIDE DEF resumed
  <2>11. /\ resumed \in Act /\ Len(Calls') = m /\ outer \in Seq(Act) /\ Len(outer) = m
         /\ Calls' \in Seq(Act)
    <3>1. Len(Calls') = m /\ Calls' \in Seq(Act) /\ Len(outer) = m  BY <1>2, <1>7, <2>1, <2>2
    <3> QED  BY <1>7, <2>2, <2>10, <3>1, ElementOfSeq
  <2> DEFINE after == [outer EXCEPT ![m] = resumed]
  <2>12. after \in Seq(Act) /\ Len(after) = m
         /\ \A n \in 1 .. m : after[n] = IF n = m THEN resumed ELSE outer[n]
    BY <2>2, <2>11, ExceptSeq
  <2> HIDE DEF after
  <2>13. ASSUME NEW n \in 1 .. m PROVE Calls'[n] = after[n]
    BY <1>7, <2>1, <2>8, <2>10, <2>12
  <2>14. Calls' = after  BY <2>11, <2>12, <2>13, SeqEqual
  <2>15. outer # <<>>  BY <2>11
  <2> QED  BY <2>11, <2>14, <2>15 DEF after, resumed
<1>11. Calls' = returned  BY <1>9, <1>10
<1>12. A!Return(r)
  <2>1. r <= Len(A!Top.slots)  BY <1>2, <1>3
  <2>2. result = SubSeq(A!Top.slots, Len(A!Top.slots) - r + 1, Len(A!Top.slots))
    BY <1>2, <1>3 DEF result
  <2>3. A!Front(Calls) = outer  BY <1>8
  <2> QED  BY <1>11, <2>1, <2>2, <2>3 DEF A!Return, Calls
<1>13. \E l \in A!Loc : TRUE
  BY <1>0 DEF TypeOK, Loc, A!Loc
<1> QED  BY <1>2, <1>12, <1>13, Zenon DEF A!Next
LEMMA RetStep == ASSUME TaskInv, TaskInv', Ret PROVE A!Next
<1>1. Running /\ Leave /\ stack' = stack /\ mem' = mem  BY DEF Ret
<1>2. frames[frame.index].stackBase = locals  BY <1>1, RunningFacts DEF Base
<1>3. sp' = locals  BY <1>2 DEF Ret
<1>4. locals \in Nat /\ 0 <= sp - locals  BY <1>1, TopIsTyped, RunningRoom
<1>5. sp' = locals + 0  BY <1>3, <1>4
<1> QED  BY <1>1, <1>4, <1>5, LeaveStep

LEMMA RetValStep == ASSUME TaskInv, TaskInv', RetVal PROVE A!Next
<1>0. TypeOK  BY DEF TaskInv
<1>1. Running /\ Leave /\ stack' = stack /\ Operands >= 1  BY DEF RetVal
<1>2. frames[frame.index].stackBase = locals  BY <1>1, RunningFacts DEF Base
<1>3. sp' = locals + 1 /\ mem' = Write(locals, At(sp - 1))  BY <1>2 DEF RetVal
<1>4. /\ locals \in Nat /\ stack <= locals /\ locals < stack + stackCapacity
      /\ 1 <= sp - locals
  BY <1>1, RunningRoom DEF Operands
<1>5. /\ mem'[locals - stack] = At(sp - 1)
      /\ \A i \in 0 .. locals - stack - 1 : mem'[i] = mem[i]
  BY <1>0, <1>3, <1>4, WriteLeavesBelow
<1> QED  BY <1>1, <1>3, <1>4, <1>5, LeaveStep
-----------------------------------------------------------------------------
(* A new task holds one activation, of the entry point.                    *)
LEMMA InitCalls == Init => A!Init
<1> SUFFICES ASSUME Init PROVE A!Init
  OBVIOUS
<1> USE TaskConstants
<1>1. /\ frames = <<[fn |-> Main, ip |-> 0, stackBase |-> stack]>> /\ Len(frames) = 1
      /\ ip = 0 /\ sp = stack + LocalCount[Main] /\ stack \in Nat
      /\ mem = [i \in 0 .. FirstStack - 1 |-> Junk]
  BY DEF Init
<1>2. PICK lc, s \in Nat : lc = LocalCount[Main] /\ s = stack /\ lc <= FirstStack
  <2>1. LocalCount[Main] \in Nat /\ LocalCount[Main] <= StackEffect[Main]
        /\ StackEffect[Main] <= FirstStack /\ StackEffect[Main] \in Nat /\ FirstStack \in Nat
    BY Constants, EffectsFit
  <2>2. LocalCount[Main] <= FirstStack  BY <2>1
  <2> QED  BY <1>1, <2>1, <2>2
<1> DEFINE x == [i \in 1 .. lc |-> Junk]
<1>3. x \in A!Locals(Main)  BY <1>2 DEF A!Locals, A!Content
<1>4. SlotsOf(1) = x
  <2>1. Base(1) = s /\ End(1) = s + lc  BY <1>1, <1>2 DEF Base, End
  <2>2. SlotsOf(1) = [i \in 1 .. (s + lc) - s |-> mem[(s + i - 1) - s]]
    BY <1>2, <2>1 DEF SlotsOf, At
  <2>3. (s + lc) - s = lc  OBVIOUS
  <2>4. ASSUME NEW i \in 1 .. lc PROVE mem[(s + i - 1) - s] = Junk
    <3>1. (s + i - 1) - s \in 0 .. FirstStack - 1  BY <1>2
    <3> QED  BY <1>1, <3>1
  <2> QED  BY <2>2, <2>3, <2>4
<1>5. Activation(1) = [fn |-> Main, pc |-> 0, slots |-> x]
  BY <1>1, <1>4 DEF Activation, SlotsOf, Base
<1>6. <<>> \o x = x
  <2>1. x \in Seq({Junk})  BY <1>2
  <2> HIDE DEF x
  <2> QED  BY <2>1
<1>7. [n \in 1 .. Len(frames) |-> Activation(n)] = <<A!Frame(Main, <<>>, x)>>
  <2>1. A!Frame(Main, <<>>, x) = Activation(1)  BY <1>5, <1>6 DEF A!Frame
  <2> HIDE DEF Activation, x
  <2>2. [n \in 1 .. Len(frames) |-> Activation(n)] = [n \in 1 .. 1 |-> Activation(n)]  BY <1>1
  <2>3. PICK a : a = Activation(1)  OBVIOUS
  <2>4. [n \in 1 .. 1 |-> Activation(n)] = [n \in 1 .. 1 |-> a]  BY <2>3
  <2>5. [n \in 1 .. 1 |-> a] = <<a>>  OBVIOUS
  <2> QED  BY <2>1, <2>2, <2>3, <2>4, <2>5
<1> QED  BY <1>3, <1>7 DEF A!Init

LEMMA HaltLeavesCalls == ASSUME UNCHANGED <<taskVars, regVars>> PROVE Calls' = Calls
BY DEF taskVars, regVars, Calls, Activation, End, At

(* Calls, returns and growth of the stack disturb no slot of another       *)
(* activation and no return address: whatever orbit_vmRun does with its    *)
(* pointers, the byte code sees a stack of activations.                    *)
THEOREM TaskImplementsActivations == Spec => ImplementsActivations
<1>1. TaskInv /\ TaskInv' /\ [Next]_vars => [A!Next]_([n \in 1 .. Len(frames) |-> Activation(n)])
  <2> SUFFICES ASSUME TaskInv, TaskInv', [Next]_vars PROVE A!Next \/ Calls' = Calls
    BY DEF Calls
  <2>1. ASSUME NEW v \in Value, Load(v) PROVE A!Next  BY <2>1, LoadStep
  <2>2. CASE LoadLocal  BY <2>2, LoadLocalStep
  <2>3. CASE StoreLocal  BY <2>3, StoreLocalStep
  <2>4. ASSUME NEW n \in 1 .. 2, NEW v \in Value, Combine(n, v) PROVE A!Next
    BY <2>4, CombineStep
  <2>5. ASSUME NEW n \in 1 .. 2, Drop(n) PROVE A!Next  BY <2>5, DropStep
  <2>6. CASE Swap  BY <2>6, SwapStep
  <2>7. ASSUME NEW n \in 0 .. 1, NEW l \in Loc, Jump(n, l) PROVE A!Next  BY <2>7, JumpStep
  <2>8. CASE Halt  BY <2>8, HaltLeavesCalls DEF Halt
  <2>9. ASSUME NEW f \in Native, NEW base \in Address, Invoke(f, base) PROVE A!Next
    BY <2>9, InvokeStep
  <2>10. ASSUME NEW f \in Foreign, NEW result \in SeqOf(Value, 1), InvokeForeign(f, result)
         PROVE  A!Next
    BY <2>10, InvokeForeignStep
  <2>11. CASE Ret  BY <2>11, RetStep
  <2>12. CASE RetVal  BY <2>12, RetValStep
  <2>13. CASE UNCHANGED vars  BY <2>13, HaltLeavesCalls DEF vars
  <2> QED
    BY <2>1, <2>2, <2>3, <2>4, <2>5, <2>6, <2>7, <2>8, <2>9, <2>10, <2>11, <2>12, <2>13, Zenon
    DEF Next
<1> QED  BY <1>1, InitCalls, TaskInvariance, PTL DEF Spec, ImplementsActivations, A!Spec
=============================================================================
