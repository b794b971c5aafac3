-------------------------------- MODULE Task --------------------------------
(***************************************************************************)
(* The execution of one task: its operand stack and call frames (value.h,  *)
(* struct _OrbitVMTask), the interpreter's loop over the byte code (vm.c,  *)
(* orbit_vmRun) and the growth of both arrays, which may move them while   *)
(* sp, the frames and the locals of orbit_vmRun point into them.           *)
(*                                                                         *)
(* A pointer to the operand stack is an address, a number.  Instructions   *)
(* that differ only in the value they compute are one action.  The byte    *)
(* code is any that keeps its functions within their declared stack        *)
(* effect; which instruction stands where is left open.                    *)
(***************************************************************************)
EXTENDS Integers, Sequences, FiniteSets, SequencesExt

CONSTANTS
    Value,           \* the values of the language
    Junk,            \* the contents of memory nobody has written
    Native,          \* the byte code functions
    Foreign,         \* the functions implemented in C
    Main,            \* the entry point
    Arity,           \* function->arity
    LocalCount,      \* function->localCount
    StackEffect,     \* function->stackEffect
    Depth,           \* the slots its byte code really uses beyond its parameters
    CodeLength,      \* how many instructions a function has
    Address,         \* where the allocator can place the operand stack
    Block,           \* where it can place the frames
    FirstStack,      \* the stackCapacity of a new task: 512
    FirstFrames,     \* the frameCapacity of a new task: 32
    MaxStack,        \* bound on stackCapacity
    MaxFrames        \* bound on frameCapacity

Content == Value \cup {Junk}
Function == Native \cup Foreign

ASSUME TaskConstants ==
    /\ Native \cap Foreign = {}
    /\ Main \in Native
    /\ Arity \in [Function -> Nat] /\ Arity[Main] = 0
    /\ LocalCount \in [Native -> Nat]
    /\ StackEffect \in [Native -> 0 .. 255]      \* a uint8_t
    /\ Depth \in [Native -> Nat]
    /\ CodeLength \in Nat
    /\ FirstStack \in Nat \ {0} /\ MaxStack \in Nat /\ FirstStack <= MaxStack
    /\ FirstFrames \in Nat \ {0} /\ MaxFrames \in Nat /\ FirstFrames <= MaxFrames
    /\ Address \subseteq Nat

\* The compiler's side of the contract: the stack effect of a function
\* covers its locals and its operands.  Nothing tests it for the entry
\* point; it is a byte, and a new task has 512 cells.
ASSUME EffectsFit ==
    /\ \A f \in Native : LocalCount[f] <= Depth[f] /\ Depth[f] <= StackEffect[f]
    /\ StackEffect[Main] <= FirstStack

\* Blocks of memory do not overlap.
ASSUME AddressesApart ==
    \A a, b \in Address : a < b => a + MaxStack < b

VARIABLES
    stack,           \* task->stack
    stackCapacity,   \* task->stackCapacity
    mem,             \* the contents of the stack, by offset
    sp,              \* task->sp
    frames,          \* task->frames, up to task->frameCount
    framesAt,        \* where that array is
    frameCapacity,   \* task->frameCapacity
    frame, fn, ip, locals,   \* the locals of orbit_vmRun
    status           \* whether orbit_vmRun has returned

taskVars == <<stack, stackCapacity, mem, sp, frames, framesAt, frameCapacity>>
regVars  == <<frame, fn, ip, locals>>
vars == <<taskVars, regVars, status>>
-----------------------------------------------------------------------------
Running == status = "running"
Loc == 0 .. CodeLength
FrameAt(n) == [block |-> framesAt, index |-> n]

(* The operands of the running activation.                                 *)
Operands == sp - (locals + Arity[fn] + LocalCount[fn])
Slots == Arity[fn] + LocalCount[fn]
At(p) == mem[p - stack]
Write(p, v) == [mem EXCEPT ![p - stack] = v]

(* Byte code pushes no more than it needs.                                 *)
HasRoom(n) == sp + n <= locals + Arity[fn] + Depth[fn]

(* orbit_gcTaskNew, then orbit_vmRun up to its loop.                       *)
Init ==
    /\ stack \in Address
    /\ framesAt \in Block
    /\ stackCapacity = FirstStack
    /\ mem = [i \in 0 .. FirstStack - 1 |-> Junk]
    /\ sp = stack + LocalCount[Main]
    /\ frames = <<[fn |-> Main, ip |-> 0, stackBase |-> stack]>>
    /\ frameCapacity = FirstFrames
    /\ frame = FrameAt(1)
    /\ fn = Main
    /\ ip = 0
    /\ locals = stack
    /\ status = "running"
-----------------------------------------------------------------------------
(* The next instruction: the one that follows, or any for a jump.          *)
Advance == /\ ip < CodeLength
           /\ ip' = ip + 1

Computing == UNCHANGED <<stack, stackCapacity, frames, framesAt, frameCapacity,
                         frame, fn, locals, status>>

(* load_nil, load_true, load_false, load_const, load_global                *)
Load(v) ==
    /\ Running /\ HasRoom(1)
    /\ mem' = Write(sp, v)
    /\ sp' = sp + 1
    /\ Advance /\ Computing

(* load_local                                                              *)
LoadLocal ==
    /\ Running /\ HasRoom(1)
    /\ \E i \in 0 .. Slots - 1 : mem' = Write(sp, At(locals + i))
    /\ sp' = sp + 1
    /\ Advance /\ Computing

(* store_local                                                             *)
StoreLocal ==
    /\ Running /\ Operands >= 1
    /\ \E i \in 0 .. Slots - 1 : mem' = Write(locals + i, At(sp - 1))
    /\ sp' = sp - 1
    /\ Advance /\ Computing

(* add, sub, mul, div, test_lt, test_gt, test_eq; load_field replaces one. *)
Combine(n, v) ==
    /\ Running /\ Operands >= n
    /\ mem' = Write(sp - n, v)
    /\ sp' = sp - n + 1
    /\ Advance /\ Computing

(* pop and store_global drop one operand, store_field drops two.           *)
Drop(n) ==
    /\ Running /\ Operands >= n
    /\ sp' = sp - n
    /\ UNCHANGED mem
    /\ Advance /\ Computing

Swap ==
    /\ Running /\ Operands >= 2
    /\ mem' = [mem EXCEPT ![sp - 1 - stack] = At(sp - 2), ![sp - 2 - stack] = At(sp - 1)]
    /\ UNCHANGED sp
    /\ Advance /\ Computing

(* jump, rjump: n = 0; jump_if, rjump_if pop the condition: n = 1.         *)
Jump(n, l) ==
    /\ Running /\ Operands >= n
    /\ sp' = sp - n
    /\ ip' = l
    /\ UNCHANGED mem
    /\ Computing

(* halt; and a call of something that is not a function ends the run too.  *)
Halt ==
    /\ Running
    /\ status' = "ended"
    /\ UNCHANGED <<taskVars, regVars>>
-----------------------------------------------------------------------------
(* orbit_vmEnsureFrames: the frames may move.                              *)
EnsureFrames ==
    IF Len(frames) + 1 < frameCapacity
    THEN UNCHANGED <<framesAt, frameCapacity>>
    ELSE /\ 2 * frameCapacity <= MaxFrames
         /\ framesAt' \in Block
         /\ frameCapacity' = 2 * frameCapacity

(* Mistake: the capacity is doubled once, whatever is required.            *)
EnoughDoubledOnce(capacity, required) ==
    IF required <= capacity THEN capacity ELSE 2 * capacity

(* The first capacity, doubling, that is enough.  The request is a byte,   *)
(* so it takes no more than eight doublings.                               *)
Powers == {1, 2, 4, 8, 16, 32, 64, 128, 256}

Enough(capacity, required) ==
    CHOOSE c \in {capacity * p : p \in Powers} :
        /\ c >= required
        /\ c = capacity \/ c < 2 * required

(* orbit_vmEnsureStack for req slots: base is where the stack is           *)
(* afterwards, and what pointed into it is shifted along.                  *)
EnsureStack(req, base) ==
    LET required == sp - stack + req
        capacity == Enough(stackCapacity, required)
    IN  /\ required <= stackCapacity => base = stack
        /\ capacity <= MaxStack
        /\ stack' = base
        /\ stackCapacity' = capacity
        /\ mem' = [i \in 0 .. capacity - 1 |-> IF i < stackCapacity THEN mem[i] ELSE Junk]

Shift(base) == base - stack

(* Mistake: the frames keep their pointers into the old stack.             *)
MovedNot(base) == frames

Moved(base) ==
    [n \in 1 .. Len(frames) |-> [frames[n] EXCEPT !.stackBase = @ + Shift(base)]]

(* The frame of a call lies on the parameters, which are on top of the     *)
(* operands of the caller; the caller's frame notes where it resumes.      *)
Parameters(f, base) == sp + Shift(base) - Arity[f]

Pushed(f, base) ==
    Append([Moved(base) EXCEPT ![frame.index].ip = ip + 1],
           [fn |-> f, ip |-> 0, stackBase |-> Parameters(f, base)])

(* invoke of a byte code function, its symbol resolved.                    *)
Invoke(f, base) ==
    /\ Running /\ Operands >= Arity[f]
    /\ ip < CodeLength
    /\ EnsureFrames
    /\ EnsureStack(StackEffect[f], base)
    /\ frames' = Pushed(f, base)
    /\ frame' = [block |-> framesAt', index |-> Len(frames) + 1]
    /\ locals' = Parameters(f, base)
    /\ sp' = sp + Shift(base) + LocalCount[f]
    /\ fn' = f
    /\ ip' = 0
    /\ UNCHANGED status

(* invoke of a foreign function: it reads its parameters on the stack and  *)
(* leaves a result in place of the first, or none.                         *)
InvokeForeign(f, result) ==
    /\ Running /\ Operands >= Arity[f]
    /\ Len(result) > Arity[f] => HasRoom(1)
    /\ Advance
    /\ frames' = [frames EXCEPT ![frame.index].ip = ip + 1]
    /\ IF result = <<>>
       THEN sp' = sp - Arity[f] /\ UNCHANGED mem
       ELSE sp' = sp - (Arity[f] - 1) /\ mem' = Write(sp - Arity[f], result[1])
    /\ UNCHANGED <<stack, stackCapacity, framesAt, frameCapacity, frame, fn, locals, status>>

(* Mistake: the caller is resumed at the address its callee had reached.   *)
LeaveKeepsIp ==
    LET caller == frames[Len(frames) - 1]
    IN  /\ frames' = Front(frames)
        /\ IF Len(frames) = 1
           THEN status' = "ended" /\ UNCHANGED regVars
           ELSE /\ frame' = FrameAt(Len(frames) - 1)
                /\ fn' = caller.fn
                /\ locals' = caller.stackBase
                /\ UNCHANGED <<ip, status>>

(* Mistake: the local variables of the callee stay in use.                 *)
LeaveKeepsLocals ==
    LET caller == frames[Len(frames) - 1]
    IN  /\ frames' = Front(frames)
        /\ IF Len(frames) = 1
           THEN status' = "ended" /\ UNCHANGED regVars
           ELSE /\ frame' = FrameAt(Len(frames) - 1)
                /\ fn' = caller.fn
                /\ ip' = caller.ip
                /\ UNCHANGED <<locals, status>>

(* do_return: the caller's pointers are brought back from its frame.       *)
Leave ==
    LET caller == frames[Len(frames) - 1]
    IN  /\ frames' = Front(frames)
        /\ IF Len(frames) = 1
           THEN status' = "ended" /\ UNCHANGED regVars
           ELSE /\ frame' = FrameAt(Len(frames) - 1)
                /\ fn' = caller.fn
                /\ ip' = caller.ip
                /\ locals' = caller.stackBase
                /\ UNCHANGED status

Ret ==
    /\ Running
    /\ sp' = frames[frame.index].stackBase
    /\ Leave
    /\ UNCHANGED <<stack, stackCapacity, mem, framesAt, frameCapacity>>

RetVal ==
    /\ Running /\ Operands >= 1
    /\ LET base == frames[frame.index].stackBase
       IN  /\ mem' = Write(base, At(sp - 1))
           /\ sp' = base + 1
    /\ Leave
    /\ UNCHANGED <<stack, stackCapacity, framesAt, frameCapacity>>

Next ==
    \/ \E v \in Value : Load(v)
    \/ LoadLocal
    \/ StoreLocal
    \/ \E n \in 1 .. 2, v \in Value : Combine(n, v)
    \/ \E n \in 1 .. 2 : Drop(n)
    \/ Swap
    \/ \E n \in 0 .. 1, l \in Loc : Jump(n, l)
    \/ Halt
    \/ \E f \in Native, base \in Address : Invoke(f, base)
    \/ \E f \in Foreign, result \in SeqOf(Value, 1) : InvokeForeign(f, result)
    \/ Ret
    \/ RetVal

Spec == Init /\ [][Next]_vars
-----------------------------------------------------------------------------
FrameType == [fn : Native, ip : Loc, stackBase : Nat]

TypeOK ==
    /\ stack \in Address
    /\ stackCapacity \in FirstStack .. MaxStack
    /\ mem \in [0 .. stackCapacity - 1 -> Content]
    /\ sp \in Nat
    /\ frames \in Seq(FrameType)
    /\ framesAt \in Block
    /\ frameCapacity \in FirstFrames .. MaxFrames
    /\ frame \in [block : Block, index : Nat \ {0}]
    /\ fn \in Native /\ ip \in Loc /\ locals \in Nat
    /\ status \in {"running", "ended"}

(* Where the slots of the n-th activation end.                             *)
End(n) == IF n = Len(frames) THEN sp ELSE frames[n + 1].stackBase

(* Every pointer into the operand stack points into the block it is in     *)
(* now, however often it moved, and the activations lie one after the      *)
(* other: none reaches into the slots of another.                          *)
PointersAreNested ==
    /\ frames # <<>> => frames[1].stackBase = stack
    /\ \A n \in 1 .. Len(frames) : frames[n].stackBase <= End(n)
    /\ stack <= sp /\ sp <= stack + stackCapacity

(* Every instruction finds the room its function declared: what is tested  *)
(* at the call holds to the return, through the calls made in between.     *)
DeclaredRoomIsThere ==
    Running => locals + Arity[fn] + StackEffect[fn] <= stack + stackCapacity

(* The locals of orbit_vmRun follow the frames, also when these move.      *)
RegistersFollowFrames ==
    Running =>
        /\ frame = FrameAt(Len(frames))
        /\ Len(frames) <= frameCapacity
        /\ locals = frames[Len(frames)].stackBase
        /\ fn = frames[Len(frames)].fn

(* The task implements the activations of the byte code: calls, returns    *)
(* and growth disturb no slot of another activation and no return address. *)
Activation(n) ==
    [fn    |-> frames[n].fn,
     pc    |-> IF n = Len(frames) THEN ip ELSE frames[n].ip,
     slots |-> [i \in 1 .. End(n) - frames[n].stackBase |-> At(frames[n].stackBase + i - 1)]]

A == INSTANCE Activations WITH calls <- [n \in 1 .. Len(frames) |-> Activation(n)]

ImplementsActivations == A!Spec
=============================================================================
