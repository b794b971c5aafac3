------------------------------- MODULE Linking -------------------------------
(***************************************************************************)
(* How byte code finds what it calls (vm.c, the invoke and init families   *)
(* of orbit_vmRun).  A call site names its callee by a symbol in the       *)
(* constant pool of its module.  The first execution looks the symbol up,  *)
(* writes what it found over the constant and the direct opcode over the   *)
(* symbolic one: byte code and constants are changed while they execute.   *)
(*                                                                         *)
(* The byte code is kept byte by byte, since instructions are rewritten at *)
(* a distance from ip.  Operands and frames are in module Task; modules    *)
(* loaded meanwhile appear as changes of the two tables of the VM.         *)
(***************************************************************************)
EXTENDS Integers, Sequences, SequencesExt

CONSTANTS
    Symbol,       \* the strings that name functions and classes
    Nil,          \* VAL_NIL
    Native,       \* byte code functions of the module
    Foreign,      \* functions found elsewhere: they are called and return
    Signature,    \* for each function, the symbol it is registered under
    Class,        \* the classes
    Code,         \* for each byte code function, its bytes as loaded
    Pool,         \* the constants of the module as loaded
    MaxDepth      \* bound on the frames

Function == Native \cup Foreign

ASSUME LinkingConstants ==
    /\ Native \cap Foreign = {} /\ Function \cap Symbol = {} /\ Class \cap Symbol = {}
    /\ Function \cap Class = {}
    /\ Nil \notin Symbol \cup Function \cup Class
    /\ Signature \in [Function -> Symbol]
    /\ Code \in [Native -> Seq(0 .. 255)]
    /\ Pool \in Seq(Symbol)

VARIABLES
    code,         \* function->native.byteCode
    constants,    \* module->constants; index 0 is at position 1
    dispatch,     \* vm->dispatchTable, Nil for a symbol it does not hold
    classes,      \* vm->classes
    frames,       \* the frames of the task: function and position of ip
    status,       \* idle, running, or aborted by an assertion
    bindings,     \* the pairs ever put in the dispatch table
    calls         \* for each call site executed, the functions it called

tables == <<dispatch, classes, bindings>>
vars == <<code, constants, dispatch, classes, frames, status, bindings, calls>>
-----------------------------------------------------------------------------
(* The opcodes by their numbers, and how many bytes of argument follow     *)
(* them (opcodes.h).                                                       *)
CODE_halt == 0
CODE_load_const == 4
CODE_and == 18
CODE_or == 19
CODE_invoke_sym == 26
CODE_invoke == 27
CODE_ret_val == 28
CODE_ret == 29
CODE_init_sym == 30
CODE_init == 31
CODE_debug_prt == 32

Linked == {CODE_invoke_sym, CODE_invoke, CODE_init_sym, CODE_init}
WithIndex == Linked \cup {CODE_load_const, 6, 7, 9, 10, CODE_and, CODE_or, 20, 21, 22, 23}
Arguments(op) ==
    IF op \in WithIndex THEN 2 ELSE IF op \in {5, 8} THEN 1 ELSE 0

(* The instructions that only touch operands; jumps are left out.          *)
Plain == (0 .. CODE_debug_prt)
            \ (Linked \cup {CODE_halt, CODE_ret, CODE_ret_val, 20, 21, 22, 23})

(* What the cases of the interpreter read: and, or are not implemented,    *)
(* init_sym reads a byte of its index.                                     *)
Read(op) ==
    CASE op \in {CODE_and, CODE_or} -> 0
      [] op = CODE_init_sym -> 1
      [] OTHER -> Arguments(op)
-----------------------------------------------------------------------------
Init ==
    /\ code = Code
    /\ constants = Pool
    /\ dispatch = [s \in Symbol |-> Nil]
    /\ classes = [s \in Symbol |-> Nil]
    /\ frames = <<>>
    /\ status = "idle"
    /\ bindings = {}
    /\ calls = [s \in {} |-> {}]

(* A module or the standard library is registered: the last binding of a   *)
(* symbol stays.                                                           *)
Register(f) ==
    /\ status = "idle"
    /\ dispatch' = [dispatch EXCEPT ![Signature[f]] = f]
    /\ bindings' = bindings \cup {<<Signature[f], f>>}
    /\ UNCHANGED <<code, constants, classes, frames, status, calls>>

RegisterClass(s, c) ==
    /\ status = "idle"
    /\ classes' = [classes EXCEPT ![s] = c]
    /\ UNCHANGED <<code, constants, dispatch, bindings, frames, status, calls>>

(* orbit_vmInvoke of an entry point.                                       *)
Start(f) ==
    /\ status = "idle"
    /\ status' = "running"
    /\ frames' = <<[fn |-> f, ip |-> 1]>>
    /\ UNCHANGED <<code, constants, tables, calls>>
-----------------------------------------------------------------------------
Running == status = "running"
Fn == Last(frames).fn
Ip == Last(frames).ip
Op == code[Fn][Ip]
Executing(op) == Running /\ Op = op

Read16(p) == 256 * code[Fn][p] + code[Fn][p + 1]
Constant(idx) == constants[idx + 1]
SetIp(l) == [frames EXCEPT ![Len(frames)].ip = l]

(* The run ends; the byte code and the constants stay as they are.         *)
Stop == frames' = <<>> /\ status' = "idle"

(* A failed assertion: a symbol that is no string (value.c, orbit_gcMapGet *)
(* and orbit_gcInstanceNew).                                               *)
Abort ==
    /\ frames' = <<>> /\ status' = "aborted"
    /\ UNCHANGED <<code, constants, tables, calls>>

(* The instruction as loaded names its callee, by a place in the pool.     *)
Site(f, p) == 256 * Code[f][p + 1] + Code[f][p + 2] + 1

Named(f, p) == Pool[Site(f, p)]

Log(callee) ==
    LET site == <<Fn, Ip>>
    IN  calls' = [s \in DOMAIN calls \cup {site} |->
                    (IF s \in DOMAIN calls THEN calls[s] ELSE {})
                        \cup (IF s = site THEN {callee} ELSE {})]

(* do_invoke, with ip behind the instruction.                              *)
Call(callee) ==
    IF callee \notin Function
    THEN Stop /\ UNCHANGED calls
    ELSE /\ Log(callee)
         /\ UNCHANGED status
         /\ IF callee \in Native
            THEN /\ Len(frames) < MaxDepth
                 /\ frames' = Append(SetIp(Ip + 3), [fn |-> callee, ip |-> 1])
            ELSE frames' = SetIp(Ip + 3)

(* Mistake: one byte of the argument is read and ip is left behind it.     *)
InvokeSymReadsByte ==
    /\ Executing(CODE_invoke_sym)
    /\ LET idx == code[Fn][Ip + 1]
           p == Ip + 2
           callee == dispatch[Constant(idx)]
       IN  IF Constant(idx) \notin Symbol \/ callee \notin Foreign
           THEN Abort
           ELSE /\ code' = IF p - 3 >= 1 THEN [code EXCEPT ![Fn][p - 3] = CODE_invoke] ELSE code
                /\ constants' = [constants EXCEPT ![idx + 1] = callee]
                /\ Log(callee)
                /\ frames' = SetIp(p)
                /\ UNCHANGED <<status, tables>>

(* Mistake: the callee is looked up again at every call.                   *)
InvokeSymForgets ==
    /\ Executing(CODE_invoke_sym)
    /\ Call(dispatch[Constant(Read16(Ip + 1))])
    /\ UNCHANGED <<code, constants, tables>>

(* Mistake: a lookup that fails leaves the callee of an earlier call.      *)
InvokeSymAfterMiss ==
    /\ Executing(CODE_invoke_sym)
    /\ LET idx == Read16(Ip + 1)
           found == dispatch[Constant(idx)]
       IN  /\ Constant(idx) \in Symbol
           /\ \E callee \in IF found = Nil THEN Range(constants) ELSE {found} :
                 /\ code' = [code EXCEPT ![Fn][Ip] = CODE_invoke]
                 /\ constants' = [constants EXCEPT ![idx + 1] = callee]
                 /\ Call(callee)
    /\ UNCHANGED tables

InvokeSym ==
    /\ Executing(CODE_invoke_sym)
    /\ LET idx == Read16(Ip + 1)
           p == Ip + 3
           callee == dispatch[Constant(idx)]
       IN  IF Constant(idx) \notin Symbol
           THEN Abort
           ELSE /\ code' = [code EXCEPT ![Fn][p - 3] = CODE_invoke]
                /\ constants' = [constants EXCEPT ![idx + 1] = callee]
                /\ Call(callee)
                /\ UNCHANGED tables

Invoke ==
    /\ Executing(CODE_invoke)
    /\ Call(Constant(Read16(Ip + 1)))
    /\ UNCHANGED <<code, constants, tables>>

Return ==
    /\ Executing(CODE_ret) \/ Executing(CODE_ret_val)
    /\ IF Len(frames) = 1 THEN Stop ELSE frames' = Front(frames) /\ UNCHANGED status
    /\ UNCHANGED <<code, constants, tables, calls>>

Halt ==
    /\ Executing(CODE_halt)
    /\ Stop
    /\ UNCHANGED <<code, constants, tables, calls>>

(* The opcode lands three bytes before the next; a class that is not there *)
(* is not tested.                                                          *)
InitSym ==
    /\ Executing(CODE_init_sym)
    /\ LET idx == code[Fn][Ip + 1]
           p == Ip + 1 + Read(CODE_init_sym)
       IN  IF Constant(idx) \notin Symbol
           THEN Abort
           ELSE /\ code' = IF p - 3 >= 1 THEN [code EXCEPT ![Fn][p - 3] = CODE_init] ELSE code
                /\ constants' = [constants EXCEPT ![idx + 1] = classes[Constant(idx)]]
                /\ IF classes[Constant(idx)] = Nil
                   THEN frames' = <<>> /\ status' = "aborted"
                   ELSE frames' = SetIp(p) /\ UNCHANGED status
                /\ UNCHANGED <<tables, calls>>

InitDirect ==
    /\ Executing(CODE_init)
    /\ IF Constant(Read16(Ip + 1)) \in Class
       THEN frames' = SetIp(Ip + 3) /\ UNCHANGED status
       ELSE Stop
    /\ UNCHANGED <<code, constants, tables, calls>>

Execute ==
    /\ Running /\ Op \in Plain
    /\ frames' = SetIp(Ip + 1 + Read(Op))
    /\ UNCHANGED <<code, constants, tables, calls, status>>

Next ==
    \/ \E f \in Function : Register(f)
    \/ \E s \in Symbol, c \in Class : RegisterClass(s, c)
    \/ \E f \in Native : Start(f)
    \/ InvokeSym
    \/ Invoke
    \/ Return
    \/ Halt
    \/ InitSym
    \/ InitDirect
    \/ Execute

Spec == Init /\ [][Next]_vars
-----------------------------------------------------------------------------
(* Where the instructions of a function start: at the first byte, and      *)
(* behind the arguments of another.                                        *)
Following(f, p) == p + 1 + Arguments(Code[f][p])

Linear(f, S) ==
    /\ 1 \in S
    /\ \A p \in S : Following(f, p) <= Len(Code[f]) => Following(f, p) \in S

Starts ==
    [f \in Native |->
        {p \in 1 .. Len(Code[f]) : \A S \in SUBSET (1 .. Len(Code[f])) : Linear(f, S) => p \in S}]

(* The functions whose every instruction reads the arguments it has.       *)
InStep == {f \in Native : \A p \in Starts[f] : Read(Code[f][p]) = Arguments(Code[f][p])}

(* The compiler's side of the contract, which nothing in the VM tests: a   *)
(* function ends with halt or a return, and its calls name constants.      *)
ASSUME CodeIsComplete ==
    \A f \in InStep :
        /\ Code[f] # <<>>
        /\ \A p \in Starts[f] :
              /\ Code[f][p] \notin {CODE_halt, CODE_ret, CODE_ret_val}
                    => Following(f, p) <= Len(Code[f])
              /\ Code[f][p] \in {CODE_invoke_sym, CODE_invoke} => Site(f, p) <= Len(Pool)

(* Types; a run has frames exactly while it runs.                          *)
TypeOK ==
    /\ DOMAIN code = Native
    /\ \A f \in Native : code[f] \in [1 .. Len(Code[f]) -> 0 .. 255]
    /\ constants \in [1 .. Len(Pool) -> Symbol \cup Function \cup Class \cup {Nil}]
    /\ dispatch \in [Symbol -> Function \cup {Nil}]
    /\ classes \in [Symbol -> Class \cup {Nil}]
    /\ frames \in Seq([fn : Native, ip : Nat \ {0}])
    /\ status \in {"idle", "running", "aborted"}
    /\ status = "running" <=> frames # <<>>
    /\ bindings \subseteq Symbol \X Function

(* A call reaches a function that was registered under the name its site   *)
(* was compiled with, whatever other sites were linked in between.  A      *)
(* function with an init_sym patches its own code at the wrong byte, so    *)
(* this is said of the others.                                             *)
CalleesAreTheOnesNamed ==
    \A s \in DOMAIN calls : s[1] \in InStep =>
        \A f \in calls[s] : <<Named(s[1], s[2]), f>> \in bindings

(* Once a site has called a function it calls that function ever after,    *)
(* also when another module registers the same name.                       *)
SitesKeepTheirCallee ==
    \A s \in DOMAIN calls : s[1] \in InStep => \A f, g \in calls[s] : f = g

(* opcodes.h: the second parameter is "the number of bytes following the   *)
(* opcode in the bytecode stream that should be read as argument".  So     *)
(* every frame's ip is at the start of an instruction.                     *)
IpIsAtInstruction ==
    \A n \in 1 .. Len(frames) : frames[n].ip \in Starts[frames[n].fn]

(* It holds of the functions without and, or, init_sym, through calls into *)
(* functions that have them, returns, and the rewriting of their sites.    *)
FramesStayInStep ==
    \A n \in 1 .. Len(frames) :
        frames[n].fn \in InStep => frames[n].ip \in Starts[frames[n].fn]

(* vm.c on invoke: "by then, the entry in the run-time constant pool       *)
(* points to a function object rather than a string".                      *)
DirectCallsReachFunctions ==
    \A f \in Native : \A p \in Starts[f] :
        code[f][p] = CODE_invoke =>
            constants[256 * code[f][p + 1] + code[f][p + 2] + 1] \in Function

(* value.c asserts it of the key of a lookup: "Map keys must be            *)
(* primitives".  So the constant of a symbolic call is still a string.     *)
SymbolsAreStrings ==
    Executing(CODE_invoke_sym) => Constant(Read16(Ip + 1)) \in Symbol
=============================================================================
