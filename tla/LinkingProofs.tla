---------------------------- MODULE LinkingProofs ----------------------------
(***************************************************************************)
(* For every module of code and every order of loading, linking and        *)
(* calling: a call site reaches a function registered under the name it    *)
(* was compiled with, keeps it, and no frame stands between instructions;  *)
(* for the functions that execute no and, or, init_sym, whatever the       *)
(* others do to the constants they share.                                  *)
(***************************************************************************)
EXTENDS Linking, WellFoundedInduction, SequenceTheorems, TLAPS

(* The constants are those of the pool, or what was found under their      *)
(* names; the byte code is as loaded but for the calls already linked; a   *)
(* site that called a function has it in its constant.                     *)
ConstantsAreFound ==
    \A k \in 1 .. Len(Pool) :
        /\ constants[k] \in Symbol => constants[k] = Pool[k]
        /\ constants[k] \in Function => <<Pool[k], constants[k]>> \in bindings

DispatchIsBound ==
    \A s \in Symbol : dispatch[s] \in Function => <<s, dispatch[s]>> \in bindings

CodeIsKept ==
    \A f \in InStep : \A p \in 1 .. Len(Code[f]) :
        \/ code[f][p] = Code[f][p]
        \/ /\ p \in Starts[f]
           /\ Code[f][p] = CODE_invoke_sym /\ code[f][p] = CODE_invoke

IsCall(f, p) == p \in Starts[f] /\ Code[f][p] \in {CODE_invoke_sym, CODE_invoke}

SitesAreLinked ==
    /\ DOMAIN calls \subseteq Native \X Nat
    /\ \A s \in DOMAIN calls : s[1] \in InStep =>
          /\ IsCall(s[1], s[2])
          /\ \A g \in calls[s] : g \in Function /\ constants[Site(s[1], s[2])] = g

LinkInv ==
    /\ TypeOK
    /\ ConstantsAreFound
    /\ DispatchIsBound
    /\ CodeIsKept
    /\ SitesAreLinked
    /\ FramesStayInStep
-----------------------------------------------------------------------------
LEMMA SmallestOf ==
    ASSUME NEW T, T \subseteq Nat, T # {}
    PROVE  \E m \in T : \A n \in T : m <= n
<1>1. PICK m \in T : \A n \in T : ~ (<<n, m>> \in OpToRel(<, Nat))
  BY NatLessThanWellFounded, WFMin, Zenon
<1>2. \A n \in T : ~ (n < m)  BY <1>1 DEF OpToRel
<1>3. \A n \in T : m <= n  BY <1>2
<1> QED  BY <1>3

(* The starts of a function: the first byte and what follows a start.      *)
LEMMA StartsAreLinear ==
    ASSUME NEW f \in Native
    PROVE  /\ Starts[f] \subseteq 1 .. Len(Code[f]) /\ Len(Code[f]) \in Nat
           /\ Code[f] # <<>> => 1 \in Starts[f]
           /\ \A p \in Starts[f] :
                 Following(f, p) <= Len(Code[f]) => Following(f, p) \in Starts[f]
           /\ \A p \in Nat : /\ Following(f, p) \in Nat /\ p < Following(f, p)
                             /\ Following(f, p) = p + 1 + Arguments(Code[f][p])
<1>1. Code[f] \in Seq(0 .. 255) /\ Len(Code[f]) \in Nat  BY LinkingConstants
<1> DEFINE D == 1 .. Len(Code[f])
<1>2. Starts[f] = {p \in D : \A S \in SUBSET D : Linear(f, S) => p \in S}
  BY DEF Starts
<1>3. Code[f] # <<>> => 1 \in Starts[f]
  <2>1. Code[f] # <<>> => 1 \in D  BY <1>1, EmptySeq
  <2>2. \A S : Linear(f, S) => 1 \in S  BY DEF Linear
  <2> HIDE DEF D
  <2> QED  BY <1>2, <2>1, <2>2
<1>4. \A p \in Nat : /\ Following(f, p) \in Nat /\ p < Following(f, p)
                     /\ Following(f, p) = p + 1 + Arguments(Code[f][p])
  BY DEF Following, Arguments
<1>5. ASSUME NEW p \in Starts[f], Following(f, p) <= Len(Code[f])
      PROVE  Following(f, p) \in Starts[f]
  <2>1. p \in Nat /\ p \in D  BY <1>2
  <2>2. Following(f, p) \in D  BY <1>1, <1>4, <1>5, <2>1
  <2>3. ASSUME NEW S \in SUBSET D, Linear(f, S) PROVE Following(f, p) \in S
    <3>1. p \in S  BY <1>2, <2>3
    <3> QED  BY <1>5, <2>3, <3>1 DEF Linear
  <2> HIDE DEF D
  <2> QED  BY <1>2, <2>2, <2>3
<1>6. Starts[f] \subseteq D  BY <1>2
<1> QED  BY <1>1, <1>3, <1>4, <1>5, <1>6

(* Every start but the first follows another.                              *)
LEMMA StartsHavePredecessors ==
    ASSUME NEW f \in Native, NEW q \in Starts[f], q # 1
    PROVE  \E r \in Starts[f] : Following(f, r) = q
<1> DEFINE D == 1 .. Len(Code[f])
           S == Starts[f] \ {q}
<1> SUFFICES ASSUME \A r \in Starts[f] : Following(f, r) # q PROVE FALSE
  OBVIOUS
<1>1. S \in SUBSET D  BY StartsAreLinear
<1>2. q \in D /\ \A X \in SUBSET D : Linear(f, X) => q \in X
  BY DEF Starts
<1>3. 1 \in S
  <2>1. Code[f] \in Seq(0 .. 255) /\ Len(Code[f]) \in Nat /\ Len(Code[f]) # 0
    BY <1>2, LinkingConstants
  <2>2. Code[f] # <<>>  BY <2>1, EmptySeq
  <2> QED  BY <2>2, StartsAreLinear
<1>4. \A p \in S : Following(f, p) <= Len(Code[f]) => Following(f, p) \in S
  BY StartsAreLinear
<1>5. Linear(f, S)  BY <1>3, <1>4 DEF Linear
<1> QED  BY <1>1, <1>2, <1>5

(* So the bytes of arguments are not starts.                               *)
LEMMA ArgumentsAreNoStarts ==
    ASSUME NEW f \in Native, NEW p \in Starts[f], NEW q \in Starts[f], p < q
    PROVE  Following(f, p) <= q
<1> DEFINE T == {t \in Starts[f] : \E s \in Starts[f] : s < t /\ t < Following(f, s)}
<1>1. Starts[f] \subseteq Nat \ {0}
  <2>1. Starts[f] \subseteq 1 .. Len(Code[f]) /\ Len(Code[f]) \in Nat
    BY StartsAreLinear
  <2> QED  BY <2>1
<1>2. ASSUME T # {} PROVE FALSE
  <2>1. PICK t \in T : \A u \in T : t <= u  BY <1>1, <1>2, SmallestOf
  <2>2. PICK s \in Starts[f] : s < t /\ t < Following(f, s)  BY <2>1
  <2>3. t \in Starts[f] /\ t # 1  BY <1>1, <2>1, <2>2
  <2>4. PICK r \in Starts[f] : Following(f, r) = t  BY <2>3, StartsHavePredecessors
  <2>5. r \in Nat /\ s \in Nat /\ t \in Nat /\ r < t
    BY <1>1, <2>1, <2>3, <2>4, StartsAreLinear
  <2>6. CASE r < s
    <3>1. s \in T  BY <2>2, <2>4, <2>6
    <3> QED  BY <2>1, <2>2, <2>5, <3>1
  <2>7. CASE r = s
    BY <2>2, <2>4, <2>5, <2>7
  <2>8. CASE s < r
    <3>1. r < Following(f, s)
      <4>1. Following(f, s) \in Nat  BY <2>5, StartsAreLinear
      <4> QED  BY <2>2, <2>5, <4>1
    <3>2. r \in T  BY <2>8, <3>1
    <3> QED  BY <2>1, <2>5, <3>2
  <2> QED  BY <2>5, <2>6, <2>7, <2>8
<1>3. ~ (q < Following(f, p))  BY <1>2
<1>4. q \in Nat /\ Following(f, p) \in Nat  BY <1>1, StartsAreLinear
<1> QED  BY <1>3, <1>4
-----------------------------------------------------------------------------
(* The frames a run may have.                                              *)
Frame == [fn : Native, ip : Nat \ {0}]

InOrder(fr) == fr.fn \in InStep => fr.ip \in Starts[fr.fn]

FramesFit(fs) == fs \in Seq(Frame) /\ \A n \in 1 .. Len(fs) : InOrder(fs[n])

LEMMA InStepIsNative == InStep \subseteq Native
BY DEF InStep

LEMMA FramesFitNow ==
    (TypeOK /\ FramesStayInStep) => FramesFit(frames)
BY DEF TypeOK, FramesStayInStep, FramesFit, Frame, InOrder

LEMMA TopFrame ==
    ASSUME TypeOK, Running
    PROVE  /\ Len(frames) \in Nat /\ Len(frames) \in 1 .. Len(frames)
           /\ frames[Len(frames)] = Last(frames)
           /\ Fn \in Native /\ Ip \in Nat \ {0}
<1>1. frames \in Seq(Frame) /\ frames # <<>>  BY DEF TypeOK, Running, Frame
<1>2. Len(frames) \in Nat /\ Len(frames) # 0  BY <1>1, EmptySeq
<1>3. Len(frames) \in 1 .. Len(frames)  BY <1>2
<1>4. frames[Len(frames)] \in Frame  BY <1>1, <1>3, ElementOfSeq
<1> QED  BY <1>2, <1>3, <1>4 DEF Frame, Last, Fn, Ip

LEMMA StartFrame ==
    ASSUME NEW f \in Native
    PROVE  [fn |-> f, ip |-> 1] \in Frame /\ InOrder([fn |-> f, ip |-> 1])
<1>1. f \in InStep => Code[f] # <<>>  BY CodeIsComplete
<1>2. Code[f] # <<>> => 1 \in Starts[f]  BY StartsAreLinear
<1> QED  BY <1>1, <1>2 DEF Frame, InOrder

(* Frames with the ip of the last one moved, with one more, with one less. *)
LEMMA MovedFit ==
    ASSUME TypeOK, FramesStayInStep, Running,
           NEW l \in Nat \ {0}, Fn \in InStep => l \in Starts[Fn]
    PROVE  FramesFit(SetIp(l)) /\ SetIp(l) # <<>>
<1> DEFINE n == Len(frames)
           fs == SetIp(l)
           top == [frames[n] EXCEPT !.ip = l]
<1>1. frames \in Seq(Frame) /\ \A m \in 1 .. n : InOrder(frames[m])
  BY FramesFitNow DEF FramesFit
<1>2. n \in Nat /\ n \in 1 .. n /\ Fn \in Native /\ frames[n] = Last(frames)
  BY TopFrame
<1>3. frames[n] \in Frame /\ Fn = frames[n].fn  BY <1>1, <1>2, ElementOfSeq DEF Fn
<1>4. top \in Frame /\ top.fn = Fn /\ top.ip = l  BY <1>3 DEF Frame
<1>5. InOrder(top)  BY <1>4 DEF InOrder
<1> HIDE DEF n
<1>6. fs = [frames EXCEPT ![n] = top]  BY DEF SetIp, n
<1> HIDE DEF fs, top
<1>7. fs \in Seq(Frame) /\ Len(fs) = n
      /\ \A m \in 1 .. n : fs[m] = IF m = n THEN top ELSE frames[m]
  <2>1. \A m \in 1 .. Len(frames) : frames[m] \in Frame  BY <1>1, ElementOfSeq
  <2> QED  BY <1>1, <1>2, <1>4, <1>6, <2>1, ExceptSeq DEF n
<1>8. \A m \in 1 .. Len(fs) : InOrder(fs[m])  BY <1>1, <1>5, <1>7
<1>9. fs # <<>>  BY <1>2, <1>7, EmptySeq
<1> QED  BY <1>7, <1>8, <1>9 DEF FramesFit, fs

LEMMA PushedFit ==
    ASSUME NEW fs, FramesFit(fs), NEW fr \in Frame, InOrder(fr)
    PROVE  FramesFit(Append(fs, fr)) /\ Append(fs, fr) # <<>>
<1>1. fs \in Seq(Frame) /\ \A m \in 1 .. Len(fs) : InOrder(fs[m])  BY DEF FramesFit
<1>2. /\ Append(fs, fr) \in Seq(Frame) /\ Len(Append(fs, fr)) = Len(fs) + 1
      /\ \A m \in 1 .. Len(fs) : Append(fs, fr)[m] = fs[m]
      /\ Append(fs, fr)[Len(fs) + 1] = fr
  BY <1>1, AppendProperties
<1>3. Len(fs) \in Nat  BY <1>1, LenProperties
<1>4. \A m \in 1 .. Len(Append(fs, fr)) : InOrder(Append(fs, fr)[m])
  BY <1>1, <1>2, <1>3
<1>5. Append(fs, fr) # <<>>  BY <1>2, <1>3, EmptySeq
<1> QED  BY <1>2, <1>4, <1>5 DEF FramesFit

LEMMA PoppedFit ==
    ASSUME NEW fs, FramesFit(fs), fs # <<>>
    PROVE  FramesFit(Front(fs)) /\ (Len(fs) # 1 => Front(fs) # <<>>)
<1>1. fs \in Seq(Frame) /\ \A m \in 1 .. Len(fs) : InOrder(fs[m])  BY DEF FramesFit
<1>2. Len(fs) \in Nat /\ Len(fs) # 0  BY <1>1, LenProperties, EmptySeq
<1>3. PICK n \in Int : n = Len(fs) - 1  BY <1>2
<1>4. /\ Front(fs) \in Seq(Frame) /\ Len(Front(fs)) = Len(fs) - 1
      /\ \A m \in 1 .. Len(fs) - 1 : Front(fs)[m] = fs[m]
  <2>1. \A m \in 1 .. n : fs[m] \in Frame  BY <1>1, <1>2, <1>3, ElementOfSeq
  <2>2. Front(fs) = SubSeq(fs, 1, n)  BY <1>3 DEF Front
  <2>3. /\ SubSeq(fs, 1, n) \in Seq(Frame)
        /\ Len(SubSeq(fs, 1, n)) = IF 1 <= n THEN n - 1 + 1 ELSE 0
        /\ \A m \in 1 .. n - 1 + 1 : SubSeq(fs, 1, n)[m] = fs[1 + m - 1]
    BY <2>1, SubSeqProperties
  <2> QED  BY <1>2, <1>3, <2>2, <2>3
<1>5. \A m \in 1 .. Len(Front(fs)) : InOrder(Front(fs)[m])  BY <1>1, <1>2, <1>4
<1>6. Len(fs) # 1 => Front(fs) # <<>>  BY <1>2, <1>4, EmptySeq
<1> QED  BY <1>4, <1>5, <1>6 DEF FramesFit
-----------------------------------------------------------------------------
(* The place in the pool that a call of such a function names.             *)
LEMMA SitesAreInThePool ==
    ASSUME NEW f \in InStep, NEW p, IsCall(f, p)
    PROVE  /\ Site(f, p) \in 1 .. Len(Pool)
           /\ p \in Nat \ {0} /\ p + 3 \in Starts[f]
           /\ p + 1 \in 1 .. Len(Code[f]) /\ p + 2 \in 1 .. Len(Code[f])
           /\ p + 1 \notin Starts[f] /\ p + 2 \notin Starts[f]
<1>1. f \in Native  BY InStepIsNative
<1>2. p \in Starts[f] /\ p \in 1 .. Len(Code[f]) /\ Len(Code[f]) \in Nat
  BY <1>1, StartsAreLinear DEF IsCall
<1>3. Code[f][p] \in {CODE_invoke_sym, CODE_invoke}  BY DEF IsCall
<1>4. Following(f, p) = p + 3
  BY <1>1, <1>2, <1>3 DEF Following, Arguments, WithIndex, Linked, CODE_invoke, CODE_invoke_sym
<1>5. p + 3 <= Len(Code[f])
  BY <1>2, <1>3, <1>4, CodeIsComplete
    DEF CODE_invoke, CODE_invoke_sym, CODE_halt, CODE_ret, CODE_ret_val
<1>6. p + 3 \in Starts[f]  BY <1>1, <1>2, <1>4, <1>5, StartsAreLinear
<1>7. p + 1 \in 1 .. Len(Code[f]) /\ p + 2 \in 1 .. Len(Code[f])  BY <1>2, <1>5
<1>8. ASSUME NEW q \in Starts[f], p < q PROVE p + 3 <= q
  BY <1>1, <1>2, <1>4, <1>8, ArgumentsAreNoStarts
<1>9. p + 1 \notin Starts[f] /\ p + 2 \notin Starts[f]
  <2>1. p + 1 \notin Starts[f]  BY <1>2, <1>8
  <2>2. p + 2 \notin Starts[f]  BY <1>2, <1>8
  <2> QED  BY <2>1, <2>2
<1>10. Site(f, p) \in Nat \ {0}
  <2>1. Code[f] \in Seq(0 .. 255)  BY <1>1, LinkingConstants
  <2>2. Code[f][p + 1] \in 0 .. 255 /\ Code[f][p + 2] \in 0 .. 255
    BY <1>7, <2>1, ElementOfSeq
  <2>3. \A a, b \in 0 .. 255 : 256 * a + b + 1 \in Nat \ {0}  OBVIOUS
  <2> QED  BY <2>2, <2>3 DEF Site
<1>11. Site(f, p) <= Len(Pool)  BY <1>2, <1>3, CodeIsComplete
<1>12. Len(Pool) \in Nat  BY LinkingConstants, LenProperties
<1> QED  BY <1>2, <1>6, <1>7, <1>9, <1>10, <1>11, <1>12

(* What the interpreter finds at ip is what was loaded, or the call that   *)
(* was linked there.                                                       *)
LEMMA AtInstruction ==
    ASSUME TypeOK, CodeIsKept, FramesStayInStep, Running, Fn \in InStep
    PROVE  /\ Ip \in Starts[Fn]
           /\ \/ Op = Code[Fn][Ip]
              \/ Code[Fn][Ip] = CODE_invoke_sym /\ Op = CODE_invoke
<1>1. Fn \in Native /\ Len(frames) \in 1 .. Len(frames) /\ frames[Len(frames)] = Last(frames)
  BY TopFrame
<1>2. Ip \in Starts[Fn]  BY <1>1 DEF FramesStayInStep, Fn, Ip
<1>3. Ip \in 1 .. Len(Code[Fn])  BY <1>1, <1>2, StartsAreLinear
<1> QED  BY <1>2, <1>3 DEF CodeIsKept, Op

(* Its arguments are those of the compiler.                                *)
LEMMA AtCall ==
    ASSUME TypeOK, CodeIsKept, FramesStayInStep, Running, Fn \in InStep,
           Op \in {CODE_invoke_sym, CODE_invoke}
    PROVE  IsCall(Fn, Ip) /\ Read16(Ip + 1) + 1 = Site(Fn, Ip)
<1>1. IsCall(Fn, Ip)  BY AtInstruction DEF IsCall
<1>2. /\ Ip \in Nat
      /\ Ip + 1 \in 1 .. Len(Code[Fn]) /\ Ip + 2 \in 1 .. Len(Code[Fn])
      /\ Ip + 1 \notin Starts[Fn] /\ Ip + 2 \notin Starts[Fn]
  BY <1>1, SitesAreInThePool
<1>3. code[Fn][Ip + 1] = Code[Fn][Ip + 1] /\ code[Fn][Ip + 2] = Code[Fn][Ip + 2]
  BY <1>2 DEF CodeIsKept
<1>4. (Ip + 1) + 1 = Ip + 2  BY <1>2
<1> QED  BY <1>1, <1>3, <1>4 DEF Read16, Site

(* An instance is never made by such a function in the symbolic way.       *)
LEMMA NoInitSym ==
    ASSUME TypeOK, CodeIsKept, FramesStayInStep, Running, Op = CODE_init_sym
    PROVE  Fn \notin InStep
<1> SUFFICES ASSUME Fn \in InStep PROVE FALSE
  OBVIOUS
<1>1. Ip \in Starts[Fn] /\ Code[Fn][Ip] = CODE_init_sym
  BY AtInstruction DEF CODE_init_sym, CODE_invoke
<1>2. Read(CODE_init_sym) = Arguments(CODE_init_sym)  BY <1>1 DEF InStep
<1> QED
  BY <1>2 DEF Read, Arguments, WithIndex, Linked, CODE_and, CODE_or, CODE_init_sym

LEMMA PlainStays ==
    ASSUME TypeOK, CodeIsKept, FramesStayInStep, Running, Op \in Plain
    PROVE  /\ Ip + 1 + Read(Op) \in Nat \ {0}
           /\ Fn \in InStep => Ip + 1 + Read(Op) \in Starts[Fn]
<1>1. Fn \in Native /\ Ip \in Nat \ {0}  BY TopFrame
<1>2. Read(Op) \in Nat
  BY DEF Read, Arguments, Plain, CODE_and, CODE_or, CODE_init_sym
<1>3. ASSUME Fn \in InStep PROVE Ip + 1 + Read(Op) \in Starts[Fn]
  <2>1. Ip \in Starts[Fn] /\ Op = Code[Fn][Ip]
    BY <1>3, AtInstruction DEF Plain, Linked
  <2>2. Op \notin {CODE_halt, CODE_ret, CODE_ret_val}  BY DEF Plain
  <2>3. Following(Fn, Ip) <= Len(Code[Fn])  BY <1>3, <2>1, <2>2, CodeIsComplete
  <2>4. Following(Fn, Ip) \in Starts[Fn]  BY <1>1, <2>1, <2>3, StartsAreLinear
  <2>5. Read(Op) = Arguments(Op)  BY <1>3, <2>1 DEF InStep
  <2> QED  BY <2>1, <2>4, <2>5 DEF Following
<1> QED  BY <1>1, <1>2, <1>3
-----------------------------------------------------------------------------
(* What a call does with the frames and with the record of calls.          *)
LEMMA CallMoves ==
    ASSUME TypeOK, CodeIsKept, FramesStayInStep, Running,
           Op \in {CODE_invoke_sym, CODE_invoke}, NEW callee, Call(callee)
    PROVE  /\ FramesFit(frames') /\ status' \in {"idle", "running", "aborted"}
           /\ status' = "running" <=> frames' # <<>>
           /\ UNCHANGED calls \/ (callee \in Function /\ Log(callee))
<1>1. Ip + 3 \in Nat \ {0} /\ (Fn \in InStep => Ip + 3 \in Starts[Fn])
  BY AtCall, SitesAreInThePool, TopFrame
<1>2. FramesFit(SetIp(Ip + 3)) /\ SetIp(Ip + 3) # <<>>  BY <1>1, MovedFit
<1>3. status = "running"  BY DEF Running
<1>4. CASE callee \notin Function
  <2>1. frames' = <<>> /\ status' = "idle" /\ UNCHANGED calls  BY <1>4 DEF Call, Stop
  <2> QED  BY <2>1 DEF FramesFit
<1>5. CASE callee \in Native
  <2>1. /\ callee \in Function /\ Log(callee) /\ status' = status
        /\ frames' = Append(SetIp(Ip + 3), [fn |-> callee, ip |-> 1])
    BY <1>5 DEF Call, Function
  <2>2. FramesFit(frames') /\ frames' # <<>>  BY <1>2, <1>5, <2>1, StartFrame, PushedFit
  <2> QED  BY <1>3, <2>1, <2>2
<1>6. CASE callee \in Function /\ callee \notin Native
  <2>1. Log(callee) /\ status' = status /\ frames' = SetIp(Ip + 3)
    BY <1>6 DEF Call
  <2> QED  BY <1>2, <1>3, <1>6, <2>1
<1> QED  BY <1>4, <1>5, <1>6

(* The record of calls stays true as long as the constants that are        *)
(* functions stay.                                                         *)
LEMMA LogKeepsSites ==
    ASSUME TypeOK, SitesAreLinked, Running, NEW callee \in Function, Log(callee),
           Fn \in InStep => IsCall(Fn, Ip) /\ constants'[Site(Fn, Ip)] = callee,
           \A k \in 1 .. Len(Pool) : constants[k] \in Function => constants'[k] = constants[k]
    PROVE  SitesAreLinked'
<1> DEFINE site == <<Fn, Ip>>
           before(s) == IF s \in DOMAIN calls THEN calls[s] ELSE {}
<1>1. site \in Native \X Nat  BY TopFrame
<1> HIDE DEF site
<1>2. /\ DOMAIN calls' = DOMAIN calls \cup {site}
      /\ \A s \in DOMAIN calls' :
            calls'[s] = before(s) \cup (IF s = site THEN {callee} ELSE {})
  BY DEF Log, site
<1>3. DOMAIN calls' \subseteq Native \X Nat  BY <1>1, <1>2 DEF SitesAreLinked
<1>4. ASSUME NEW s \in DOMAIN calls', s[1] \in InStep
      PROVE  IsCall(s[1], s[2])
  <2>1. CASE s = site  BY <1>4, <2>1 DEF site
  <2>2. CASE s \in DOMAIN calls  BY <1>4, <2>2 DEF SitesAreLinked
  <2> QED  BY <1>2, <2>1, <2>2
<1>5. ASSUME NEW s \in DOMAIN calls', s[1] \in InStep, NEW g \in calls'[s]
      PROVE  g \in Function /\ constants'[Site(s[1], s[2])] = g
  <2>1. CASE g \in before(s)
    <3>1. s \in DOMAIN calls /\ g \in calls[s]  BY <2>1
    <3>2. g \in Function /\ constants[Site(s[1], s[2])] = g
      BY <1>5, <3>1 DEF SitesAreLinked
    <3>3. Site(s[1], s[2]) \in 1 .. Len(Pool)  BY <1>4, <1>5, SitesAreInThePool
    <3> QED  BY <3>2, <3>3
  <2>2. CASE s = site /\ g = callee  BY <1>5, <2>2 DEF site
  <2> HIDE DEF before
  <2> QED  BY <1>2, <2>1, <2>2
<1> QED  BY <1>3, <1>4, <1>5 DEF SitesAreLinked, IsCall

LEMMA CallsKeepSites ==
    ASSUME SitesAreLinked, UNCHANGED calls,
           \A k \in 1 .. Len(Pool) : constants[k] \in Function => constants'[k] = constants[k]
    PROVE  SitesAreLinked'
<1>1. calls' = calls  OBVIOUS
<1>2. ASSUME NEW s \in DOMAIN calls, s[1] \in InStep, NEW g \in calls[s]
      PROVE  g \in Function /\ constants'[Site(s[1], s[2])] = g
  <2>1. IsCall(s[1], s[2]) /\ g \in Function /\ constants[Site(s[1], s[2])] = g
    BY <1>2 DEF SitesAreLinked
  <2>2. Site(s[1], s[2]) \in 1 .. Len(Pool)  BY <1>2, <2>1, SitesAreInThePool
  <2> QED  BY <2>1, <2>2
<1> QED  BY <1>1, <1>2 DEF SitesAreLinked, IsCall

(* A constant is only written while it is a symbol, with what that symbol  *)
(* stands for.                                                             *)
LEMMA FoundConstants ==
    ASSUME TypeOK, ConstantsAreFound, NEW k, NEW found,
           constants[k] \in Symbol,
           found \in Function \cup Class \cup {Nil},
           found \in Function => <<constants[k], found>> \in bindings,
           constants' = [constants EXCEPT ![k] = found], UNCHANGED bindings
    PROVE  /\ constants' \in [1 .. Len(Pool) -> Symbol \cup Function \cup Class \cup {Nil}]
           /\ ConstantsAreFound'
           /\ \A j \in 1 .. Len(Pool) : constants[j] \in Function => constants'[j] = constants[j]
           /\ k \in 1 .. Len(Pool) => constants'[k] = found
<1>1. constants \in [1 .. Len(Pool) -> Symbol \cup Function \cup Class \cup {Nil}]
  BY DEF TypeOK
<1>2. /\ Function \cap Symbol = {} /\ Class \cap Symbol = {} /\ Function \cap Class = {}
      /\ Nil \notin Symbol \cup Function \cup Class
  BY LinkingConstants
<1> DEFINE D == 1 .. Len(Pool)
<1> HIDE DEF D
<1>3. constants' \in [D -> Symbol \cup Function \cup Class \cup {Nil}]
  BY <1>1 DEF D
<1>4. \A j \in D : constants'[j] = IF j = k THEN found ELSE constants[j]
  BY <1>1 DEF D
<1>5. \A j \in D : constants[j] \in Function => constants'[j] = constants[j]
  BY <1>2, <1>4
<1>6. ASSUME NEW j \in D
      PROVE  /\ constants'[j] \in Symbol => constants'[j] = Pool[j]
             /\ constants'[j] \in Function => <<Pool[j], constants'[j]>> \in bindings
  <2>1. CASE j # k  BY <1>4, <2>1 DEF ConstantsAreFound, D
  <2>2. CASE j = k
    <3>1. constants'[j] = found /\ found \notin Symbol  BY <1>2, <1>4, <2>2
    <3>2. constants[j] = Pool[j]  BY <2>2 DEF ConstantsAreFound, D
    <3> QED  BY <2>2, <3>1, <3>2
  <2> QED  BY <2>1, <2>2
<1>7. ConstantsAreFound'  BY <1>6 DEF ConstantsAreFound, D
<1> QED  BY <1>3, <1>4, <1>5, <1>7 DEF D

(* A step that leaves code, constants and tables alone.                    *)
StatusFits == status \in {"idle", "running", "aborted"} /\ (status = "running" <=> frames # <<>>)

LEMMA FramesOnly ==
    ASSUME LinkInv, UNCHANGED <<code, constants, tables>>,
           FramesFit(frames'), StatusFits', SitesAreLinked'
    PROVE  LinkInv'
<1>1. UNCHANGED <<code, constants, dispatch, classes, bindings>>  BY DEF tables
<1>2. TypeOK'  BY <1>1 DEF LinkInv, TypeOK, FramesFit, Frame, StatusFits
<1>3. ConstantsAreFound' /\ DispatchIsBound' /\ CodeIsKept'
  BY <1>1 DEF LinkInv, ConstantsAreFound, DispatchIsBound, CodeIsKept
<1>4. FramesStayInStep'  BY DEF FramesFit, InOrder, FramesStayInStep
<1> QED  BY <1>2, <1>3, <1>4 DEF LinkInv

LEMMA NoFrames == FramesFit(<<>>)
BY DEF FramesFit

LEMMA SameConstants ==
    ASSUME UNCHANGED constants
    PROVE  \A k \in 1 .. Len(Pool) : constants[k] \in Function => constants'[k] = constants[k]
OBVIOUS

LEMMA AbortKeeps ==
    ASSUME LinkInv, Abort
    PROVE  LinkInv'
<1>1. SitesAreLinked'  BY CallsKeepSites, SameConstants DEF Abort, LinkInv
<1> QED  BY <1>1, NoFrames, FramesOnly DEF Abort, StatusFits

LEMMA RegisterKeeps ==
    ASSUME LinkInv, NEW f \in Function, Register(f)
    PROVE  LinkInv'
<1>1. /\ dispatch' = [dispatch EXCEPT ![Signature[f]] = f]
      /\ bindings' = bindings \cup {<<Signature[f], f>>}
      /\ UNCHANGED <<code, constants, classes, frames, status, calls>>
  BY DEF Register
<1>2. Signature[f] \in Symbol  BY LinkingConstants
<1>3. TypeOK'  BY <1>1, <1>2 DEF LinkInv, TypeOK
<1>4. DispatchIsBound'
  <2>1. ASSUME NEW s \in Symbol, dispatch'[s] \in Function
        PROVE  <<s, dispatch'[s]>> \in bindings'
    <3>1. dispatch \in [Symbol -> Function \cup {Nil}]  BY DEF LinkInv, TypeOK
    <3>2. CASE s = Signature[f]  BY <1>1, <3>1, <3>2
    <3>3. CASE s # Signature[f]
      BY <1>1, <2>1, <3>1, <3>3 DEF LinkInv, DispatchIsBound
    <3> QED  BY <3>2, <3>3
  <2> QED  BY <2>1 DEF DispatchIsBound
<1>5. ConstantsAreFound'  BY <1>1 DEF LinkInv, ConstantsAreFound
<1>6. CodeIsKept' /\ SitesAreLinked' /\ FramesStayInStep'
  BY <1>1 DEF LinkInv, CodeIsKept, SitesAreLinked, FramesStayInStep
<1> QED  BY <1>3, <1>4, <1>5, <1>6 DEF LinkInv

LEMMA RegisterClassKeeps ==
    ASSUME LinkInv, NEW s \in Symbol, NEW c \in Class, RegisterClass(s, c)
    PROVE  LinkInv'
<1>1. /\ classes' = [classes EXCEPT ![s] = c]
      /\ UNCHANGED <<code, constants, dispatch, bindings, frames, status, calls>>
  BY DEF RegisterClass
<1>2. TypeOK'  BY <1>1 DEF LinkInv, TypeOK
<1> QED
  BY <1>1, <1>2
    DEF LinkInv, ConstantsAreFound, DispatchIsBound, CodeIsKept, SitesAreLinked, FramesStayInStep

LEMMA StartKeeps ==
    ASSUME LinkInv, NEW f \in Native, Start(f)
    PROVE  LinkInv'
<1>1. /\ status' = "running" /\ frames' = Append(<<>>, [fn |-> f, ip |-> 1])
      /\ UNCHANGED <<code, constants, tables, calls>>
  BY DEF Start
<1>2. FramesFit(frames') /\ StatusFits'
  BY <1>1, NoFrames, StartFrame, PushedFit DEF StatusFits
<1>3. SitesAreLinked'  BY <1>1, CallsKeepSites, SameConstants DEF LinkInv
<1> QED  BY <1>1, <1>2, <1>3, FramesOnly

LEMMA InvokeKeeps ==
    ASSUME LinkInv, Invoke
    PROVE  LinkInv'
<1> DEFINE k == Read16(Ip + 1) + 1
           callee == constants[k]
<1>1. /\ Running /\ Op = CODE_invoke /\ Call(callee)
      /\ UNCHANGED <<code, constants, tables>>
  BY DEF Invoke, Executing, Constant
<1>2. TypeOK /\ CodeIsKept /\ FramesStayInStep /\ SitesAreLinked  BY DEF LinkInv
<1>3. Fn \in InStep => IsCall(Fn, Ip) /\ constants'[Site(Fn, Ip)] = callee
  BY <1>1, <1>2, AtCall
<1> HIDE DEF callee
<1>4. /\ FramesFit(frames') /\ StatusFits'
      /\ UNCHANGED calls \/ (callee \in Function /\ Log(callee))
  BY <1>1, <1>2, CallMoves DEF StatusFits
<1>5. SitesAreLinked'
  BY <1>1, <1>2, <1>3, <1>4, CallsKeepSites, LogKeepsSites, SameConstants
<1> QED  BY <1>1, <1>4, <1>5, FramesOnly

LEMMA ReturnKeeps ==
    ASSUME LinkInv, Return
    PROVE  LinkInv'
<1>1. /\ Running /\ UNCHANGED <<code, constants, tables, calls>>
      /\ IF Len(frames) = 1 THEN Stop ELSE frames' = Front(frames) /\ UNCHANGED status
  BY DEF Return, Executing
<1>2. FramesFit(frames) /\ frames # <<>> /\ status = "running"
  BY <1>1, FramesFitNow DEF LinkInv, TypeOK, Running
<1>3. FramesFit(frames') /\ StatusFits'
  BY <1>1, <1>2, NoFrames, PoppedFit DEF Stop, StatusFits
<1>4. SitesAreLinked'  BY <1>1, CallsKeepSites, SameConstants DEF LinkInv
<1> QED  BY <1>1, <1>3, <1>4, FramesOnly

LEMMA HaltKeeps ==
    ASSUME LinkInv, Halt
    PROVE  LinkInv'
<1>1. Stop /\ UNCHANGED <<code, constants, tables, calls>>  BY DEF Halt
<1>2. SitesAreLinked'  BY <1>1, CallsKeepSites, SameConstants DEF LinkInv
<1> QED  BY <1>1, <1>2, NoFrames, FramesOnly DEF Stop, StatusFits

LEMMA InitDirectKeeps ==
    ASSUME LinkInv, InitDirect
    PROVE  LinkInv'
<1>1. /\ Running /\ Op = CODE_init /\ UNCHANGED <<code, constants, tables, calls>>
      /\ Stop \/ (frames' = SetIp(Ip + 3) /\ UNCHANGED status)
  BY DEF InitDirect, Executing
<1>2. TypeOK /\ CodeIsKept /\ FramesStayInStep /\ Fn \in Native /\ Ip \in Nat \ {0}
  BY <1>1, TopFrame DEF LinkInv
<1>3. ASSUME Fn \in InStep PROVE Ip + 3 \in Starts[Fn]
  <2>1. Ip \in Starts[Fn] /\ Code[Fn][Ip] = CODE_init
    BY <1>1, <1>2, <1>3, AtInstruction DEF CODE_init, CODE_invoke
  <2>2. Following(Fn, Ip) = Ip + 3
    BY <1>2, <2>1 DEF Following, Arguments, WithIndex, Linked
  <2>3. Following(Fn, Ip) <= Len(Code[Fn])
    BY <1>3, <2>1, CodeIsComplete DEF CODE_init, CODE_halt, CODE_ret, CODE_ret_val
  <2> QED  BY <1>2, <2>1, <2>2, <2>3, StartsAreLinear
<1>4. FramesFit(SetIp(Ip + 3)) /\ SetIp(Ip + 3) # <<>>
  BY <1>1, <1>2, <1>3, MovedFit
<1>5. FramesFit(frames') /\ StatusFits'
  BY <1>1, <1>4, NoFrames DEF Stop, StatusFits, Running
<1>6. SitesAreLinked'  BY <1>1, CallsKeepSites, SameConstants DEF LinkInv
<1> QED  BY <1>1, <1>5, <1>6, FramesOnly

LEMMA ExecuteKeeps ==
    ASSUME LinkInv, Execute
    PROVE  LinkInv'
<1>1. /\ Running /\ Op \in Plain /\ UNCHANGED <<code, constants, tables, calls, status>>
      /\ frames' = SetIp(Ip + 1 + Read(Op))
  BY DEF Execute
<1>2. FramesFit(frames') /\ frames' # <<>>
  BY <1>1, PlainStays, MovedFit DEF LinkInv
<1>3. StatusFits'  BY <1>1, <1>2 DEF StatusFits, Running
<1>4. SitesAreLinked'  BY <1>1, CallsKeepSites, SameConstants DEF LinkInv
<1> QED  BY <1>1, <1>2, <1>3, <1>4, FramesOnly
-----------------------------------------------------------------------------
(* The two instructions that write over code and constants.                *)
LEMMA PatchedCode ==
    ASSUME TypeOK, NEW g, NEW q, NEW b \in 0 .. 255, code' = [code EXCEPT ![g][q] = b]
    PROVE  /\ DOMAIN code' = Native
           /\ \A f \in Native : code'[f] \in [1 .. Len(Code[f]) -> 0 .. 255]
           /\ \A f \in Native : \A p \in 1 .. Len(Code[f]) :
                 code'[f][p] = IF f = g /\ p = q THEN b ELSE code[f][p]
<1>1. DOMAIN code = Native /\ \A f \in Native : code[f] \in [1 .. Len(Code[f]) -> 0 .. 255]
  BY DEF TypeOK
<1> DEFINE patched == [code[g] EXCEPT ![q] = b]
<1>2. g \in Native => /\ patched \in [1 .. Len(Code[g]) -> 0 .. 255]
                      /\ \A p \in 1 .. Len(Code[g]) : patched[p] = IF p = q THEN b ELSE code[g][p]
  BY <1>1
<1> HIDE DEF patched
<1>3. code' = [code EXCEPT ![g] = patched]  BY DEF patched
<1>4. DOMAIN code' = Native
      /\ \A f \in Native : code'[f] = IF f = g THEN patched ELSE code[f]
  BY <1>1, <1>3
<1> QED  BY <1>1, <1>2, <1>4

LEMMA SymbolFound ==
    ASSUME LinkInv, NEW s \in Symbol
    PROVE  /\ dispatch[s] \in Function \cup Class \cup {Nil}
           /\ dispatch[s] \in Function => <<s, dispatch[s]>> \in bindings
           /\ classes[s] \in Function \cup Class \cup {Nil}
           /\ classes[s] \notin Function
<1>1. dispatch[s] \in Function \cup {Nil} /\ classes[s] \in Class \cup {Nil}
  BY DEF LinkInv, TypeOK
<1> QED  BY <1>1, LinkingConstants DEF LinkInv, DispatchIsBound

LEMMA InvokeSymKeeps ==
    ASSUME LinkInv, InvokeSym
    PROVE  LinkInv'
<1> DEFINE k == Read16(Ip + 1) + 1
           sym == constants[k]
           callee == dispatch[sym]
<1>1. CASE sym \notin Symbol  BY <1>1, AbortKeeps DEF InvokeSym, Constant
<1>2. CASE sym \in Symbol
  <2>1. /\ Running /\ Op = CODE_invoke_sym /\ Call(callee) /\ UNCHANGED tables
        /\ code' = [code EXCEPT ![Fn][(Ip + 3) - 3] = CODE_invoke]
        /\ constants' = [constants EXCEPT ![k] = callee]
    BY <1>2 DEF InvokeSym, Executing, Constant
  <2>2. TypeOK /\ CodeIsKept /\ FramesStayInStep /\ SitesAreLinked /\ ConstantsAreFound
    BY DEF LinkInv
  <2>3. Fn \in InStep => IsCall(Fn, Ip) /\ k = Site(Fn, Ip)  BY <2>1, <2>2, AtCall
  <2>4. Fn \in Native /\ Ip \in Nat \ {0}  BY <2>1, <2>2, TopFrame
  <2>5. (Ip + 3) - 3 = Ip  BY <2>4
  <2>6. /\ callee \in Function \cup Class \cup {Nil}
        /\ callee \in Function => <<sym, callee>> \in bindings
    BY <1>2, SymbolFound
  <2> HIDE DEF callee, k
  <2>7. UNCHANGED <<dispatch, classes, bindings>>  BY <2>1 DEF tables
  <2>8. /\ constants' \in [1 .. Len(Pool) -> Symbol \cup Function \cup Class \cup {Nil}]
        /\ ConstantsAreFound'
        /\ \A j \in 1 .. Len(Pool) : constants[j] \in Function => constants'[j] = constants[j]
        /\ k \in 1 .. Len(Pool) => constants'[k] = callee
    BY <1>2, <2>1, <2>2, <2>6, <2>7, FoundConstants
  <2>9. Fn \in InStep => IsCall(Fn, Ip) /\ constants'[Site(Fn, Ip)] = callee
    BY <2>3, <2>8, SitesAreInThePool
  <2>10. /\ FramesFit(frames') /\ StatusFits'
         /\ UNCHANGED calls \/ (callee \in Function /\ Log(callee))
    BY <2>1, <2>2, CallMoves DEF StatusFits
  <2>11. SitesAreLinked'
    BY <2>1, <2>2, <2>8, <2>9, <2>10, CallsKeepSites, LogKeepsSites
  <2>12. /\ DOMAIN code' = Native
         /\ \A f \in Native : code'[f] \in [1 .. Len(Code[f]) -> 0 .. 255]
         /\ \A f \in Native : \A p \in 1 .. Len(Code[f]) :
               code'[f][p] = IF f = Fn /\ p = Ip THEN CODE_invoke ELSE code[f][p]
    <3>1. CODE_invoke \in 0 .. 255  BY DEF CODE_invoke
    <3>2. code' = [code EXCEPT ![Fn][Ip] = CODE_invoke]  BY <2>1, <2>5
    <3> QED  BY <2>2, <3>1, <3>2, PatchedCode
  <2>13. CodeIsKept'
    <3>1. ASSUME NEW f \in InStep, NEW p \in 1 .. Len(Code[f])
          PROVE  \/ code'[f][p] = Code[f][p]
                 \/ /\ p \in Starts[f]
                    /\ Code[f][p] = CODE_invoke_sym /\ code'[f][p] = CODE_invoke
      <4>1. code'[f][p] = IF f = Fn /\ p = Ip THEN CODE_invoke ELSE code[f][p]
        BY <2>12, InStepIsNative
      <4>2. CASE f = Fn /\ p = Ip
        <5>1. Ip \in Starts[Fn] /\ Code[Fn][Ip] = CODE_invoke_sym
          BY <2>1, <2>2, <4>2, AtInstruction DEF CODE_invoke_sym, CODE_invoke
        <5> QED  BY <4>1, <4>2, <5>1
      <4>3. CASE ~ (f = Fn /\ p = Ip)  BY <2>2, <4>1, <4>3 DEF CodeIsKept
      <4> QED  BY <4>2, <4>3
    <3> QED  BY <3>1 DEF CodeIsKept
  <2>14. TypeOK'
    BY <2>2, <2>7, <2>8, <2>10, <2>12 DEF TypeOK, FramesFit, Frame, StatusFits
  <2>15. DispatchIsBound'  BY <2>7 DEF LinkInv, DispatchIsBound
  <2>16. FramesStayInStep'  BY <2>10 DEF FramesFit, InOrder, FramesStayInStep
  <2> QED  BY <2>8, <2>11, <2>13, <2>14, <2>15, <2>16 DEF LinkInv
<1> QED  BY <1>1, <1>2

LEMMA InitSymKeeps ==
    ASSUME LinkInv, InitSym
    PROVE  LinkInv'
<1> DEFINE k == code[Fn][Ip + 1] + 1
           sym == constants[k]
           cls == classes[sym]
           p == Ip + 1 + Read(CODE_init_sym)
<1>1. CASE sym \notin Symbol  BY <1>1, AbortKeeps DEF InitSym, Constant
<1>2. CASE sym \in Symbol
  <2>1. /\ Running /\ Op = CODE_init_sym /\ UNCHANGED <<tables, calls>>
        /\ code' = IF p - 3 >= 1 THEN [code EXCEPT ![Fn][p - 3] = CODE_init] ELSE code
        /\ constants' = [constants EXCEPT ![k] = cls]
        /\ \/ frames' = <<>> /\ status' = "aborted"
           \/ frames' = SetIp(p) /\ UNCHANGED status
    BY <1>2 DEF InitSym, Executing, Constant
  <2>2. /\ TypeOK /\ CodeIsKept /\ FramesStayInStep /\ SitesAreLinked /\ ConstantsAreFound
        /\ Fn \in Native /\ Ip \in Nat \ {0}
    BY <2>1, TopFrame DEF LinkInv
  <2>3. Fn \notin InStep  BY <2>1, <2>2, NoInitSym
  <2>4. cls \in Function \cup Class \cup {Nil} /\ cls \notin Function
    BY <1>2, SymbolFound
  <2>5. p \in Nat \ {0}  BY <2>2 DEF Read, CODE_init_sym, CODE_and, CODE_or
  <2> HIDE DEF k, cls, p
  <2>6. UNCHANGED <<dispatch, classes, bindings>>  BY <2>1 DEF tables
  <2>7. /\ constants' \in [1 .. Len(Pool) -> Symbol \cup Function \cup Class \cup {Nil}]
        /\ ConstantsAreFound'
        /\ \A j \in 1 .. Len(Pool) : constants[j] \in Function => constants'[j] = constants[j]
    BY <1>2, <2>1, <2>2, <2>4, <2>6, FoundConstants
  <2>8. SitesAreLinked'  BY <2>1, <2>2, <2>7, CallsKeepSites
  <2>9. FramesFit(SetIp(p)) /\ SetIp(p) # <<>>  BY <2>1, <2>2, <2>3, <2>5, MovedFit
  <2>10. FramesFit(frames') /\ StatusFits'
    BY <2>1, <2>9, NoFrames DEF StatusFits, Running
  <2>11. /\ DOMAIN code' = Native
         /\ \A f \in Native : code'[f] \in [1 .. Len(Code[f]) -> 0 .. 255]
         /\ \A f \in Native \ {Fn} : \A q \in 1 .. Len(Code[f]) : code'[f][q] = code[f][q]
    <3>1. CODE_init \in 0 .. 255  BY DEF CODE_init
    <3>2. CASE code' = [code EXCEPT ![Fn][p - 3] = CODE_init]
      BY <2>2, <3>1, <3>2, PatchedCode
    <3>3. CASE code' = code  BY <2>2, <3>3 DEF TypeOK
    <3> QED  BY <2>1, <3>2, <3>3
  <2>12. CodeIsKept'
    BY <2>2, <2>3, <2>11, InStepIsNative DEF CodeIsKept
  <2>13. TypeOK'
    BY <2>2, <2>6, <2>7, <2>10, <2>11 DEF TypeOK, FramesFit, Frame, StatusFits
  <2>14. DispatchIsBound'  BY <2>6 DEF LinkInv, DispatchIsBound
  <2>15. FramesStayInStep'  BY <2>10 DEF FramesFit, InOrder, FramesStayInStep
  <2> QED  BY <2>7, <2>8, <2>12, <2>13, <2>14, <2>15 DEF LinkInv
<1> QED  BY <1>1, <1>2
-----------------------------------------------------------------------------
LEMMA LinkInvInit == Init => LinkInv
<1> SUFFICES ASSUME Init PROVE LinkInv
  OBVIOUS
<1>1. /\ code = Code /\ constants = Pool /\ frames = <<>> /\ status = "idle" /\ bindings = {}
      /\ dispatch = [s \in Symbol |-> Nil] /\ classes = [s \in Symbol |-> Nil]
      /\ calls = [s \in {} |-> {}]
  BY DEF Init
<1>2. \A f \in Native : Code[f] \in [1 .. Len(Code[f]) -> 0 .. 255]
  <2>1. \A f \in Native : Code[f] \in Seq(0 .. 255)  BY LinkingConstants
  <2> QED  BY <2>1, LenProperties
<1>3. DOMAIN Code = Native  BY LinkingConstants
<1>4. Pool \in [1 .. Len(Pool) -> Symbol] /\ Function \cap Symbol = {} /\ Nil \notin Function
  BY LinkingConstants, LenProperties
<1>5. TypeOK  BY <1>1, <1>2, <1>3, <1>4 DEF TypeOK
<1>6. ConstantsAreFound /\ DispatchIsBound
  BY <1>1, <1>4 DEF ConstantsAreFound, DispatchIsBound
<1>7. CodeIsKept /\ SitesAreLinked /\ FramesStayInStep
  BY <1>1 DEF CodeIsKept, SitesAreLinked, FramesStayInStep
<1> QED  BY <1>5, <1>6, <1>7 DEF LinkInv

LEMMA LinkInvStep == LinkInv /\ [Next]_vars => LinkInv'
<1> SUFFICES ASSUME LinkInv, [Next]_vars PROVE LinkInv'
  OBVIOUS
<1>1. CASE \E f \in Function : Register(f)  BY <1>1, RegisterKeeps
<1>2. CASE \E s \in Symbol, c \in Class : RegisterClass(s, c)
  BY <1>2, RegisterClassKeeps
<1>3. CASE \E f \in Native : Start(f)  BY <1>3, StartKeeps
<1>4. CASE InvokeSym  BY <1>4, InvokeSymKeeps
<1>5. CASE Invoke  BY <1>5, InvokeKeeps
<1>6. CASE Return  BY <1>6, ReturnKeeps
<1>7. CASE Halt  BY <1>7, HaltKeeps
<1>8. CASE InitSym  BY <1>8, InitSymKeeps
<1>9. CASE InitDirect  BY <1>9, InitDirectKeeps
<1>10. CASE Execute  BY <1>10, ExecuteKeeps
<1>11. CASE UNCHANGED vars
  BY <1>11
    DEF vars, tables, LinkInv, TypeOK, ConstantsAreFound, DispatchIsBound, CodeIsKept,
        SitesAreLinked, FramesStayInStep
<1> QED
  BY <1>1, <1>2, <1>3, <1>4, <1>5, <1>6, <1>7, <1>8, <1>9, <1>10, <1>11 DEF Next

(* Linking keeps this at every step: registering, calling, linking a call  *)
(* or a class, returning.                                                  *)
THEOREM LinkInvariance == Spec => []LinkInv
BY LinkInvInit, LinkInvStep, PTL DEF Spec

(* A call reaches a function registered under the name the compiler put at *)
(* the site, however many sites share the constant it is written into.     *)
THEOREM CallsReachTheirNames == Spec => []CalleesAreTheOnesNamed
<1>1. LinkInv => CalleesAreTheOnesNamed
  <2> SUFFICES ASSUME LinkInv, NEW s \in DOMAIN calls, s[1] \in InStep, NEW g \in calls[s]
               PROVE  <<Named(s[1], s[2]), g>> \in bindings
    BY DEF CalleesAreTheOnesNamed
  <2>1. IsCall(s[1], s[2]) /\ g \in Function /\ constants[Site(s[1], s[2])] = g
    BY DEF LinkInv, SitesAreLinked
  <2>2. Site(s[1], s[2]) \in 1 .. Len(Pool)  BY <2>1, SitesAreInThePool
  <2> QED  BY <2>1, <2>2 DEF LinkInv, ConstantsAreFound, Named
<1> QED  BY <1>1, LinkInvariance, PTL

(* A site that has called a function calls that one ever after, whatever   *)
(* is registered under the same name later.                                *)
THEOREM SitesAreFaithful == Spec => []SitesKeepTheirCallee
<1>1. LinkInv => SitesKeepTheirCallee
  BY DEF LinkInv, SitesAreLinked, SitesKeepTheirCallee
<1> QED  BY <1>1, LinkInvariance, PTL

(* No frame of a function without and, or, init_sym stands on an argument  *)
(* byte, also after its calls were rewritten under it.                     *)
THEOREM NoFrameLosesStep == Spec => []FramesStayInStep
<1>1. LinkInv => FramesStayInStep  BY DEF LinkInv
<1> QED  BY <1>1, LinkInvariance, PTL
=============================================================================
