------------------------------ MODULE MCLoader ------------------------------
(***************************************************************************)
(* Loader with small files.  "lib" has an entry of each kind; "more" has a *)
(* class and a function of its own and one signature of "lib"; "bare" is   *)
(* empty.  The others stop in the middle of a section, have a foreign tag  *)
(* or a wrong header, or follow the format but have more classes than the  *)
(* index of their loop can count.                                          *)
(***************************************************************************)
EXTENDS Loader

U16(n) == <<n \div 256, n % 256>>
Str(c) == U16(1) \o <<c>>
Name(c) == <<c>>
Text(c) == <<OMF_STRING>> \o Str(c)
Number == <<OMF_NUM, 0, 0, 0, 0, 0, 0, 0, 0>>
Variable(c) == <<OMF_VARIABLE>> \o Text(c)
ClassOf(c) == <<OMF_CLASS>> \o Text(c) \o U16(1)
Func(c) == <<OMF_FUNCTION>> \o Text(c) \o <<1, 0, 2>> \o U16(2) \o <<29, 29>>

Section4(constants, globals, cs, fs) ==
    U16(Len(constants)) \o FlattenSeq(constants) \o U16(Len(globals)) \o FlattenSeq(globals)
        \o U16(Len(cs)) \o FlattenSeq(cs) \o U16(Len(fs)) \o FlattenSeq(fs)
Header == Signature \o U16(1)

Lib == Header \o Section4(<<Text(7), Number>>, <<Variable(8)>>, <<ClassOf(9)>>,
                          <<Func(10), Func(11)>>)
More == Header \o Section4(<<>>, <<>>, <<ClassOf(12)>>, <<Func(11), Func(13)>>)
Bare == Header \o Section4(<<>>, <<>>, <<>>, <<>>)

(* The same files as objfile.h documents them: a version of one byte, a    *)
(* constant index in a variable, a stack effect of two bytes, a checksum.  *)
DocVariable(c) == Variable(c) \o U16(0)
DocFunc(c) == <<OMF_FUNCTION>> \o Text(c) \o <<1, 0>> \o U16(2) \o U16(2) \o <<29, 29>>
Documented == Signature \o <<1>>
                \o Section4(<<Text(7)>>, <<DocVariable(8)>>, <<ClassOf(9)>>, <<DocFunc(10)>>)
                \o <<0, 0, 0, 0>>

(* 256 classes, as many as a count of two bytes can well express.          *)
ManyClasses ==
    LET size == Len(ClassOf(9))
    IN  Header \o U16(0) \o U16(0)
            \o U16(256) \o [k \in 1 .. 256 * size |-> ClassOf(9)[1 + ((k - 1) % size)]]
            \o U16(0)

MCFiles == {"lib", "more", "bare", "cut constants", "cut classes", "cut functions",
            "tag", "old", "many classes"}
MCGood == {"lib", "more", "bare"}
MCBytes == [f \in MCFiles \cup {"documented"} |->
    CASE f = "lib" -> Lib
      [] f = "more" -> More
      [] f = "bare" -> Bare
      [] f = "cut constants" -> SubSeq(Lib, 1, 15)
      [] f = "cut classes" -> SubSeq(Lib, 1, 34)
      [] f = "cut functions" -> SubSeq(Lib, 1, Len(Lib) - 1)
      [] f = "tag" -> Header \o U16(1) \o <<OMF_CLASS, 0, 1>>
      [] f = "old" -> Signature \o U16(2)
      [] f = "documented" -> Documented
      [] f = "many classes" -> ManyClasses]
(* Their layouts.                                                          *)
LibLayout == <<<<8, 12, 21>>, <<23, 28>>, <<30, 37>>, <<39, 51, 63>>>>
MCLayout == [f \in MCFiles \cup {"documented"} |->
    CASE f = "lib" -> LibLayout
      [] f = "more" -> <<<<8>>, <<10>>, <<12, 19>>, <<21, 33, 45>>>>
      [] f = "bare" -> <<<<8>>, <<10>>, <<12>>, <<14>>>>
      [] f = "cut constants" -> <<<<8, 12>>>>
      [] f = "cut classes" -> <<LibLayout[1], LibLayout[2], <<30>>>>
      [] f = "cut functions" -> <<LibLayout[1], LibLayout[2], LibLayout[3], <<39, 51>>>>
      [] f = "tag" -> <<<<8>>>>
      [] f \in {"old", "documented"} -> <<>>
      [] f = "many classes" -> <<<<8>>, <<10>>, [k \in 1 .. 257 |-> 7 * k + 5], <<1806>>>>]
MCDeclares == [f \in MCGood \cup {"many classes"} |->
    CASE f = "lib"  -> [classes |-> {Name(9)}, functions |-> {Name(10), Name(11)}]
      [] f = "more" -> [classes |-> {Name(12)}, functions |-> {Name(11), Name(13)}]
      [] f = "bare" -> [classes |-> {}, functions |-> {}]
      [] f = "many classes" -> [classes |-> {Name(9)}, functions |-> {}]]
(* The good files of the safety run meet the hypothesis of the proofs.      *)
ASSUME GoodFilesAreWhole == Good = MCGood => GoodIsWhole

DocDeclares == [f \in {"documented", "many classes"} |->
    [classes |-> {Name(9)}, functions |-> IF f = "documented" THEN {Name(10)} ELSE {}]]
=============================================================================
