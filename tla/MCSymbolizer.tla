----------------------------- MODULE MCSymbolizer -----------------------------
(***************************************************************************)
(* An executable, the vdso and a library: a static function with a line,   *)
(* exported ones without, and addresses in no function and in no object.   *)
(***************************************************************************)
EXTENDS Symbolizer, TLC

Function(name, start, end, exported) ==
  [name |-> name, start |-> start, end |-> end, exported |-> exported]
Object(name, start, end, file, functions, lines) ==
  [name |-> name, start |-> start, end |-> end, file |-> file, functions |-> functions,
   lines |-> lines]

ThreeObjects ==
  <<Object("prog", 10, 20, TRUE, {Function("cb", 10, 14, FALSE)},
           {[pc |-> 12, file |-> "cb.c", lineno |-> 3]}),
    Object("vdso", 30, 40, FALSE, {Function("gettime", 30, 34, TRUE)}, {}),
    Object("libc", 50, 60, TRUE, {Function("qsort", 50, 54, TRUE)},
           {[pc |-> 56, file |-> "start.S", lineno |-> 7]})>>

CONSTANTS t1, t2, sig
Flows == {t1, t2, sig}
OnFirst == sig :> t1
Calls == t1 :> 2 @@ t2 :> 1 @@ sig :> 1

SomePcs == {12, 31, 52, 56, 99}
===============================================================================
