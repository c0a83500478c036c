-------------------------------- MODULE MCImage --------------------------------
(***************************************************************************)
(* Files for Image: Go programs at a fixed address with either name of     *)
(* asmcgocall or without symbols, a position independent one, shared       *)
(* libraries of several layouts, and an executable mapping of data.        *)
(***************************************************************************)
EXTENDS Image, TLC

Sym(name, value, size) == [name |-> name, value |-> value, size |-> size]
Seg(off, vaddr, len, r, x) == [off |-> off, vaddr |-> vaddr, len |-> len, r |-> r, x |-> x]

\* Segments of a file: header and code, then data, or all in one.
TwoSegs(base) == <<Seg(0, base, 2, TRUE, FALSE), Seg(2, base + 2, 4, TRUE, TRUE)>>
ThreeSegs == Append(TwoSegs(0), Seg(6, 6, 5, TRUE, FALSE))
OneSeg == <<Seg(0, 0, 4, TRUE, TRUE)>>
\* Nothing may read the header of this one.
HiddenHeader == <<Seg(0, 0, 2, FALSE, FALSE), Seg(2, 2, 2, TRUE, TRUE)>>

\* Dynamic sections of a file of ThreeSegs: functions are bound when they are
\* first called, or all before the program starts.
Rel(type, offset) == [type |-> type, offset |-> offset]
Lazy ==
  [vaddr |-> 6, memsz |-> 2, pltgot |-> {6}, pltrelsz |-> 4, relent |-> 2, rel |-> {1},
   relcount |-> 1, relocations |-> <<Rel("RELATIVE", 8), Rel("GLOB_DAT", 8)>>]
Relro ==
  [Lazy EXCEPT !.pltgot = {}, !.pltrelsz = 0, !.rel = {2},
     !.relocations = <<Rel("RELATIVE", 10), Rel("64", 6), Rel("GLOB_DAT", 9), Rel("GLOB_DAT", 8)>>]
NoPltRelro == [Relro EXCEPT !.pltgot = {5}]

File(type, segs) ==
  [type |-> type, symtab |-> {}, debug |-> {}, dynsym |-> {}, plt |-> 0, relocations |-> 0,
   dynamic |-> {}, relocated |-> TRUE,
   eh_frame |-> TRUE, major |-> 8, minor |-> 1, inode |-> 1, segs |-> segs]

At(file, major, minor, inode) ==
  [file EXCEPT !.major = major, !.minor = minor, !.inode = inode]

GoSymbols(base) ==
  {Sym("runtime.text", base + 2, 0), Sym("runtime.asmcgocall.abi0", base + 3, 1),
   Sym("runtime.asmcgocall", base + 5, 1), Sym("", base + 4, 1), Sym("runtime.tlsg", 0, 8)}
OldGoSymbols(base) == {Sym("$x", base + 2, 0), Sym("runtime.asmcgocall", base + 3, 2)}

go == At([File("exec", TwoSegs(12)) EXCEPT !.symtab = {GoSymbols(12)}], 8, 1, 1)
oldGo == At([File("exec", TwoSegs(12)) EXCEPT !.symtab = {OldGoSymbols(12)}, !.eh_frame = FALSE],
            8, 1, 2)
stripped == At([File("exec", TwoSegs(12)) EXCEPT !.dynsym = {{Sym("main", 15, 1)}}], 8, 1, 3)
debugged == At([File("exec", Append(TwoSegs(12), Seg(6, 18, 5, TRUE, FALSE))) EXCEPT
                  !.debug = {GoSymbols(12)},
                  !.dynamic = {[Lazy EXCEPT !.vaddr = 18, !.pltgot = {18}, !.rel = {13}]}], 8, 1, 4)
pie == At([File("dyn", ThreeSegs) EXCEPT !.symtab = {GoSymbols(0)}], 8, 1, 5)
libc == At([File("dyn", ThreeSegs) EXCEPT !.dynsym = {{Sym("write", 3, 1)}},
              !.plt = 4, !.relocations = 1, !.dynamic = {Lazy}], 8, 1, 6)
libm == At([File("dyn", OneSeg) EXCEPT !.symtab = {{Sym("sin", 1, 1)}}], 8, 17, 6)
relro == At([File("dyn", ThreeSegs) EXCEPT !.symtab = {{Sym("cos", 3, 1)}},
               !.dynamic = {Relro}, !.relocated = FALSE], 8, 17, 7)
\* On an NVMe disk.
musl == At([File("dyn", ThreeSegs) EXCEPT !.symtab = {{Sym("tan", 3, 1)}},
               !.dynamic = {NoPltRelro}, !.relocated = FALSE], 259, 2, 8)
hidden == At([File("dyn", HiddenHeader) EXCEPT !.symtab = {{Sym("f", 2, 1)}}], 8, 1, 7)
classes == At([File("data", OneSeg) EXCEPT !.eh_frame = FALSE], 8, 1, 8)

AllFiles ==
  [go |-> go, oldGo |-> oldGo, stripped |-> stripped, debugged |-> debugged, pie |-> pie,
   libc |-> libc, libm |-> libm, relro |-> relro, musl |-> musl, hidden |-> hidden, classes |-> classes]

FixedNames == {"go", "oldGo", "stripped", "debugged", "libc", "libm", "relro", "musl",
               "hidden", "classes"}
PieNames == {"pie", "libc"}

Vdso_so == [File("dyn", << >>) EXCEPT !.dynsym = {{Sym("clock_gettime", 1, 1)}}]

\* The layouts for which the tables and the symbols of a library are its own, and
\* asmcgocall is found at its place.
ASSUME MCAssumption == SameDistance /\ GotPlaced /\ ProgramsPlain
================================================================================
