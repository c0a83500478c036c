------------------------------ MODULE MCMachImage ------------------------------
(***************************************************************************)
(* Images for MachImage, with the files of MCImage: a Go program behind    *)
(* __PAGEZERO, a library with a read-only segment before __LINKEDIT and an *)
(* executable one behind __TEXT, a stripped one, one without a file, and   *)
(* one with an executable and a read-only segment before __TEXT.           *)
(***************************************************************************)
EXTENDS MachImage, MCImage

MSeg(name, vmaddr, vmsize, fileoff, initprot) ==
  [cmd |-> "segment", name |-> name, vmaddr |-> vmaddr, vmsize |-> vmsize,
   fileoff |-> fileoff, initprot |-> initprot, la_symbol_ptr |-> {}]
Symtab(symoff) == [cmd |-> "symtab", symoff |-> symoff]
Other == [cmd |-> "uuid"]

MSym(name, plain, value, type) ==
  [name |-> name, plain |-> plain, value |-> value, type |-> type]

MachO(opens, cmds, symbols) == [opens |-> opens, cmds |-> cmds, symbols |-> symbols]

program ==
  MachO(TRUE,
    <<MSeg("__PAGEZERO", 0, 8, 0, {}), MSeg("__TEXT", 8, 4, 0, {"r", "x"}),
      [MSeg("__DATA", 12, 2, 4, {"r", "w"}) EXCEPT !.la_symbol_ptr = {[addr |-> 13, size |-> 1]}],
      MSeg("__LINKEDIT", 14, 2, 6, {"r"}), Other, Symtab(7), MSeg("__LATE", 16, 1, 8, {"r", "x"})>>,
    {MSym("runtime.asmcgocall.abi0", "runtime.asmcgocall.abi0", 9, "section"),
     MSym("_main", "main", 10, "section"), MSym("_write", "write", 0, "undefined"),
     MSym("__mh_execute_header", "_mh_execute_header", 8, "section"),
     MSym("main.c", "main.c", 10, "debug")})
dylib ==
  MachO(TRUE,
    <<MSeg("__TEXT", 0, 3, 0, {"r", "x"}), MSeg("__CONST", 3, 1, 3, {"r"}),
      MSeg("__DATA_CONST", 4, 1, 4, {"r", "w"}), MSeg("__EXTRA", 5, 1, 4, {"r", "x"}),
      MSeg("__LINKEDIT", 6, 2, 5, {"r"}), Symtab(5)>>,
    {MSym("_open", "open", 1, "section"), MSym("_close", "close", 2, "section")})
nolink ==
  MachO(TRUE, <<MSeg("__TEXT", 0, 3, 0, {"r", "x"}), Symtab(3)>>,
    {MSym("_f", "f", 1, "section")})
deleted == MachO(FALSE, <<MSeg("__TEXT", 0, 3, 0, {"r", "x"})>>, {})
other ==
  MachO(TRUE,
    <<MSeg("__STUBS", 3, 1, 3, {"r", "x"}), MSeg("__RODATA", 4, 1, 4, {"r"}),
      MSeg("__TEXT", 0, 2, 0, {"r", "x"}), MSeg("__LINKEDIT", 5, 1, 2, {"r"}), Symtab(2)>>,
    {MSym("_g", "g", 1, "section")})

MachAll ==
  [program |-> program, dylib |-> dylib, nolink |-> nolink, deleted |-> deleted, other |-> other]
MachImages == DOMAIN MachAll

ASSUME MCMachAssumption == KeysDistinct
================================================================================
