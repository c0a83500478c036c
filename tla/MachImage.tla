------------------------------- MODULE MachImage -------------------------------
(***************************************************************************)
(* Start-up on macOS: parseLibraries takes the images of dyld, and         *)
(* MachOParser (symbols_darwin.cpp) reads the load commands of each into   *)
(* the code cache that Image fills on Linux; the search for asmcgocall is  *)
(* the same.  os is the choice of the #ifdef.                              *)
(*                                                                         *)
(* dyld is external: MapImage puts an image at a slide, the distance from  *)
(* the addresses in the file.  Nothing is loaded or unloaded while the     *)
(* constructor runs.                                                       *)
(***************************************************************************)
EXTENDS Image

CONSTANTS
  MachNames,    \* the images a process may load
  MachFiles,    \* MachNames -> contents
  Slides,       \* the slides dyld chooses from
  MaxImages     \* bound: the images of a process

UNDEFINED == -1                 \* (const char*)-1
NO_MIN_ADDRESS == Space - 1
NO_MAX_ADDRESS == NULL

ASSUME MachAssumption ==
  /\ MaxImages \in Nat /\ Slides \subseteq Nat
  /\ MachNames \cap FileNames = {}
  /\ \A f \in MachNames : MachFiles[f].opens \in BOOLEAN

SegmentCommand ==
  [cmd : {"segment"}, name : STRING, vmaddr : Nat, vmsize : Nat, fileoff : Nat,
   initprot : SUBSET {"r", "w", "x"}, la_symbol_ptr : SUBSET [addr : Nat, size : Nat]]
SymtabCommand == [cmd : {"symtab"}, symoff : Nat]
OtherCommand == [cmd : STRING \ {"segment", "symtab"}]
MachSymbol == [name : STRING, plain : STRING, value : Nat, type : STRING]

\* The linker writes __TEXT with the header.  An executable segment whose command
\* comes first is not larger; one that comes later is of any size.  __LINKEDIT
\* comes behind __TEXT, at an address not below its place in the file, and the
\* symbol table, which lies in it, behind both.
ASSUME MachFilesAssumption ==
  \A f \in MachNames :
    LET cmds == MachFiles[f].cmds
        named(name) == {n \in DOMAIN cmds : cmds[n].cmd = "segment" /\ cmds[n].name = name}
        symtabs == {n \in DOMAIN cmds : cmds[n].cmd = "symtab"}
    IN  /\ cmds \in Seq(SegmentCommand \cup SymtabCommand \cup OtherCommand)
        /\ \E t \in named("__TEXT") :
             /\ named("__TEXT") = {t}
             /\ "x" \in cmds[t].initprot /\ cmds[t].vmsize > 0
             /\ \A n \in DOMAIN cmds : n < t =>
                  /\ cmds[n].cmd # "symtab"
                  /\ cmds[n].cmd = "segment" /\ "x" \in cmds[n].initprot =>
                       cmds[n].vmsize <= cmds[t].vmsize
             /\ \A l \in named("__LINKEDIT") :
                  /\ named("__LINKEDIT") = {l} /\ t < l
                  /\ cmds[l].initprot = {"r"} /\ cmds[l].fileoff <= cmds[l].vmaddr
                  /\ \A n \in symtabs : l < n
        /\ MachFiles[f].symbols \subseteq MachSymbol /\ IsFiniteSet(MachFiles[f].symbols)
        /\ MachFiles[f].symbols # {} => symtabs # {}
        /\ \A n \in DOMAIN cmds, slide \in Slides : cmds[n].cmd = "segment" =>
             slide + cmds[n].vmaddr + cmds[n].vmsize <= Space

VARIABLES
  os,                  \* "linux" or "darwin"
  images,              \* the images of dyld
  parsed_libraries,    \* the headers seen
  next                 \* images read

dyld == <<os, images>>
loop == <<parsed_libraries, next>>
startVars == <<vars, dyld, loop>>
-----------------------------------------------------------------------------
(* dyld.                                                                     *)

Segments(f, name) ==
  {c \in Range(MachFiles[f].cmds) : c.cmd = "segment" /\ c.name = name}
Segment(f, name) == CHOOSE c \in Segments(f, name) : TRUE

\* The header is at the start of __TEXT.
ImageBase(i) == i.slide + Segment(i.file, "__TEXT").vmaddr

\* An image occupies the addresses of its segments.
Occupied(i) ==
  UNION {(i.slide + c.vmaddr)..(i.slide + c.vmaddr + c.vmsize - 1) :
           c \in {d \in Range(MachFiles[i.file].cmds) : d.cmd = "segment"}}

MapImage ==
  /\ at = "load" /\ Len(images) < MaxImages
  /\ \E f \in MachNames, slide \in Slides :
       LET new == [file |-> f, slide |-> slide]
       IN  /\ \A i \in Range(images) : i.file # f /\ Occupied(i) \cap Occupied(new) = {}
           /\ images' = Append(images, new)
  /\ UNCHANGED <<vars, os, loop>>

\* The symbol table where dyld mapped it, and nothing elsewhere.
SymbolTableAt(i, a) ==
  {s \in MachFiles[i.file].symbols :
     \E l \in Segments(i.file, "__LINKEDIT"), t \in Range(MachFiles[i.file].cmds) :
       t.cmd = "symtab" /\ a = i.slide + l.vmaddr + t.symoff - l.fileoff}

-----------------------------------------------------------------------------
(* MachOParser::parse, a fold over the load commands of an image i.          *)

\* loadSymbols: names of symbols that are defined in a section and are no
\* debugging entries, without one leading underscore.
MachSymbols(i, text_base, a) ==
  {Blob(text_base, [name |-> s.plain, value |-> s.value, size |-> 0]) :
     s \in {t \in SymbolTableAt(i, a) : t.type = "section" /\ t.value # 0}}

\* setTextBase and updateBounds.
SetText(i, st, c) ==
  LET base == ImageBase(i)
  IN  [st EXCEPT !.text_base = base - c.vmaddr, !.cc.text_base = base - c.vmaddr,
                 !.cc.min = Min({@, base}), !.cc.max = Max({@, base + c.vmsize})]

\* Mutant: the first executable segment is taken for __TEXT.
TextSegmentFirst(i, st, c) ==
  IF st.text_base # UNDEFINED THEN st ELSE SetText(i, st, c)

TextSegment(i, st, c) ==
  IF st.text_base # UNDEFINED /\ c.name # "__TEXT" THEN st ELSE SetText(i, st, c)

ReadOnlySegment(st, c) ==
  IF st.link_base # UNDEFINED /\ c.name # "__LINKEDIT" THEN st
  ELSE [st EXCEPT !.link_base = st.text_base + c.vmaddr - c.fileoff]

\* findGlobalOffsetTable
DataSegment(i, st, c) ==
  IF c.name # "__DATA" THEN st
  ELSE [st EXCEPT !.cc.got = {[lo |-> ImageBase(i) + s.addr, hi |-> ImageBase(i) + s.addr + s.size]
                                : s \in c.la_symbol_ptr}]

SymbolTable(i, st, c) ==
  [st EXCEPT !.stop = TRUE,
     !.cc.blobs = IF UNDEFINED \in {st.text_base, st.link_base} THEN {}
                  ELSE MachSymbols(i, st.text_base, st.link_base + c.symoff)]

Command(i, st, c) ==
  CASE st.stop -> st
    [] ~st.stop /\ c.cmd = "symtab" -> SymbolTable(i, st, c)
    [] ~st.stop /\ c.cmd = "segment" /\ "x" \in c.initprot -> TextSegment(i, st, c)
    [] ~st.stop /\ c.cmd = "segment" /\ c.initprot = {"r"} -> ReadOnlySegment(st, c)
    [] ~st.stop /\ c.cmd = "segment" /\ "x" \notin c.initprot /\ "w" \in c.initprot ->
         DataSegment(i, st, c)
    [] OTHER -> st

ParseStart(i) ==
  [cc |-> [CodeCache(Line(NULL, NULL, TRUE, TRUE, 0, i.file)) EXCEPT
             !.min = NO_MIN_ADDRESS, !.max = NO_MAX_ADDRESS],
   text_base |-> UNDEFINED, link_base |-> UNDEFINED, stop |-> FALSE]

\* The loop: what it has after n commands.
Commands(i) ==
  LET cmds == MachFiles[i.file].cmds
      after[n \in 0..Len(cmds)] ==
        IF n = 0 THEN ParseStart(i) ELSE Command(i, after[n - 1], cmds[n])
  IN  after

\* The code cache of an image.  The result of parse tells whether symbols were
\* found, and is not looked at.
MachLibrary(i) == Commands(i)[Len(MachFiles[i.file].cmds)].cc

-----------------------------------------------------------------------------
(* parseLibraries.                                                           *)

\* An image seen before, or one that dlopen does not know.
SkipImage(i) ==
  /\ ImageBase(i) \in parsed_libraries \/ (~Full /\ ~MachFiles[i.file].opens)
  /\ UNCHANGED <<array, at>>

AddImage(i) ==
  /\ ImageBase(i) \notin parsed_libraries /\ ~Full /\ MachFiles[i.file].opens
  /\ array' = Append(array, MachLibrary(i))
  /\ UNCHANGED at

NoRoom(i) ==
  /\ ImageBase(i) \notin parsed_libraries /\ Full
  /\ at' = "find"
  /\ UNCHANGED array

ParseImage ==
  /\ at = "parse" /\ next < Len(images)
  /\ next' = next + 1
  /\ LET i == images[next + 1]
     IN  /\ parsed_libraries' = parsed_libraries \cup {ImageBase(i)}
         /\ SkipImage(i) \/ AddImage(i) \/ NoRoom(i)
  /\ UNCHANGED <<process, line, last_readable_base, image_end, parsed_inodes, search, dyld>>

LastImage ==
  /\ at = "parse" /\ next = Len(images)
  /\ at' = "find"
  /\ UNCHANGED <<process, parser, search, dyld, loop>>

StartInit ==
  /\ Init
  /\ os \in {"linux", "darwin"}
  /\ images = << >> /\ parsed_libraries = {} /\ next = 0

LinuxNext == os = "linux" /\ Next /\ UNCHANGED <<dyld, loop>>
DarwinNext ==
  /\ os = "darwin"
  /\ \/ MapImage \/ ParseImage \/ LastImage
     \/ (Open \/ FindAsmcgocall \/ Main) /\ UNCHANGED <<dyld, loop>>

StartSpec == StartInit /\ [][LinuxNext \/ DarwinNext]_startVars

-----------------------------------------------------------------------------
(* Properties.                                                               *)

\* What the code cache of an image should hold: the slide, the addresses of
\* __TEXT, and the symbols of the file, moved by the slide.
MachRight(cc, i) ==
  LET text == Segment(i.file, "__TEXT")
      defined == {s \in MachFiles[i.file].symbols : s.type = "section" /\ s.value # 0}
  IN  /\ cc.file = i.file /\ cc.text_base = i.slide
      /\ cc.min = ImageBase(i) /\ cc.max = ImageBase(i) + text.vmsize
      /\ Segments(i.file, "__LINKEDIT") # {} =>
           {<<b.name, b.start>> : b \in cc.blobs}
             = {<<s.plain, i.slide + s.value>> : s \in defined}

\* The images that can be opened, of the first n.
Opened(n) == {m \in 1..n : MachFiles[images[m].file].opens}

\* Whatever other segments the linker wrote before and behind __TEXT and
\* __LINKEDIT, and wherever dyld puts the image, each image that can be opened,
\* up to the limit of the array, has one library with its own bounds and
\* symbols: bases first taken from another segment, executable or read-only,
\* are replaced in time (symbols_darwin.cpp:85-97).
MachRead ==
  os = "darwin" =>
    /\ \A n \in Opened(next) : Cardinality(Opened(n)) <= MAX_NATIVE_LIBS =>
         MachRight(array[Cardinality(Opened(n))], images[n])
    /\ Len(array) = Min({Cardinality(Opened(next)), MAX_NATIVE_LIBS})
    /\ at \in {"find", "ready"} =>
         Len(array) = Min({Cardinality(Opened(Len(images))), MAX_NATIVE_LIBS})

\* Stacks are truncated at asmcgocall in every image that has it, as far as the
\* images are read (cgotraceback.cpp:104: "truncates a call stack after
\* asmcgocall, if asmcgocall is present in the stack").
MachTruncates ==
  os = "darwin" /\ at = "ready" =>
    \A n \in Opened(next) : Cardinality(Opened(n)) <= MAX_NATIVE_LIBS =>
      \A s \in MachFiles[images[n].file].symbols :
        s.plain \in {"runtime.asmcgocall.abi0", "runtime.asmcgocall"} /\ s.type = "section"
          => InAsmcgocall(images[n].slide + s.value)
=============================================================================
