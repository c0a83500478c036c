--------------------------------- MODULE Image ---------------------------------
(***************************************************************************)
(* Start-up on Linux: Symbols::parseLibraries reads /proc/self/maps and    *)
(* makes a CodeCache of every executable mapping (symbols_linux.cpp,       *)
(* codeCache.cpp), the constructor of cgotraceback.cpp finds asmcgocall    *)
(* among their symbols, and truncate_asmcgocall tests addresses against    *)
(* its bounds.                                                             *)
(*                                                                         *)
(* The loader is external: Map puts the segments of a file at a bias (0    *)
(* for a fixed-address executable) behind the mappings there are.  A       *)
(* pointer, a relocation and an entry of the dynamic section have size 1.  *)
(***************************************************************************)
EXTENDS Integers, Sequences, FiniteSets, FiniteSetsExt

CONSTANTS
  Space,            \* 2^w, the number of addresses
  FileNames,        \* the files a process may map
  Files,            \* FileNames -> contents; a missing section is {}, a
                    \* section of symbols is a set of one set of them
  VdsoFile,         \* the contents of [vdso], which the kernel maps
  MmapMin,          \* no mapping lies below; more than any size of a file
  Gaps,             \* distances the loader leaves between mappings
  MaxLines,         \* bound: lines of /proc/self/maps
  MAX_NATIVE_LIBS

NoFile == "none"       \* a mapping without a file
Vdso == "[vdso]"
NULL == 0

ASSUME ImageAssumption ==
  /\ {Space, MaxLines, MAX_NATIVE_LIBS, MmapMin} \subseteq Nat \ {0}
  /\ Gaps \subseteq Nat
  /\ {NoFile, Vdso} \cap FileNames = {}
  /\ \A f \in FileNames : Files[f].type \in {"exec", "dyn", "data"}
  /\ VdsoFile.segs = << >>

SegmentRecord == [off : Nat, vaddr : Nat, len : Nat \ {0}, r : BOOLEAN, x : BOOLEAN]
SymbolRecord == [name : STRING, value : Nat, size : Nat]

\* The n addresses behind a of a file lie in one readable segment.
InSegment(f, a, n) ==
  \E i \in DOMAIN Files[f].segs :
    LET s == Files[f].segs[i] IN s.r /\ s.vaddr <= a /\ a + n <= s.vaddr + s.len

\* Segments lie behind each other, and only the first one has the ELF header.
\* The base of a library that can be moved is the address of its header.
ASSUME FilesAssumption ==
  \A f \in FileNames :
    LET segs == Files[f].segs IN
    /\ segs \in Seq(SegmentRecord) /\ segs # << >>
    /\ \A i, j \in DOMAIN segs : i < j => segs[i].vaddr + segs[i].len <= segs[j].vaddr
    /\ \A i \in DOMAIN segs :
         /\ segs[i].off <= MmapMin
         /\ Files[f].type # "exec" => segs[i].vaddr + segs[i].len <= MmapMin
         /\ Files[f].type # "data" /\ segs[i].off = 0 =>
              i = 1 /\ (Files[f].type = "dyn" => segs[i].vaddr = 0)

ASSUME SymbolsAssumption ==
  /\ \A f \in FileNames :
       /\ {Files[f].plt, Files[f].relocations, Files[f].minor, Files[f].major,
           Files[f].inode} \subseteq Nat
       /\ \A sections \in {Files[f].symtab, Files[f].debug, Files[f].dynsym} :
            UNION sections \subseteq SymbolRecord /\ IsFiniteSet(UNION sections)
  /\ \A sections \in {VdsoFile.symtab, VdsoFile.dynsym} :
       UNION sections \subseteq SymbolRecord /\ IsFiniteSet(UNION sections)

VARIABLES
  maps,         \* the lines of /proc/self/maps
  loads,        \* history: the files mapped, with their biases
  at,           \* "load", "parse", "find" or "ready"
  line,         \* lines read
  last_readable_base, image_end, parsed_inodes,
  array,        \* the CodeCacheArray
  searched,     \* libraries the constructor has searched
  asmcgocall_bounds, asmcgocall_base

process == <<maps, loads>>
parser == <<line, last_readable_base, image_end, parsed_inodes, array>>
search == <<searched, asmcgocall_bounds, asmcgocall_base>>
vars == <<process, at, parser, search>>
-----------------------------------------------------------------------------
(* The loader.                                                               *)

End == IF maps = << >> THEN MmapMin ELSE maps[Len(maps)].hi

Line(lo, len, r, x, off, file) ==
  [lo |-> lo, hi |-> lo + len, r |-> r, x |-> x, off |-> off, file |-> file]

MapFile(f, gap) ==
  LET segs == Files[f].segs
      bias == IF Files[f].type = "exec" THEN 0 ELSE End + gap
      lines == [i \in DOMAIN segs |->
                  Line(bias + segs[i].vaddr, segs[i].len, segs[i].r, segs[i].x,
                       segs[i].off, f)]
  IN  /\ lines[1].lo >= End
      /\ Len(maps) + Len(lines) <= MaxLines
      /\ lines[Len(lines)].hi < Space
      /\ maps' = maps \o lines
      /\ loads' = loads \cup {[file |-> f, bias |-> bias]}

\* Memory without a file, or the code the kernel provides.
MapOther(file, gap) ==
  /\ Len(maps) < MaxLines
  /\ maps' = Append(maps, Line(End + gap, 1, TRUE, file = Vdso, 0, file))
  /\ UNCHANGED loads

Map ==
  /\ at = "load"
  /\ \E gap \in Gaps :
       \/ \E f \in FileNames : MapFile(f, gap)
       \/ \E file \in {NoFile, Vdso} : MapOther(file, gap)
  /\ UNCHANGED <<at, parser, search>>

-----------------------------------------------------------------------------
(* ElfParser and CodeCache.                                                  *)

Readable(a) == {i \in DOMAIN maps : maps[i].r /\ maps[i].lo <= a /\ a < maps[i].hi}

\* The file whose ELF header is at an address: its offset 0 is mapped there.
HeaderAt(a) ==
  {maps[i].file : i \in {j \in Readable(a) :
     /\ maps[j].file \in FileNames /\ Files[maps[j].file].type # "data"
     /\ maps[j].off + (a - maps[j].lo) = 0}}

\* loadSymbolTable: a symbol without a name or a value, and the markers of the
\* assembler, are skipped.
Blob(base, s) ==
  [name |-> s.name, start |-> base + s.value, end |-> base + s.value + s.size]
LoadSymbolTable(base, table) ==
  {Blob(base, s) : s \in {t \in table :
     t.name # "" /\ t.value # 0 /\ ~(t.name = "$x" /\ t.size = 0)}}

\* addRelocationSymbols, one entry of the PLT each.
PltBlobs(base, f) ==
  {Blob(base, [name |-> "@plt", value |-> Files[f].plt + i, size |-> 1])
     : i \in 1..Files[f].relocations}

\* loadSymbols of a file: its own symbols, those of its debug file, or the
\* exported ones.
LoadSymbols(base, f) ==
  LET sections == IF Files[f].symtab # {} THEN Files[f].symtab
                  ELSE IF Files[f].debug # {} THEN Files[f].debug ELSE Files[f].dynsym
  IN  LoadSymbolTable(base, UNION sections) \cup PltBlobs(base, f)

\* parseMem: the symbols of the code the kernel maps.
ParseMem(base) ==
  LoadSymbolTable(base,
    UNION (IF VdsoFile.symtab # {} THEN VdsoFile.symtab ELSE VdsoFile.dynsym))

CodeCache(m) ==
  [min |-> m.lo, max |-> m.hi, file |-> m.file, text_base |-> NULL,
   table |-> NoFile, got |-> {}, probed |-> {}, blobs |-> {}]

\* The loader leaves the pointers of the dynamic section as they are in the
\* file (musl), or adds the bias to them (glibc).
DynamicPointer(f, base, ptr) ==
  IF Files[f].type = "dyn" /\ Files[f].relocated THEN base + ptr ELSE ptr

\* Mutant: a pointer the loader has relocated is relocated again.
DynPtrAlways(f, base, ptr) == base + DynamicPointer(f, base, ptr)

\* DYN_PTR of a pointer read from the dynamic section.
DynPtr(f, base, ptr) ==
  LET read == DynamicPointer(f, base, ptr)
  IN  IF read >= base THEN read ELSE base + read

\* The entries of the relocation table that parseDynamicSection reads, if it
\* does: those behind the relative ones, when no PLT tells the size of the GOT.
RelroEntries(d) ==
  IF d.relent = 0 \/ (d.pltrelsz # 0 /\ d.pltgot # {}) \/ d.rel = {} THEN {}
  ELSE (d.relcount + 1)..Len(d.relocations)

\* parseDynamicSection: the bounds of the global offset table.
GlobalOffsetTable(f, base, d) ==
  LET starts == {DynPtr(f, base, ptr) + 3 : ptr \in d.pltgot}
      slots == {base + d.relocations[i].offset :
                  i \in {j \in RelroEntries(d) : d.relocations[j].type = "GLOB_DAT"}}
      max == Max(slots \cup {NULL})
  IN  IF d.relent # 0 /\ d.pltrelsz # 0 /\ starts # {}
        THEN {[lo |-> lo, hi |-> lo + d.pltrelsz \div d.relent] : lo \in starts}
        ELSE {[lo |-> lo, hi |-> max + 1] :
                lo \in {s \in IF starts # {} THEN starts ELSE {Min(slots \cup {Space})} :
                         max >= s}}

\* The dynamic section and the relocations of a file are mapped with it.
ASSUME DynamicAssumption ==
  \A f \in FileNames : \A d \in Files[f].dynamic :
    /\ {d.vaddr, d.memsz, d.relcount, d.relent, d.pltrelsz} \subseteq Nat
    /\ d.rel \subseteq Nat /\ d.pltgot \subseteq Nat
    /\ d.relocations \in Seq([type : STRING, offset : Nat])
    /\ InSegment(f, d.vaddr, d.memsz)
    /\ RelroEntries(d) # {} =>
         \A ptr \in d.rel : InSegment(f, ptr, Len(d.relocations))

\* The addresses it reads.
DynamicReads(f, base, d) ==
  {(IF Files[f].type = "exec" THEN 0 ELSE base) + d.vaddr + i : i \in 0..(d.memsz - 1)}
    \cup {DynPtr(f, base, CHOOSE ptr \in d.rel : TRUE) + i - 1 : i \in RelroEntries(d)}

\* parseProgramHeaders: the dynamic section, and the frame table if the file
\* has one.
ParseProgramHeaders(cc, base) ==
  IF HeaderAt(base) = {} THEN [cc EXCEPT !.probed = {base}]
  ELSE LET owner == CHOOSE f \in HeaderAt(base) : TRUE
           dynamic == Files[owner].dynamic
       IN  [cc EXCEPT
              !.probed = {base} \cup UNION {DynamicReads(owner, base, d) : d \in dynamic},
              !.got = UNION {GlobalOffsetTable(owner, base, d) : d \in dynamic},
              !.text_base = base,
              !.table = IF Files[owner].eh_frame THEN owner ELSE NoFile]

\* map.dev() | inode << 16, as a set of bits.  dev reads the minor number at a
\* fixed place, which a major number of three digits shifts.
Bits(n) == {b \in 0..23 : (n \div 2^b) % 2 = 1}
Dev(f) == Bits(256 * Files[f].major) \cup (IF Files[f].major < 256 THEN Bits(Files[f].minor) ELSE {})
InodeKey(f) == Dev(f) \cup {b + 16 : b \in Bits(Files[f].inode)}

\* Mutant: the header is looked for where the readable range begins.
ParsedAtLimit(m, base_limit) ==
  LET cc == ParseProgramHeaders(CodeCache(m), base_limit)
  IN  IF Files[m.file].type = "data" THEN cc
      ELSE [cc EXCEPT !.blobs = LoadSymbols((m.lo - m.off) % Space, m.file)]

\* The code cache of the first mapping of a file that is executable.
Parsed(m, base_limit) ==
  LET base == (m.lo - m.off) % Space
      cc == IF base >= base_limit THEN ParseProgramHeaders(CodeCache(m), base)
                                  ELSE CodeCache(m)
  IN  IF Files[m.file].type = "data" THEN cc
      ELSE [cc EXCEPT !.blobs = LoadSymbols(base, m.file)]

-----------------------------------------------------------------------------
(* parseLibraries.                                                           *)

Init ==
  /\ maps = << >> /\ loads = {}
  /\ at = "load"
  /\ line = 0 /\ last_readable_base = NULL /\ image_end = NULL
  /\ parsed_inodes = {} /\ array = << >>
  /\ searched = 0 /\ asmcgocall_bounds = {} /\ asmcgocall_base = NULL

Open ==
  /\ at = "load"
  /\ at' = "parse"
  /\ UNCHANGED <<process, parser, search>>

\* Mutant: the limit is tested after a library is added.
FullLate == Len(array) > MAX_NATIVE_LIBS

Full == Len(array) >= MAX_NATIVE_LIBS

\* Mutant: a line that is skipped counts as readable.
SkipLineReadable(m) ==
  /\ ~m.r \/ m.file = NoFile
  /\ image_end' = m.hi
  /\ UNCHANGED <<last_readable_base, parsed_inodes, array, at>>

SkipLine(m) ==
  /\ ~m.r \/ m.file = NoFile
  /\ UNCHANGED <<last_readable_base, image_end, parsed_inodes, array, at>>

\* The start of the readable, contiguous mappings that end with m.
ReadableBase(m) == IF m.lo # image_end THEN m.lo ELSE last_readable_base

PlainLine(m) ==
  /\ m.r /\ m.file # NoFile /\ ~m.x
  /\ last_readable_base' = ReadableBase(m)
  /\ image_end' = m.hi
  /\ UNCHANGED <<parsed_inodes, array, at>>

\* Mutant: a file mapped twice is parsed twice.
FreshAlways(m) == m.file \in FileNames

\* The file of the mapping was not parsed yet.
Fresh(m) == m.file \in FileNames /\ InodeKey(m.file) \notin parsed_inodes

\* The code cache of an executable mapping.
Library(m) ==
  IF Fresh(m) THEN Parsed(m, ReadableBase(m))
  ELSE [CodeCache(m) EXCEPT !.blobs = IF m.file = Vdso THEN ParseMem(m.lo) ELSE {}]

ExecutableLine(m) ==
  /\ m.r /\ m.file # NoFile /\ m.x
  /\ last_readable_base' = ReadableBase(m)
  /\ image_end' = m.hi
  /\ \/ /\ Full
        /\ at' = "find"
        /\ UNCHANGED <<parsed_inodes, array>>
     \/ /\ ~Full
        /\ array' = Append(array, Library(m))
        /\ parsed_inodes' = IF Fresh(m) THEN parsed_inodes \cup {InodeKey(m.file)}
                                        ELSE parsed_inodes
        /\ UNCHANGED at

ParseLine ==
  /\ at = "parse" /\ line < Len(maps)
  /\ line' = line + 1
  /\ LET m == maps[line + 1] IN SkipLine(m) \/ PlainLine(m) \/ ExecutableLine(m)
  /\ UNCHANGED <<process, search>>

Close ==
  /\ at = "parse" /\ line = Len(maps)
  /\ at' = "find"
  /\ UNCHANGED <<process, parser, search>>

-----------------------------------------------------------------------------
(* The constructor of cgotraceback.cpp.                                      *)

\* The order CodeCache::sort gives to blobs.
Before(b, c) == b.start < c.start \/ (b.start = c.start /\ b.end >= c.end)
First(blobs) == CHOOSE b \in blobs : \A c \in blobs : Before(b, c)

findSymbol(cc, name) == {b \in cc.blobs : b.name = name}

find(cc, a) == {b \in cc.blobs : b.start <= a /\ a < b.end}

\* The symbol has another name in older versions of Go.
AsmSymbols(cc) ==
  IF findSymbol(cc, "runtime.asmcgocall.abi0") # {}
    THEN findSymbol(cc, "runtime.asmcgocall.abi0")
    ELSE findSymbol(cc, "runtime.asmcgocall")

FindAsmcgocall ==
  /\ at = "find" /\ searched < Len(array)
  /\ searched' = searched + 1
  /\ LET cc == array[searched + 1]
         found == IF AsmSymbols(cc) = {} THEN {} ELSE find(cc, First(AsmSymbols(cc)).start)
     IN  IF found = {} THEN UNCHANGED <<asmcgocall_bounds, asmcgocall_base>>
         ELSE /\ asmcgocall_bounds' = {First(found)}
              /\ asmcgocall_base' = cc.text_base
  /\ UNCHANGED <<process, at, parser>>

Main ==
  /\ at = "find" /\ searched = Len(array)
  /\ at' = "ready"
  /\ UNCHANGED <<process, parser, search>>

Next == Map \/ Open \/ ParseLine \/ Close \/ FindAsmcgocall \/ Main

Spec == Init /\ [][Next]_vars
FairSpec == Spec /\ WF_vars(ParseLine \/ Close \/ FindAsmcgocall \/ Main)

\* Mutant: the bounds are compared with the address itself.
InAsmcgocallPlain(a) == \E b \in asmcgocall_bounds : b.start <= a /\ a <= b.end

\* The test of truncate_asmcgocall.
InAsmcgocall(a) ==
  LET moved == (a + asmcgocall_base) % Space
  IN  \E b \in asmcgocall_bounds : b.start <= moved /\ moved <= b.end

-----------------------------------------------------------------------------
(* What properties rely on beyond the assumptions.                           *)

\* All segments of a file lie at the distance of the first from their places in
\* the file, which is what symbols_linux.cpp:534 computes the base from.
SameDistance ==
  \A f \in FileNames :
    LET segs == Files[f].segs IN
    segs[1].off = 0 /\ \A i \in DOMAIN segs : segs[i].vaddr - segs[i].off = segs[1].vaddr

\* The global offset table of a library lies in one segment.
GotPlaced ==
  \A f \in {g \in FileNames : Files[g].type = "dyn"} : \A d \in Files[f].dynamic :
    IF d.relent # 0 /\ d.pltrelsz # 0 /\ d.pltgot # {}
      THEN \A ptr \in d.pltgot : InSegment(f, ptr + 3, d.pltrelsz \div d.relent)
      ELSE \E i \in DOMAIN Files[f].segs :
             LET s == Files[f].segs[i] IN
             /\ s.r
             /\ \A e \in RelroEntries(d) : d.relocations[e].type = "GLOB_DAT" =>
                  s.vaddr <= d.relocations[e].offset /\ d.relocations[e].offset < s.vaddr + s.len
             /\ \A ptr \in d.pltgot : s.vaddr <= ptr + 3 /\ ptr + 3 <= s.vaddr + s.len

\* No two files have the same key, as on devices with a major number of two
\* digits.
KeysDistinct == \A f, g \in FileNames : InodeKey(f) = InodeKey(g) => f = g

\* asmcgocall in a file: where Go has an ABI0 and an ABIInternal symbol, the
\* first is the function and the second calls it.
Asmcgocall(f) ==
  LET named(n) == {b \in LoadSymbols(0, f) : b.name = n}
  IN  IF named("runtime.asmcgocall.abi0") # {} THEN named("runtime.asmcgocall.abi0")
                                               ELSE named("runtime.asmcgocall")

\* What linkers do with a Go program at a fixed address: all programs begin at
\* one address, and the segments up to the first executable one are readable and
\* behind each other.  No other symbol contains the address of asmcgocall, and
\* twice the address of a symbol is an address.
Programs == {f \in FileNames : Files[f].type = "exec" /\ Asmcgocall(f) # {}}
ProgramsPlain ==
  /\ \A f, g \in Programs : Files[f].segs[1].vaddr = Files[g].segs[1].vaddr
  /\ \A f \in Programs :
       LET segs == Files[f].segs IN
       /\ \A i \in DOMAIN segs : (\A j \in DOMAIN segs : j < i => ~segs[j].x) =>
            segs[i].r /\ (i > 1 => segs[i].vaddr = segs[i - 1].vaddr + segs[i - 1].len)
       /\ \E b \in Asmcgocall(f) :
            /\ Asmcgocall(f) = {b} /\ segs[1].vaddr + b.end < Space
            /\ {c \in LoadSymbols(0, f) : c.start <= b.start /\ b.start < c.end} = {b}
  /\ \A b \in ParseMem(0) : b.name \notin {"runtime.asmcgocall.abi0", "runtime.asmcgocall"}

-----------------------------------------------------------------------------
(* Properties.                                                               *)

\* The search for asmcgocall, and truncate_asmcgocall after it, index the
\* array below MAX_NATIVE_LIBS, where CodeCacheArray has its last element.
TypeOK ==
  /\ at \in {"load", "parse", "find", "ready"}
  /\ line \in 0..Len(maps) /\ searched \in 0..Len(array)
  /\ Len(array) <= MAX_NATIVE_LIBS
  /\ \A i \in DOMAIN array : array[i].min < array[i].max /\ IsFiniteSet(array[i].blobs)
  /\ asmcgocall_bounds \subseteq UNION {array[i].blobs : i \in DOMAIN array}

\* No ELF header, dynamic section or relocation is read from an address that
\* is not mapped readable, so the constructor cannot crash the program
\* (symbols_linux.cpp:535, 268 and 306).
HeaderReadable ==
  \A i \in DOMAIN array : \A a \in array[i].probed : Readable(a) # {}

\* Whether the loader relocates the dynamic section or not (symbols_linux.cpp:
\* 128, "GNU dynamic linker relocates pointers in the dynamic section, while
\* musl doesn't"), and with a PLT or without, the global offset table of a
\* library lies in a mapping of its file.  A fixed-address executable is left
\* out: the base is added to its relocations, which contain it.
GotOwn ==
  \A i \in DOMAIN array : \A got \in array[i].got :
    array[i].file \in FileNames /\ Files[array[i].file].type = "dyn" =>
      \A a \in got.lo..(got.hi - 1) : \E j \in Readable(a) : maps[j].file = array[i].file

\* Where the header of a file is mapped.
HeaderAddresses(f) ==
  {l.bias + Files[f].segs[1].vaddr : l \in {k \in loads : k.file = f}}

\* The frame table of a library is that of its own file, relative to the
\* place that file is mapped at: pcs are looked up in the right table.
TableOwn ==
  \A i \in DOMAIN array :
    LET cc == array[i] IN
    /\ cc.table # NoFile => cc.table = cc.file
    /\ cc.file \in FileNames /\ cc.text_base # NULL =>
         cc.text_base \in HeaderAddresses(cc.file)

\* The names of the symbols of a file.
SymbolNames(f) == {b.name : b \in LoadSymbols(0, f)}
LibrariesWithSymbols(f) ==
  {i \in DOMAIN array : array[i].file = f /\ {b.name : b \in array[i].blobs} = SymbolNames(f)}

\* However the mappings are laid out, a file with executable mappings and with
\* symbols has them in exactly one library (symbols_linux.cpp:531: "Do not
\* parse the same executable twice").
EveryFileParsed ==
  at \in {"find", "ready"} /\ Len(array) < MAX_NATIVE_LIBS =>
    \A i \in DOMAIN maps :
      maps[i].x /\ maps[i].r /\ maps[i].file \in FileNames /\ Files[maps[i].file].type # "data"
        /\ SymbolNames(maps[i].file) # {}
      => Cardinality(LibrariesWithSymbols(maps[i].file)) = 1

\* The files mapped that have it and were read.
AsmLoads ==
  {l \in loads : /\ Files[l.file].type # "data" /\ Asmcgocall(l.file) # {}
                 /\ LibrariesWithSymbols(l.file) # {}}

\* The addresses of asmcgocall, with the first one behind it, to which it
\* returns when it ends with a call.
AsmAddresses ==
  UNION {UNION {(l.bias + b.start)..(l.bias + b.end) : b \in Asmcgocall(l.file)} : l \in AsmLoads}

\* In a fixed-address executable exactly the addresses of asmcgocall end a
\* stack, although its symbols are recorded with the image base added to
\* addresses that contain it; with no symbol for it nothing does.
AsmcgocallExact ==
  at = "ready" /\ loads # {} /\ (\A l \in AsmLoads : Files[l.file].type = "exec") =>
    \A a \in 0..(Space - 1) : InAsmcgocall(a) <=> a \in AsmAddresses

\* Stacks are truncated at asmcgocall in every program that has it
\* (cgotraceback.cpp:104: "truncates a call stack after asmcgocall, if
\* asmcgocall is present in the stack").
TruncationWorks ==
  at = "ready" => \A a \in AsmAddresses : InAsmcgocall(a)
=============================================================================
