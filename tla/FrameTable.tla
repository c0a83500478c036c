------------------------------ MODULE FrameTable ------------------------------
(***************************************************************************)
(* The frame table of one library: DwarfParser (dwarf.cpp) runs the        *)
(* unwinding program of every function of .eh_frame_hdr and records, at    *)
(* each address where the rule changes, how to find the caller's frame;    *)
(* CodeCache::findFrameDesc looks a pc up by binary search.                *)
(*                                                                         *)
(* The linker sorts .eh_frame_hdr, functions do not overlap, and the       *)
(* programs are valid: locations stay inside the function and a state is   *)
(* restored only after it was remembered.  Programs are chosen one         *)
(* instruction at a time; the ones that only skip operands change nothing  *)
(* and are left out, as is pc_off, which is written and never read.        *)
(***************************************************************************)
EXTENDS Integers, Sequences

CONSTANTS
  MaxLoc,        \* bound: offsets from the image base
  MaxFdes,       \* bound: fde_count
  Deltas,        \* operands of the advance_loc family
  CfaRegs,       \* register operands of def_cfa and def_cfa_register
  CfaOffs,       \* offset operands of def_cfa and def_cfa_offset
  FpOffs,        \* operands of offset and offset_extended for the frame pointer
  PcOffs,        \* results of parseExpression for DW_CFA_val_expression
  ExprLens,      \* lengths of the expression of DW_CFA_def_cfa_expression
  CodeAlign,     \* code_align of the CIE
  DataAlign,     \* data_align of the CIE
  InitCapacity   \* the first size of the table, 128

ASSUME BoundsAssumption ==
  /\ MaxLoc \in Nat /\ MaxFdes \in Nat
  /\ InitCapacity \in Nat \ {0}

ASSUME OperandsAssumption ==
  /\ Deltas \subseteq Nat /\ CodeAlign \in Nat /\ DataAlign \in Int
  /\ CfaRegs \subseteq 0..255 /\ CfaOffs \subseteq Int
  /\ FpOffs \subseteq Nat /\ PcOffs \subseteq Int /\ ExprLens \subseteq Nat

DW_REG_SP == 7
DW_REG_PLT == 128
DW_REG_INVALID == 255
DW_STACK_SLOT == 8
DW_SAME_FP == -2147483647 - 1

VARIABLES
  pc,        \* what the code does next
  parsed,    \* FDEs read
  table,     \* _table[0 .. _count - 1]; _prev is its last record
  capacity,  \* _capacity
  loc,       \* the location the program is at
  loc_end,   \* the end of its function
  regs,      \* cfa_reg, cfa_off and fp_off
  rem,       \* the remembered ones
  rows,      \* history: the rules the programs give, with their ranges
  spans,     \* history: the ranges of the functions
  target,    \* target_loc of a lookup
  low, high, \* the bounds of the search
  result     \* what findFrameDesc returned: an index into table, or NULL

parser == <<parsed, table, capacity, loc, loc_end, regs, rem, rows, spans>>
search == <<target, low, high, result>>
vars == <<pc, parser, search>>

NULL == 0
NoRegs == [cfa_reg |-> 0, cfa_off |-> 0, fp_off |-> 0, known |-> FALSE]
EntryRegs == [cfa_reg |-> DW_REG_SP, cfa_off |-> DW_STACK_SLOT,
              fp_off |-> DW_SAME_FP, known |-> TRUE]

\* cfa_reg | cfa_off << 8, for registers of eight bits.
Pack(reg, off) == reg + 256 * off

Last == table[Len(table)]

-----------------------------------------------------------------------------
Init ==
  /\ pc = "fde"
  /\ parsed = 0
  /\ table = << >>
  /\ capacity = InitCapacity
  /\ loc = 0 /\ loc_end = 0
  /\ regs = EntryRegs /\ rem = NoRegs
  /\ rows = {} /\ spans = {}
  /\ target = 0 /\ low = 0 /\ high = -1 /\ result = NULL

\* Mutant: a record at the location of the last one is appended to the table.
AddRecordTwice(from, to, r) ==
  LET new == [loc |-> from, loc_end |-> to,
              cfa |-> Pack(r.cfa_reg, r.cfa_off), fp_off |-> r.fp_off]
  IN  IF table # << >> /\ Last.cfa = new.cfa /\ Last.fp_off = new.fp_off
        THEN UNCHANGED <<table, capacity>>
        ELSE /\ table' = Append(table, new)
             /\ capacity' = IF Len(table) >= capacity THEN 2 * capacity ELSE capacity

\* Mutant: the table does not grow.
AddRecordFixed(from, to, r) ==
  LET new == [loc |-> from, loc_end |-> to,
              cfa |-> Pack(r.cfa_reg, r.cfa_off), fp_off |-> r.fp_off]
      again == table # << >> /\ Last.loc = from
      same == table # << >> /\ Last.cfa = new.cfa /\ Last.fp_off = new.fp_off
  IN  /\ table' = IF again THEN [table EXCEPT ![Len(table)] = new]
                  ELSE IF same THEN table ELSE Append(table, new)
      /\ UNCHANGED capacity

\* Mutant: a rule is compared by its CFA only.
AddRecordCfaOnly(from, to, r) ==
  LET new == [loc |-> from, loc_end |-> to,
              cfa |-> Pack(r.cfa_reg, r.cfa_off), fp_off |-> r.fp_off]
      again == table # << >> /\ Last.loc = from
      same == table # << >> /\ Last.cfa = new.cfa
  IN  /\ table' = IF again THEN [table EXCEPT ![Len(table)] = new]
                  ELSE IF same THEN table ELSE Append(table, new)
      /\ capacity' = IF ~again /\ ~same /\ Len(table) >= capacity
                       THEN 2 * capacity ELSE capacity

\* addRecord and addRecordRaw: a second record for one location replaces the
\* first; a record with the rule of the last one is dropped, whatever the
\* function it comes from and wherever that one ends.
AddRecord(from, to, r) ==
  LET new == [loc |-> from, loc_end |-> to,
              cfa |-> Pack(r.cfa_reg, r.cfa_off), fp_off |-> r.fp_off]
      again == table # << >> /\ Last.loc = from
      same == table # << >> /\ Last.cfa = new.cfa /\ Last.fp_off = new.fp_off
  IN  \/ /\ again
         /\ table' = [table EXCEPT ![Len(table)] = new]
         /\ UNCHANGED capacity
      \/ /\ ~again /\ ~same
         /\ table' = Append(table, new)
         /\ capacity' = IF Len(table) >= capacity THEN 2 * capacity ELSE capacity
      \/ /\ ~again /\ same
         /\ UNCHANGED <<table, capacity>>

\* The rule r holds from a location up to another.
Row(from, to, r) ==
  IF from < to
    THEN {[from |-> from, to |-> to,
           cfa |-> Pack(r.cfa_reg, r.cfa_off), fp_off |-> r.fp_off]}
    ELSE {}

\* parseFde: the next function of the header, behind the last one.
ParseFde(start, len) ==
  /\ pc = "fde"
  /\ parsed < MaxFdes
  /\ len > 0 /\ loc_end <= start /\ start + len <= MaxLoc
  /\ loc' = start
  /\ loc_end' = start + len
  /\ regs' = EntryRegs
  /\ rem' = NoRegs
  /\ spans' = spans \cup {<<start, start + len>>}
  /\ pc' = "insn"
  /\ UNCHANGED <<parsed, table, capacity, rows, search>>

\* The DW_CFA_advance_loc family.
Advance(delta) ==
  /\ pc = "insn"
  /\ loc + delta * CodeAlign < loc_end
  /\ AddRecord(loc, loc_end, regs)
  /\ loc' = loc + delta * CodeAlign
  /\ rows' = rows \cup Row(loc, loc', regs)
  /\ UNCHANGED <<pc, parsed, loc_end, regs, rem, spans, search>>

SetRegs(r) ==
  /\ pc = "insn"
  /\ regs' = r
  /\ UNCHANGED <<pc, parsed, table, capacity, loc, loc_end, rem, rows, spans, search>>

DefCfa(reg, off) == SetRegs([regs EXCEPT !.cfa_reg = reg, !.cfa_off = off])
DefCfaRegister(reg) == SetRegs([regs EXCEPT !.cfa_reg = reg])
DefCfaOffset(off) == SetRegs([regs EXCEPT !.cfa_off = off])

\* An expression of eleven bytes is the one of a PLT entry; no other is known.
DefCfaExpression(len) ==
  SetRegs([regs EXCEPT !.cfa_reg = IF len = 11 THEN DW_REG_PLT ELSE DW_REG_INVALID,
                       !.cfa_off = DW_STACK_SLOT])

OffsetFp(n) == SetRegs([regs EXCEPT !.fp_off = n * DataAlign])

\* DW_PC_OFFSET | pc_off << 1
ValExpression(off) ==
  SetRegs(IF off = 0 THEN regs ELSE [regs EXCEPT !.fp_off = 2 * off + 1])

RememberState ==
  /\ pc = "insn"
  /\ rem' = regs
  /\ UNCHANGED <<pc, parsed, table, capacity, loc, loc_end, regs, rows, spans, search>>

RestoreState == rem.known /\ SetRegs(rem)

\* parseInstructions returns; its locals are gone.
Return ==
  /\ loc' = loc_end
  /\ regs' = EntryRegs
  /\ rem' = NoRegs
  /\ pc' = "end"
  /\ UNCHANGED <<parsed, loc_end, spans, search>>

\* The end of the program, or DW_CFA_nop or DW_CFA_set_loc, which end it.
LastRow ==
  /\ pc = "insn"
  /\ AddRecord(loc, loc_end, regs)
  /\ rows' = rows \cup Row(loc, loc_end, regs)
  /\ Return

\* An instruction the parser does not know: it gives up on the function.
UnknownInstruction ==
  /\ pc = "insn"
  /\ Return
  /\ UNCHANGED <<table, capacity, rows>>

\* parseFde closes the function with the rule of a function's entry.
EndFde ==
  /\ pc = "end"
  /\ AddRecord(loc_end, loc_end, EntryRegs)
  /\ parsed' = parsed + 1
  /\ pc' = "fde"
  /\ UNCHANGED <<loc, loc_end, regs, rem, rows, spans, search>>

\* The table is handed to the code cache (setDwarfTable).
Parsed ==
  /\ pc = "fde"
  /\ pc' = "ready"
  /\ UNCHANGED <<parser, search>>

-----------------------------------------------------------------------------
(* findFrameDesc.                                                            *)

\* Mutant: the search starts with the place behind the last record.
FindFrameDescOpen(t) ==
  /\ pc = "ready"
  /\ target' = t
  /\ low' = 0
  /\ high' = Len(table)
  /\ result' = NULL
  /\ pc' = "search"
  /\ UNCHANGED parser

FindFrameDesc(t) ==
  /\ pc = "ready"
  /\ target' = t
  /\ low' = 0
  /\ high' = Len(table) - 1
  /\ result' = NULL
  /\ pc' = "search"
  /\ UNCHANGED parser

\* Mutant: the lower bound stays at the middle.
SearchStepStays ==
  /\ pc = "search"
  /\ low <= high
  /\ LET mid == (low + high) \div 2
         here == table[mid + 1].loc
     IN  \/ here < target /\ low' = mid /\ UNCHANGED <<pc, high, result>>
         \/ here > target /\ high' = mid - 1 /\ UNCHANGED <<pc, low, result>>
         \/ here = target /\ result' = mid + 1 /\ pc' = "ready" /\ UNCHANGED <<low, high>>
  /\ UNCHANGED <<parser, target>>

\* One round of the loop.  table[mid + 1] is _dwarf_table[mid].
SearchStep ==
  /\ pc = "search"
  /\ low <= high
  /\ LET mid == (low + high) \div 2
         here == table[mid + 1].loc
     IN  \/ here < target /\ low' = mid + 1 /\ UNCHANGED <<pc, high, result>>
         \/ here > target /\ high' = mid - 1 /\ UNCHANGED <<pc, low, result>>
         \/ here = target /\ result' = mid + 1 /\ pc' = "ready" /\ UNCHANGED <<low, high>>
  /\ UNCHANGED <<parser, target>>

\* Mutant: the end of the range of the record found is not looked at.
SearchEndUnbounded ==
  /\ pc = "search"
  /\ low > high
  /\ result' = IF low <= 0 THEN NULL ELSE low
  /\ pc' = "ready"
  /\ UNCHANGED <<parser, target, low, high>>

SearchEnd ==
  /\ pc = "search"
  /\ low > high
  /\ result' = IF low <= 0 \/ target > table[low].loc_end THEN NULL ELSE low
  /\ pc' = "ready"
  /\ UNCHANGED <<parser, target, low, high>>

-----------------------------------------------------------------------------
Instruction ==
  \/ \E delta \in Deltas : Advance(delta)
  \/ \E reg \in CfaRegs, off \in CfaOffs : DefCfa(reg, off)
  \/ \E reg \in CfaRegs : DefCfaRegister(reg)
  \/ \E off \in CfaOffs : DefCfaOffset(off)
  \/ \E len \in ExprLens : DefCfaExpression(len)
  \/ \E n \in FpOffs : OffsetFp(n)
  \/ \E off \in PcOffs : ValExpression(off)
  \/ RememberState \/ RestoreState

Parse ==
  \/ \E start, len \in 0..MaxLoc : ParseFde(start, len)
  \/ Instruction
  \/ LastRow \/ UnknownInstruction \/ EndFde \/ Parsed

Lookup == SearchStep \/ SearchEnd

Next == Parse \/ Lookup \/ \E t \in 0..MaxLoc : FindFrameDesc(t)

Spec == Init /\ [][Next]_vars

\* A lookup that started is a loop of the calling thread: it runs on.
FairSpec == Spec /\ WF_vars(Lookup)

-----------------------------------------------------------------------------
(* Properties.                                                               *)

Regs == [cfa_reg : 0..255, cfa_off : Int, fp_off : Int, known : BOOLEAN]
Record == [loc : Nat, loc_end : Nat, cfa : Int, fp_off : Int]

TypeOK ==
  /\ pc \in {"fde", "insn", "end", "ready", "search"}
  /\ parsed \in 0..MaxFdes
  /\ table \in Seq(Record)
  /\ capacity \in Nat \ {0}
  /\ loc \in 0..MaxLoc /\ loc_end \in 0..MaxLoc
  /\ regs \in Regs /\ rem \in Regs
  /\ target \in 0..MaxLoc
  /\ low \in Nat /\ high \in -1..(Len(table) - 1)
  /\ result \in 0..Len(table)

\* The table is sorted by location, each location once, while it is built and
\* after: no qsort follows (dwarf.cpp:337-342 against codeCache.cpp:216-225).
TableSorted ==
  \A i, j \in 1..Len(table) : i < j => table[i].loc < table[j].loc

\* No record is written behind the memory of the table, however many
\* functions follow each other (dwarf.cpp:345-350).
TableFits == Len(table) <= capacity

\* The records whose location is not behind the target, and the last of them.
Floor == {i \in 1..Len(table) : table[i].loc <= target}
IsFloor(i) == i \in Floor /\ \A j \in Floor : j <= i

\* A finished lookup found the record at or before the pc, the last one, and
\* only if the pc is not behind the end of its function.
FoundIsFloor ==
  pc = "ready" /\ result # NULL => IsFloor(result) /\ target <= table[result].loc_end

\* The rule a lookup gives is the rule the unwinding program gives there, and
\* a pc outside of every function gets none.
LookupSound ==
  pc = "ready" /\ result # NULL =>
    /\ \E s \in spans : s[1] <= target /\ target <= s[2]
    /\ \A r \in rows : r.from <= target /\ target < r.to =>
         r.cfa = table[result].cfa /\ r.fp_off = table[result].fp_off

\* A pc for which a program gives a rule is found ("async signal-safe DWARF call stack
\* unwinding", internal/async-profiler/README.md:3).  A lookup in an
\* empty table is left out: a library without a table is not looked up.
LookupComplete ==
  pc = "ready" /\ high >= 0 /\ result = NULL =>
    ~\E r \in rows : r.from <= target /\ target < r.to

\* The binary search ends.
LookupReturns == pc = "search" ~> pc = "ready"
=============================================================================
