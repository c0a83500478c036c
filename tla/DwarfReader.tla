------------------------------ MODULE DwarfReader ------------------------------
(***************************************************************************)
(* The bytes FrameTable's instructions are read from: the getters of       *)
(* dwarf.h, the operands parseInstructions reads for each opcode, the      *)
(* expressions of parseExpression and the factors of parseCie.             *)
(*                                                                         *)
(* A compiler chooses instructions, encodes each, LEB128 numbers with or   *)
(* without padding, and means an update of the rule by it; the parser gets *)
(* only the bytes.  An opcode is one byte and stands beside its operands;  *)
(* numbers have Width bits in place of 32.  Shifts by more than the width  *)
(* are undefined in C++; here no number is padded as far.                  *)
(***************************************************************************)
EXTENDS FrameTable, FiniteSetsExt

CONSTANTS
  Width,          \* bits of u32 and int
  MAX_FRAME_SIZE, \* of the walker: no frame pointer is further from the CFA
  Instructions,   \* what a compiler emits: an opcode with the low bits of its
                  \* byte, operands, an expression, and the update it means
  Augmentations,  \* strings a CIE may have, without the final zero
  Paddings,       \* bytes a LEB128 number has more than it needs
  MaxInsns        \* bound: instructions of a function read from bytes

DW_REG_FP == 6
DW_REG_PC == 16

ASSUME ReaderAssumption ==
  /\ Width \in Nat \ {0} /\ MAX_FRAME_SIZE \in Nat \ {0} /\ Paddings \subseteq Nat /\ MaxInsns \in Nat
  /\ \A a \in Augmentations : a \in Seq(1..255)

VARIABLES
  bytes,    \* a program is read from bytes, or all are chosen as in FrameTable
  insns,    \* instructions read of it
  meant,    \* the rule the compiler means, in the words of StackWalk, and the
            \* one it has remembered
  lost,     \* history: the parser has skipped a change of the frame pointer
  insync    \* history: the parser has read what was encoded, to its last byte

reader == <<bytes, insns, meant, lost, insync>>
readerVars == <<vars, reader>>
-----------------------------------------------------------------------------
(* Encoding.                                                                 *)

Size == [u8 |-> 1, s8 |-> 1, u16 |-> 2, s16 |-> 2, u32 |-> 4]

\* The least number of bytes that holds a value.
MaxLebSize == Width \div 7 + 1
LebSize(o) ==
  Min({k \in 1..MaxLebSize : IF o.kind = "sleb" THEN -64 * 128^(k - 1) <= o.value
                                                 /\ o.value < 64 * 128^(k - 1)
                                           ELSE o.value < 128^k})

Leb(n, k) == [j \in 1..k |-> ((n \div 128^(j - 1)) % 128) + (IF j < k THEN 128 ELSE 0)]

OperandBytes(o, padding) ==
  CASE o.kind \in {"leb", "sleb"} -> Leb(o.value, LebSize(o) + padding)
    [] o.kind \in DOMAIN Size -> [j \in 1..Size[o.kind] |-> (o.value \div 256^(j - 1)) % 256]
    [] o.kind = "block" -> Leb(o.value, LebSize(o) + padding) \o [j \in 1..o.value |-> 0]

\* One operand behind the other.
Encode(operands, padding) ==
  LET upto[n \in 0..Len(operands)] ==
        IF n = 0 THEN << >> ELSE upto[n - 1] \o OperandBytes(operands[n], padding)
  IN  upto[Len(operands)]

-----------------------------------------------------------------------------
(* The getters.  b are the bytes, p is _ptr.                                 *)

Signed(n) == LET m == n % 2^Width IN IF m >= 2^(Width - 1) THEN m - 2^Width ELSE m

\* The last byte of the number at p.
LebEnd(b, p) == Min({j \in p..Len(b) : b[j] < 128})

\* The number whose digits are in n bytes, the lowest first.
Number(b, p, n, base) ==
  LET upto[k \in 0..n] ==
        IF k = 0 THEN 0 ELSE upto[k - 1] + (b[p + k - 1] % base) * base^(k - 1)
  IN  upto[n]

LebBits(b, p) == Number(b, p, LebEnd(b, p) - p + 1, 128)

getLeb(b, p) == LebBits(b, p) % 2^Width

getSLeb(b, p) ==
  LET shift == 7 * (LebEnd(b, p) - p + 1)
  IN  IF b[LebEnd(b, p)] >= 64 /\ shift < Width THEN Signed(LebBits(b, p) - 2^shift)
                                                ELSE Signed(LebBits(b, p))

Fixed(b, p, n) == Number(b, p, n, 256)

\* What one getter returns, and _ptr after it; of a block the length.  "skip" is
\* skipLeb.
Get(b, got, how) ==
  LET p == got.ptr
      u == IF how \in DOMAIN Size THEN Fixed(b, p, Size[how]) ELSE 0
  IN  CASE how = "leb"   -> [ptr |-> LebEnd(b, p) + 1, values |-> Append(got.values, getLeb(b, p))]
        [] how = "sleb"  -> [ptr |-> LebEnd(b, p) + 1, values |-> Append(got.values, getSLeb(b, p))]
        [] how = "skip"  -> [ptr |-> LebEnd(b, p) + 1, values |-> Append(got.values, 0)]
        [] how = "block" -> [ptr |-> LebEnd(b, p) + 1 + getLeb(b, p),
                             values |-> Append(got.values, getLeb(b, p))]
        [] how \in DOMAIN Size ->
             [ptr |-> p + Size[how],
              values |-> Append(got.values,
                IF how \in {"s8", "s16"} /\ 2 * u >= 256^Size[how] THEN u - 256^Size[how] ELSE u)]

GetAll(b, hows) ==
  LET after[n \in 0..Len(hows)] ==
        IF n = 0 THEN [ptr |-> 1, values |-> << >>] ELSE Get(b, after[n - 1], hows[n])
  IN  after[Len(hows)]

\* Mutant: one operand is skipped where there are two.
SkippingOne(op) == <<"skip">>

\* The opcodes whose operands parseInstructions only skips.
Skipping(op) ==
  CASE op \in {"restore_extended", "undefined", "same_value", "GNU_args_size"} -> <<"skip">>
    [] op \in {"register", "val_offset", "val_offset_sf"} -> <<"skip", "skip">>
    [] op = "expression" -> <<"skip", "block">>

\* The getters parseInstructions and parseExpression call for an opcode; of another
\* register than the frame pointer the second number is skipped.
Reads(op) ==
  CASE op \in {"remember_state", "restore_state", "advance_loc", "restore", "minus", "plus"} -> << >>
    [] op \in {"advance_loc1", "const1u"} -> <<"u8">>
    [] op \in {"advance_loc2", "const2u"} -> <<"u16">>
    [] op \in {"advance_loc4", "const4u", "const4s"} -> <<"u32">>
    [] op = "const1s" -> <<"s8">>
    [] op = "const2s" -> <<"s16">>
    [] op \in {"offset_extended", "def_cfa"} -> <<"leb", "leb">>
    [] op \in {"offset_extended_sf", "def_cfa_sf"} -> <<"leb", "sleb">>
    [] op \in {"def_cfa_register", "def_cfa_offset", "offset", "constu"} -> <<"leb">>
    [] op \in {"def_cfa_offset_sf", "breg_pc", "consts"} -> <<"sleb">>
    [] op = "def_cfa_expression" -> <<"block">>
    [] op = "val_expression" -> <<"leb", "block">>
    [] op \in {"restore_extended", "undefined", "same_value", "GNU_args_size", "register",
               "val_offset", "val_offset_sf", "expression"} -> Skipping(op)

\* parseExpression, over operations and the values read for them: an offset
\* from the pc and one number are kept, both ints, not a stack.
Operation(st, op, values) ==
  CASE op = "breg_pc" -> [st EXCEPT !.pc_off = values[1]]
    [] op = "minus"   -> [st EXCEPT !.pc_off = Signed(@ - st.tos)]
    [] op = "plus"    -> [st EXCEPT !.pc_off = Signed(@ + st.tos)]
    [] op \notin {"breg_pc", "minus", "plus", "deref"} -> [st EXCEPT !.tos = Signed(values[1])]
    [] op = "deref"   -> [st EXCEPT !.known = FALSE]

\* Each operation is read from bytes of its own; the length that ends the loop is
\* the number of operations.
parseExpression(operations, padding) ==
  LET read(o) == IF o.op = "deref" THEN << >>
                 ELSE GetAll(Encode(o.operands, padding), Reads(o.op)).values
      after[n \in 0..Len(operations)] ==
        IF n = 0 THEN [pc_off |-> 0, tos |-> 0, known |-> TRUE]
        ELSE LET o == operations[n]
             IN  IF after[n - 1].known THEN Operation(after[n - 1], o.op, read(o)) ELSE after[n - 1]
      last == after[Len(operations)]
  IN  IF last.known THEN last.pc_off ELSE 0

\* parseCie: id and version, the augmentation up to its zero, the two factors.
ParseCie(b) ==
  LET factors == Min({j \in 6..Len(b) : b[j] = 0}) + 1
  IN  <<getLeb(b, factors), getSLeb(b, LebEnd(b, factors) + 1)>>

Factors == <<[kind |-> "leb", value |-> CodeAlign], [kind |-> "sleb", value |-> DataAlign]>>

CieBytes(augmentation, padding) ==
  <<0, 0, 0, 0, 1>> \o augmentation \o <<0>> \o Encode(Factors, padding)

-----------------------------------------------------------------------------
(* parseInstructions.                                                        *)

\* Mutant: the product stays unsigned.
ScaledUnsigned(n) == (n * DataAlign) % 2^Width

\* An unsigned number times data_align, kept in an int.
Scaled(n) == Signed(n * DataAlign)

SaveFp(reg, n) == SetRegs(IF reg = DW_REG_FP THEN [regs EXCEPT !.fp_off = Scaled(n)] ELSE regs)

\* Mutant: the rule is not recorded before a location that has an operand.
AdvanceLocUnrecorded(op, bits, v) ==
  \/ op = "advance_loc" /\ Advance(bits)
  \/ /\ op # "advance_loc"
     /\ pc = "insn" /\ loc + v[1] * CodeAlign < loc_end
     /\ loc' = loc + v[1] * CodeAlign
     /\ rows' = rows \cup Row(loc, loc', regs)
     /\ UNCHANGED <<pc, parsed, table, capacity, loc_end, regs, rem, spans, search>>

AdvanceLoc(op, bits, v) ==
  \/ op = "advance_loc" /\ Advance(bits)
  \/ op # "advance_loc" /\ Advance(v[1])

\* The case of an opcode, with the low bits of its byte and the values read;
\* caller is what parseExpression returns.
Execute(op, bits, v, caller) ==
  \/ op \in {"advance_loc", "advance_loc1", "advance_loc2", "advance_loc4"} /\ AdvanceLoc(op, bits, v)
  \/ op = "offset" /\ SaveFp(bits, v[1])
  \/ op \in {"offset_extended", "offset_extended_sf"} /\ SaveFp(v[1], v[2])
  \/ op = "def_cfa" /\ DefCfa(v[1], v[2])
  \/ op = "def_cfa_sf" /\ DefCfa(v[1], Scaled(v[2]))
  \/ op = "def_cfa_register" /\ DefCfaRegister(v[1])
  \/ op = "def_cfa_offset" /\ DefCfaOffset(v[1])
  \/ op = "def_cfa_offset_sf" /\ DefCfaOffset(Scaled(v[1]))
  \/ op = "def_cfa_expression" /\ DefCfaExpression(v[1])
  \/ op = "val_expression" /\ v[1] = DW_REG_PC /\ ValExpression(caller)
  \/ op = "val_expression" /\ v[1] # DW_REG_PC /\ SetRegs(regs)
  \/ op = "remember_state" /\ RememberState
  \/ op = "restore_state" /\ RestoreState
  \/ /\ op \in {"restore", "restore_extended", "undefined", "same_value", "register",
                "val_offset", "val_offset_sf", "expression", "GNU_args_size"}
     /\ SetRegs(regs)

\* A function is entered with the return address on the stack.
EntryRule == [reg |-> "sp", off |-> DW_STACK_SLOT, how |-> "same", by |-> 0]

\* What the standard says of an instruction: a state is remembered and
\* restored, or some registers of the rule change.
Meant(i) ==
  CASE i.op = "remember_state" -> [meant EXCEPT !.rem = meant.now]
    [] i.op = "restore_state"  -> [meant EXCEPT !.now = meant.rem]
    [] OTHER -> [meant EXCEPT !.now = [r \in DOMAIN @ |-> IF r \in DOMAIN i.means THEN i.means[r]
                                                                                  ELSE @[r]]]

CfaReg(cfa) ==
  CASE cfa % 256 = DW_REG_SP  -> "sp"
    [] cfa % 256 = DW_REG_FP  -> "fp"
    [] cfa % 256 = DW_REG_PLT -> "plt"
    [] OTHER -> "none"

\* The walker loads no frame pointer from a frame too large for it.
Near(fp_off) == fp_off < MAX_FRAME_SIZE /\ fp_off > -MAX_FRAME_SIZE

FpRule(fp_off) ==
  CASE fp_off # DW_SAME_FP /\ fp_off % 2 = 1 -> "pc"
    [] fp_off # DW_SAME_FP /\ fp_off % 2 = 0 /\ Near(fp_off) -> "saved"
    [] fp_off = DW_SAME_FP \/ (fp_off % 2 = 0 /\ ~Near(fp_off)) -> "same"

\* How stepStackContext takes a record apart.
Unpacked(cfa, fp_off) ==
  [reg |-> CfaReg(cfa), off |-> Signed(cfa) \div 256, how |-> FpRule(fp_off),
   by |-> CASE FpRule(fp_off) = "pc" -> fp_off \div 2
            [] FpRule(fp_off) = "saved" -> fp_off
            [] FpRule(fp_off) = "same" -> 0]

\* An instruction in one of its encodings, and what is read of it: the values,
\* and whether they are the ones encoded and end where it ends.
Reading(i, padding) ==
  LET b == Encode(i.operands, padding)
      got == GetAll(b, Reads(i.op))
  IN  [insn |-> i, values |-> got.values, caller |-> parseExpression(i.expression, padding),
       exact |-> /\ got.ptr = Len(b) + 1
                 /\ \A j \in DOMAIN i.operands :
                      Reads(i.op)[j] # "skip" => got.values[j] = i.operands[j].value]

Readings == {Reading(i, padding) : i \in Instructions, padding \in Paddings}

CieExact ==
  \A a \in Augmentations, padding \in Paddings :
    ParseCie(CieBytes(a, padding)) = <<CodeAlign, DataAlign>>

\* States are not remembered twice: the parser has room for one.
ReadInstruction(r) ==
  /\ insns < MaxInsns
  /\ r.insn.op = "remember_state" => ~rem.known
  /\ Execute(r.insn.op, r.insn.bits, r.values, r.caller)
  /\ insns' = insns + 1
  /\ meant' = Meant(r.insn)
  /\ lost' = (lost \/ (r.insn.op \in {"restore", "restore_extended", "same_value"}
                        /\ "how" \in DOMAIN r.insn.means))
  /\ insync' = (insync /\ r.exact)
  /\ UNCHANGED bytes

\* parseFde reads the CIE before the first record is added.
ReadFde(start, len) ==
  /\ parsed = 0
  /\ ParseFde(start, len)
  /\ insync' = CieExact
  /\ UNCHANGED <<bytes, insns, meant, lost>>

ReaderInit ==
  /\ Init
  /\ bytes \in BOOLEAN
  /\ insns = 0
  /\ meant = [now |-> EntryRule, rem |-> EntryRule] /\ lost = FALSE /\ insync = TRUE

\* The table is complete; FrameTable has the lookups.
Complete == pc = "ready" /\ UNCHANGED vars

ReadBytes ==
  \/ \E start, len \in 0..MaxLoc : ReadFde(start, len)
  \/ \E r \in Readings : ReadInstruction(r)
  \/ (LastRow \/ UnknownInstruction \/ EndFde \/ Parsed \/ Complete) /\ UNCHANGED reader

ReaderNext ==
  \/ ~bytes /\ Next /\ UNCHANGED reader
  \/ bytes /\ ReadBytes

ReaderSpec ==
  ReaderInit /\ [][ReaderNext]_readerVars /\ WF_readerVars(~bytes /\ Lookup /\ UNCHANGED reader)

-----------------------------------------------------------------------------
(* What properties rely on beyond the assumptions.                           *)

\* A number fits its encoding.
OperandRight(o) ==
  CASE o.kind \in {"leb", "block"} -> o.value \in 0..(2^Width - 1)
    [] o.kind = "sleb" -> o.value \in -2^(Width - 1)..(2^(Width - 1) - 1)
    [] o.kind \in {"s8", "s16"} -> LET half == 128 * 256^(Size[o.kind] - 1)
                                   IN  o.value \in -half..(half - 1)
    [] o.kind \in {"u8", "u16", "u32"} -> o.value \in Nat /\ o.value \div 256^(Size[o.kind] - 1) < 256

\* The operands of each opcode, as the tables of the standard have them, the number
\* of const4s by its bits.
Takes ==
  [advance_loc |-> << >>, advance_loc1 |-> <<"u8">>, advance_loc2 |-> <<"u16">>,
   advance_loc4 |-> <<"u32">>,
   def_cfa |-> <<"leb", "leb">>, def_cfa_sf |-> <<"leb", "sleb">>, def_cfa_register |-> <<"leb">>,
   def_cfa_offset |-> <<"leb">>, def_cfa_offset_sf |-> <<"sleb">>, def_cfa_expression |-> <<"block">>,
   undefined |-> <<"leb">>, same_value |-> <<"leb">>, register |-> <<"leb", "leb">>,
   offset |-> <<"leb">>, offset_extended |-> <<"leb", "leb">>, offset_extended_sf |-> <<"leb", "sleb">>,
   val_offset |-> <<"leb", "leb">>, val_offset_sf |-> <<"leb", "sleb">>,
   expression |-> <<"leb", "block">>, val_expression |-> <<"leb", "block">>,
   restore |-> << >>, restore_extended |-> <<"leb">>,
   remember_state |-> << >>, restore_state |-> << >>, GNU_args_size |-> <<"leb">>,
   breg_pc |-> <<"sleb">>, const1u |-> <<"u8">>, const1s |-> <<"s8">>, const2u |-> <<"u16">>,
   const2s |-> <<"s16">>, const4u |-> <<"u32">>, const4s |-> <<"u32">>, constu |-> <<"leb">>,
   consts |-> <<"sleb">>, plus |-> << >>, minus |-> << >>]

\* An instruction, or an operation of an expression, has the operands its opcode takes.
OperandsRight(i) ==
  /\ i.op \in DOMAIN Takes /\ Len(i.operands) = Len(Takes[i.op])
  /\ i.operands \in Seq([kind : {"leb", "sleb", "block", "u8", "s8", "u16", "s16", "u32"}, value : Int])
  /\ \A j \in DOMAIN i.operands : i.operands[j].kind = Takes[i.op][j] /\ OperandRight(i.operands[j])

Value(i, j) == i.operands[j].value

\* What the standard says of an expression of a caller's pc; 0 is no rule.
CallerPc(e) ==
  CASE Len(e) = 1 -> Value(e[1], 1)
    [] Len(e) = 2 -> 0
    [] Len(e) = 3 /\ e[3].op = "plus" -> Value(e[1], 1) + Value(e[2], 1)
    [] Len(e) = 3 /\ e[3].op = "minus" -> Value(e[1], 1) - Value(e[2], 1)

\* The values of an int.
Ints == -2^(Width - 1)..(2^(Width - 1) - 1)

\* The expressions of a caller's pc: an offset from the pc, an offset with a constant
\* added or taken away, which fits an int, or one with an operation the parser does
\* not know.
Constants == {"const1u", "const1s", "const2u", "const2s", "const4u", "const4s", "constu", "consts"}
ExpressionRight(e) ==
  /\ Len(e) \in 1..3 /\ e[1].op = "breg_pc" /\ OperandsRight(e[1])
  /\ Len(e) = 2 => e[2].op = "deref"
  /\ Len(e) = 3 => /\ e[2].op \in Constants /\ OperandsRight(e[2])
                   /\ e[3].op \in {"plus", "minus"} /\ OperandsRight(e[3])
                   /\ {Value(e[2], 1), CallerPc(e)} \subseteq Ints

RegName(reg) ==
  CASE reg = DW_REG_SP -> "sp" [] reg = DW_REG_FP -> "fp" [] reg \notin {DW_REG_SP, DW_REG_FP} -> "none"

NoUpdate == << >>
SavedAt(reg, n) == IF reg = DW_REG_FP THEN [how |-> "saved", by |-> n * DataAlign] ELSE NoUpdate
Restored(reg) == IF reg = DW_REG_FP THEN [how |-> "same", by |-> 0] ELSE NoUpdate

\* The update of the rule that the standard gives an instruction.  The expression
\* of eleven bytes for the CFA is that of a PLT; one for the pc gives a distance.
Standard(i) ==
  CASE i.op = "def_cfa" -> [reg |-> RegName(Value(i, 1)), off |-> Value(i, 2)]
    [] i.op = "def_cfa_sf" -> [reg |-> RegName(Value(i, 1)), off |-> Value(i, 2) * DataAlign]
    [] i.op = "def_cfa_register" -> [reg |-> RegName(Value(i, 1))]
    [] i.op = "def_cfa_offset" -> [off |-> Value(i, 1)]
    [] i.op = "def_cfa_offset_sf" -> [off |-> Value(i, 1) * DataAlign]
    [] i.op = "def_cfa_expression" ->
         [reg |-> IF Value(i, 1) = 11 THEN "plt" ELSE "none", off |-> DW_STACK_SLOT]
    [] i.op = "offset" -> SavedAt(i.bits, Value(i, 1))
    [] i.op \in {"offset_extended", "offset_extended_sf"} -> SavedAt(Value(i, 1), Value(i, 2))
    [] i.op = "restore" -> Restored(i.bits)
    [] i.op \in {"restore_extended", "same_value"} -> Restored(Value(i, 1))
    [] i.op = "val_expression" ->
         IF Value(i, 1) = DW_REG_PC /\ CallerPc(i.expression) # 0
           THEN [how |-> "pc", by |-> CallerPc(i.expression)] ELSE NoUpdate
    [] i.op \in {"advance_loc", "advance_loc1", "advance_loc2", "advance_loc4", "remember_state",
                 "restore_state", "undefined", "register", "val_offset", "val_offset_sf",
                 "expression", "GNU_args_size"} -> NoUpdate

\* The operands of FrameTable are those of the instructions.
OperandsKnown(i) ==
  /\ i.op = "advance_loc" => i.bits \in Deltas
  /\ i.op \in {"advance_loc1", "advance_loc2", "advance_loc4"} => Value(i, 1) \in Deltas
  /\ i.op \in {"def_cfa", "def_cfa_sf", "def_cfa_register"} => Value(i, 1) \in CfaRegs
  /\ i.op = "def_cfa" => Value(i, 2) \in CfaOffs
  /\ i.op = "def_cfa_sf" => Value(i, 2) * DataAlign \in CfaOffs
  /\ i.op = "def_cfa_offset" => Value(i, 1) \in CfaOffs
  /\ i.op = "def_cfa_offset_sf" => Value(i, 1) * DataAlign \in CfaOffs
  /\ i.op = "def_cfa_expression" => Value(i, 1) \in ExprLens
  /\ i.op = "offset" /\ i.bits = DW_REG_FP => Value(i, 1) \in FpOffs
  /\ i.op \in {"offset_extended", "offset_extended_sf"} /\ Value(i, 1) = DW_REG_FP =>
       Value(i, 2) \in FpOffs
  /\ i.op = "val_expression" /\ Value(i, 1) = DW_REG_PC =>
       ExpressionRight(i.expression) /\ CallerPc(i.expression) \in PcOffs

InstructionsRight ==
  \A i \in Instructions : OperandsRight(i) /\ OperandsKnown(i) /\ i.means = Standard(i)

\* No register has the number that stands for a PLT, an offset of the CFA fits into 24
\* bits of a record, the place of the frame pointer is even and fits into an int, and
\* so does the distance to a caller's pc with its mark.  A frame pointer is saved
\* inside of its frame, and the walker leaves at a frame of MAX_FRAME_SIZE or more.
RulesFit ==
  /\ DW_REG_PLT \notin CfaRegs
  /\ \A off \in CfaOffs \cup {DW_STACK_SLOT} :
       -2^(Width - 1) <= 256 * off /\ 256 * off + 255 < 2^(Width - 1)
  /\ \A n \in FpOffs :
       LET off == n * DataAlign
       IN  off \in Ints /\ off % 2 = 0 /\ off # DW_SAME_FP /\ Near(off)
  /\ \A off \in PcOffs : 2 * off + 1 \in Ints /\ 2 * off + 1 # DW_SAME_FP

\* The factors of the CIE fit into 32 bits.
FactorsFit == \A j \in 1..2 : OperandRight(Factors[j])

\* What a power is, where it is used.
PowersRight ==
  /\ 2^(Width - 1) \in Nat \ {0} /\ 2^Width = 2 * 2^(Width - 1)
  /\ 2^Width <= 128^MaxLebSize
  /\ 128^0 = 1 /\ 256^0 = 1
  /\ \A k \in 1..3 : 256^k = 256 * 256^(k - 1)
  /\ \A padding \in Paddings \cup {0} : \A k \in 1..(MaxLebSize + padding) :
       /\ 128^k = 128 * 128^(k - 1)
       /\ IF 7 * k < Width THEN 2^(7 * k) = 128^k ELSE 128^k % 2^Width = 0

-----------------------------------------------------------------------------
(* Properties.                                                               *)

\* Every instruction with the operands the standard gives its opcode, and every
\* CIE, is read to its last byte, and for the values the parser keeps, however the
\* numbers are padded: one operand too few, or one skipped with the wrong getter,
\* and the rest of the function is read as other instructions (dwarf.cpp:159-279).
ReadInSync == insync

\* The rule the walker takes from a record with the present registers is the
\* one the compiler means, whichever of the encodings it chose and although a
\* record has one int for the CFA and one for the frame pointer.  For the
\* frame pointer this holds until it is restored, which the parser ignores: it
\* keeps the place where the old value was saved (dwarf.cpp:276).
RuleMeant ==
  pc = "insn" /\ bytes =>
    LET rule == Unpacked(Pack(regs.cfa_reg, regs.cfa_off), regs.fp_off)
    IN  /\ rule.reg = meant.now.reg /\ rule.off = meant.now.off
        /\ lost \/ (rule.how = meant.now.how /\ rule.by = meant.now.by)

\* The parser of bytes implements FrameTable: whatever encoding a compiler
\* chooses, each of its steps is a step of the instructions there, with the
\* operands that the proofs about them assume.
TableRefined == [][bytes => Next]_vars
=============================================================================
