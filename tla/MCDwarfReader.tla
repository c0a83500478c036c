----------------------------- MODULE MCDwarfReader -----------------------------
(***************************************************************************)
(* Instructions for DwarfReader that come to the operands MCFrameTable     *)
(* chooses, in every encoding there is for them, and the ones the parser   *)
(* skips.                                                                  *)
(***************************************************************************)
EXTENDS DwarfReader, MCFrameTable, TLC

Op(kind, value) == [kind |-> kind, value |-> value]
Insn(op, bits, operands, means) ==
  [op |-> op, bits |-> bits, operands |-> operands, means |-> means, expression |-> << >>]
Nothing == << >>
Expr(op, operands) == [op |-> op, operands |-> operands]

\* The frame pointer is saved two slots below the CFA, another register three.
Fp(off) == [how |-> "saved", by |-> off]
Same == [how |-> "same", by |-> 0]
Pc(off) == [how |-> "pc", by |-> off]
rbx == 3
Cfa16 == [reg |-> "sp", off |-> 16]

Advances ==
  {Insn("advance_loc", 1, << >>, Nothing), Insn("advance_loc1", 0, <<Op("u8", 0)>>, Nothing),
   Insn("advance_loc2", 0, <<Op("u16", 1)>>, Nothing), Insn("advance_loc4", 0, <<Op("u32", 1)>>, Nothing)}
Cfas ==
  {Insn("def_cfa", 0, <<Op("leb", DW_REG_SP), Op("leb", 16)>>, Cfa16),
   Insn("def_cfa_sf", 0, <<Op("leb", DW_REG_SP), Op("sleb", -2)>>, Cfa16),
   Insn("def_cfa_register", 0, <<Op("leb", DW_REG_SP)>>, [reg |-> "sp"]),
   Insn("def_cfa_offset", 0, <<Op("leb", 16)>>, [off |-> 16]),
   Insn("def_cfa_offset_sf", 0, <<Op("sleb", -2)>>, [off |-> 16]),
   Insn("def_cfa_expression", 0, <<Op("block", 11)>>,
        [reg |-> "plt", off |-> DW_STACK_SLOT])}
Saves ==
  {Insn("offset", DW_REG_FP, <<Op("leb", 2)>>, Fp(-16)),
   Insn("offset", rbx, <<Op("leb", 200)>>, Nothing),
   Insn("offset_extended", 0, <<Op("leb", DW_REG_FP), Op("leb", 2)>>, Fp(-16)),
   Insn("offset_extended_sf", 0, <<Op("leb", DW_REG_FP), Op("sleb", 2)>>, Fp(-16)),
   Insn("offset_extended", 0, <<Op("leb", DW_REG_PC), Op("leb", 1)>>, Nothing),
   Insn("offset_extended_sf", 0, <<Op("leb", rbx), Op("sleb", -100)>>, Nothing),
   Insn("restore", DW_REG_FP, << >>, Same),
   Insn("restore_extended", 0, <<Op("leb", rbx)>>, Nothing)}
Skipped ==
  {Insn("undefined", 0, <<Op("leb", DW_REG_PC)>>, Nothing),
   Insn("same_value", 0, <<Op("leb", rbx)>>, Nothing),
   Insn("register", 0, <<Op("leb", rbx), Op("leb", 300)>>, Nothing),
   Insn("val_offset", 0, <<Op("leb", rbx), Op("leb", 130)>>, Nothing),
   Insn("val_offset_sf", 0, <<Op("leb", rbx), Op("sleb", -5)>>, Nothing),
   Insn("expression", 0, <<Op("leb", rbx), Op("block", 3)>>, Nothing),
   Insn("val_expression", 0, <<Op("leb", rbx), Op("block", 2)>>, Nothing),
   Insn("GNU_args_size", 0, <<Op("leb", 128)>>, Nothing)}
States == {Insn("remember_state", 0, << >>, Nothing), Insn("restore_state", 0, << >>, Nothing)}

\* The caller's pc lies two bytes before the function's, added up in several
\* ways; an operation the parser does not know yields no rule.
Caller(expression, means) ==
  [Insn("val_expression", 0, <<Op("leb", DW_REG_PC), Op("block", Len(expression))>>, means) EXCEPT
     !.expression = expression]
Breg(n) == Expr("breg_pc", <<Op("sleb", n)>>)
Add(op, kind, n, sum) == <<Breg(-2 - n), Expr(op, <<Op(kind, n)>>), Expr(sum, << >>)>>
Callers ==
  {Caller(<<Breg(-2)>>, Pc(-2)), Caller(<<Breg(-2), Expr("deref", << >>)>>, Nothing),
   Caller(Add("const1u", "u8", 200, "plus"), Pc(-2)), Caller(Add("const1s", "s8", -100, "plus"), Pc(-2)),
   Caller(Add("const2u", "u16", 300, "plus"), Pc(-2)), Caller(Add("const2s", "s16", -300, "plus"), Pc(-2)),
   Caller(Add("const4u", "u32", 300, "plus"), Pc(-2)), Caller(Add("const4s", "u32", 300, "plus"), Pc(-2)),
   Caller(Add("constu", "leb", 300, "plus"), Pc(-2)), Caller(Add("consts", "sleb", -300, "plus"), Pc(-2)),
   Caller(<<Breg(1), Expr("const1u", <<Op("u8", 3)>>), Expr("minus", << >>)>>, Pc(-2))}

AllInstructions == Advances \cup Cfas \cup Saves \cup Skipped \cup States \cup Callers

\* No augmentation, and "zR".
SomeAugmentations == {<< >>, <<122, 82>>}

\* What the theorems about the reader rely on.
ASSUME MCAssumption == InstructionsRight /\ RulesFit /\ FactorsFit /\ PowersRight
================================================================================
