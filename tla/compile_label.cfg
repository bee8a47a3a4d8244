SPECIFICATION Spec
CONSTANTS
  MAXINTEGER = 31
  MAXREGS = 28
  MAXINDEXRK = 1
  MAXARG_Bx = 2
  MAXARG_C = 2
  LFIELDS_PER_FLUSH = 2
  MAXVARS = 12
  MAXUPVAL = 6
  LUAI_MAXCCALLS = 12
  Numeral <- Numerals
  StringToken <- Strings
  Programs <- LabelInBlock
  TooBig <- TooBig1
  Arguments <- Args1
  Read <- ReadProgram
INVARIANT RunsAsMeant
