SPECIFICATION ToolSpec
CONSTANTS
  MEMORY_SIZE = 16
  STACK_SIZE = 2
  ENTRYPOINT = 8
  Font <- MCFont
  ROMs <- OverwritingRoms
  Width = 8
  Height = 4
  INSTR_PER_TICK = 1
  BUDGET = 1
  CLOCK_CAP_FACTOR = 1
  KeysRotate = FALSE
  RandomBytes = {18}
  MAX_SYMBOLS = 4
  Sources <- MCSources
INVARIANT UnwarnedCodeKept
