SPECIFICATION ScreenFairSpec
CONSTANTS
  MEMORY_SIZE = 32
  STACK_SIZE = 2
  ENTRYPOINT = 8
  Font <- MCFont
  ROMs <- MCRoms
  Width = 8
  Height = 4
  INSTR_PER_TICK = 3
  BUDGET = 9
  CLOCK_CAP_FACTOR = 2
  KeysRotate = TRUE
  RandomBytes = {0, 18}
INVARIANTS TypeOK StopsOnBudget PadMatches
PROPERTIES ImplementsMachine Terminates
