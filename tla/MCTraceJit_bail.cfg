SPECIFICATION Spec
CONSTANTS
  MEMORY_SIZE = 16
  STACK_SIZE = 2
  ENTRYPOINT = 4
  Font <- MCFont
  ROMs <- BailRoms
  Width = 4
  Height = 2
  INSTR_PER_TICK = 4
  BUDGET = 9
  CLOCK_CAP_FACTOR = 2
  KeysRotate = TRUE
  RandomBytes = {18}
  SAFEPOINT_INTERVAL = 2
  BENCH_SAFEPOINT_INTERVAL = 3
  TRACE_LIMIT = 2
INVARIANT FailsOnlyOnReached
