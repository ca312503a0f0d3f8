SPECIFICATION Spec
CONSTANTS
  MEMORY_SIZE = 32
  STACK_SIZE = 2
  ENTRYPOINT = 8
  Font <- MCFont
  ROMs <- PatchRoms
  Width = 8
  Height = 4
  INSTR_PER_TICK = 1
  BUDGET = 1
  CLOCK_CAP_FACTOR = 1
  KeysRotate = FALSE
  RandomBytes = {18}
  INPUT_TICKS = 2
  TICKS_PER_SECOND = 2
  POLLS_PER_TICK = 2
  TIMER_INTERVAL = 2
  TypedKeys <- MCTypedKeys
INVARIANTS StopsIfCodeChanged
