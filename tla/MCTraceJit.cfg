SPECIFICATION FairSpec
CONSTANTS
  MEMORY_SIZE = 16
  STACK_SIZE = 2
  ENTRYPOINT = 4
  Font <- MCFont
  ROMs <- MCRoms
  Width = 4
  Height = 2
  INSTR_PER_TICK = 3
  BUDGET = 9
  CLOCK_CAP_FACTOR = 2
  KeysRotate = TRUE
  RandomBytes = {0, 18}
  SAFEPOINT_INTERVAL = 2
  BENCH_SAFEPOINT_INTERVAL = 3
  TRACE_LIMIT = 2
INVARIANTS TypeOK CacheTracked TracesClosed NoStaleCode SafepointLatency
INVARIANTS ExitsForCause BoundedOvershoot
PROPERTIES ImplementsMachine Terminates
