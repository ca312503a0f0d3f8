SPECIFICATION FairSpec
CONSTANTS
  INPUT_TICKS = 2
  TICKS_PER_SECOND = 3
  Programs <- MCPrograms
  MaxTimer = 2
  TypedKeys <- MCTypedKeys
INVARIANTS TypeOK TimerNotFast PastDelayLoop
PROPERTIES QuitObserved DelayLoopEnds
