SPECIFICATION FairSpec
CONSTANTS
  INPUT_TICKS = 2
  TICKS_PER_SECOND = 3
  Programs <- MCFrames
  MaxTimer = 2
  TypedKeys <- MCTypedKeys
PROPERTIES TimerExpires
