SPECIFICATION FairSpec
CONSTANTS
  INPUT_TICKS = 2
  TICKS_PER_SECOND = 2
  SAFEPOINT_INTERVAL = 2
  MaxTimer = 1
  TypedKeys <- MCTypedKeys
  GuestKeys <- MCGuestKeys
PROPERTIES QuitStops
