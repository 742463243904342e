CONSTANTS
  Workers = {w1, w2}
  Tags = {v1, v2}
  MaxFaults = 2
  MaxEdits = 1
  MaxCheckouts = 1
SPECIFICATION Spec
INVARIANTS TypeOK ServingIsReady SettingsShared InitFailsOnlyByCrash
PROPERTIES ComesUp StoppedOnlyForChange
