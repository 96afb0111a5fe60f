SPECIFICATION SettingsSpec
CONSTANTS
  Fields <- MCFields
  Stored <- MCStored
  Values <- MCValues
  Default = 20
  TextLength <- MCTextLength
  Threads = {"settings", "worker"}
INVARIANT
  SettingsInv
