SPECIFICATION FairSpec
CONSTANTS
  BatteryLevels <- Levels
  EarlierFiles <- Files
  Entries <- BothEntries
  MaxFailed = 1
INVARIANTS
  TypeOK
  OneFrameSettles
PROPERTIES
  SaverFollowsCondition
  SettingsSurviveRestart
