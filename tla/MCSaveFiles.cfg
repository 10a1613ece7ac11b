SPECIFICATION Spec
CONSTANTS
  Slots = 2
  MaxEdits = 3
  MaxFaults = 1
  NoFile = NoFile
  NoSave = NoSave
INVARIANTS
  TypeOK
  NothingLost
PROPERTIES
  StartsFindLicenses
  LoadsWhatWasSaved
