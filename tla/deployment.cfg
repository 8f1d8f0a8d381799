SPECIFICATION Spec
CONSTANTS
  old = old
  new = new
  patch = patch
  Images = {old, new, patch}
  First = old
  Absent = Absent
  Names <- MCNames
  Marks <- MCMarks
  Databases <- MCDatabases
  Ships <- MCShips
  MinTenantScoped = 16
  Home <- MCHome
  EnvFiles <- MCEnvFiles
  FirstFile <- MCFirstFile
  MayDie = TRUE
  MaxDeploys = 3
  MaxEdits = 1
INVARIANTS
  PromotedWasProved
  NeverAheadOfSchema
  OnOwnDatabase
PROPERTIES
  RestoresWhatRan
  OthersUntouched
