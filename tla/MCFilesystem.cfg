SPECIFICATION Spec
CONSTANTS
  Sessions = {s1, s2}
  Users = {ann, bob}
  ServerRoot <- MCServerRoot
  OutsideDirs <- MCOutsideDirs
  OutsideFiles <- MCOutsideFiles
  Arguments <- MCArguments
  UniqueNames = {"unique"}
  Uploads <- MCUploads
  MaxCommands = 4
SYMMETRY Symmetry
INVARIANTS
  TypeOK
  Confined
  LoginState
  UploadIsStored
CHECK_DEADLOCK FALSE
