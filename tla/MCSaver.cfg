SPECIFICATION FairSpec
CONSTANTS
  Processes = {p1, p2}
  Nobody = nobody
  MaxEdits = 2
INVARIANTS
  SaverInv
  QuitKeepsEdits
PROPERTIES
  ImplementsRegister
  EditsReachFile
