CONSTANTS
  Importer = {i1, i2}
  Archives <- MCArchives
  Initials <- MCInitials
SPECIFICATION Spec
INVARIANTS
  TypeOK
  WholeArchive
  NoDangling
  ShapesAgree
  StopTimesComplete
PROPERTIES
  ImportReplaces
  ImportAtomic
  EveryImportEnds
