CONSTANTS
  Importer = {i1, i2}
  Archives <- DisjointArchives
  Initials <- OnlyEmpty
SPECIFICATION Spec
PROPERTIES
  ImportClears
