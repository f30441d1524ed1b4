SPECIFICATION Spec
CONSTANTS
  a = a
  b = b
  v = v
  w = w
  bad = bad
  Editors = {editor1}
  Slugs = {a, b}
  Versions = {v, w, bad}
  Rejected = {bad}
  None = none
  Imports <- AnyImports
  Faults = {"read", "write"}
INVARIANT TypeOK
INVARIANT FileValidates
 
 
