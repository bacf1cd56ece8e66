SPECIFICATION Spec
CONSTANTS
  Meshes = {m1}
  Encoders = {e1, e2}
  Scratches = {s1}
  Methods = {"standard", "predictive"}
  Faces = {f, g}
  MaxFaces = 2
  MaxPoints = 1
  MaxPointers = 2
  None = None
SYMMETRY Symmetric
INVARIANTS TypeOK FacesAreCurrent TableIsCurrent MappingIsCurrent
