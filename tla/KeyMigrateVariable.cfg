SPECIFICATION Spec
CONSTANTS
  Key = {k1}
  None = None
  Config <- VariableKeys
  max_write = 1
  max_wire = 1
PROPERTIES RestartIsAtomic
