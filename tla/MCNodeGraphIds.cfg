CONSTANTS
  Graphs = {g1}
  Nodes = {n1, n2}
  Connections = {c1, c2}
  InputLabels = {in}
  ParameterLabels = {param}
  OutputLabels = {out}
  Ids = {zero, i1, i2}
  Zero = zero
  MaxFaults = 1
  NoId = NoId
  NoTopic = NoTopic
  NoEntity = NoEntity
SPECIFICATION Spec
INVARIANTS
  IdsDistinct
SYMMETRY GraphSymmetry
CHECK_DEADLOCK FALSE
