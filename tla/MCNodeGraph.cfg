CONSTANTS
  Graphs = {g1}
  Nodes = {n1, n2}
  Connections = {c1, c2}
  InputLabels = {in}
  ParameterLabels = {param}
  OutputLabels = {out}
  Ids = {zero, i1, i2, i3, i4}
  Zero = zero
  MaxFaults = 2
  NoId = NoId
  NoTopic = NoTopic
  NoEntity = NoEntity
SPECIFICATION Spec
INVARIANTS
  TypeOK
  Routed
  Found
  AddressKnown
SYMMETRY GraphSymmetry
CHECK_DEADLOCK FALSE
