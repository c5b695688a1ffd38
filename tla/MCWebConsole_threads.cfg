SPECIFICATION Spec
CONSTANTS
  r1 = r1
  r2 = r2
  r3 = r3
  Requests <- MCRequests
  Kinds <- MCKinds
SYMMETRY ThreadSymmetry
INVARIANTS
  WebTypeOK
PROPERTIES
  RaisesOnlyDisturbed
  SuccessDelivers
  StatusConsistent
