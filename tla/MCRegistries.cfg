CONSTANTS
  s1 = s1
  s2 = s2
  p1 = p1
  p2 = p2
  p3 = p3
  NoName = NoName
  Serializers <- MCSerializers
  Pointers <- MCPointers
  MaxNames = 3
SYMMETRY MCSymmetry
SPECIFICATION RegistriesSpec
INVARIANTS
  AliasesFollowAnchors
