\* Two users' packages and an old one; two slots.
SPECIFICATION Spec
CONSTANTS
  x = x
  y = y
  z = z
  Dirs = {x, y, z}
  Editable = {x, y}
  Absent = Absent
  Null = Null
  Wrong = Wrong
  MaxId = 2
  Identifiers <- MCIdentifiers
  Stem <- MCStem
  Scalars = {66}
  Contents <- MCContents
  InitPackages <- MCInitPackages
  InitRegistries <- MCInitRegistries
  PackageNames = {"a-b", "a.b"}
  DefaultModule <- MCDefaultModule
  TopNames = {"T$"}
  Roots = {"here", "there"}
INVARIANTS
  TypeOK
  SlotsDrivenOnce
  WrappersBind
  CheckedCanBeIntegrated
  CheckTestsOnePackage
PROPERTIES
  ToolKeepsRegistry
  CreatedPackageIsUsable
