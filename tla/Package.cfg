\* Every package of the families under every limit; the bytes of a Scripts
\* entry arrive in pieces of every length.
SPECIFICATION Spec
CONSTANTS
  Packages <- MCPackages
  Limits <- MCLimits
  InstallScriptNames = {"preinstall", "postinstall"}
  MarkerWeight = 15
  MaxHeader = 2
  Version = 1
  MaxNumber = 1000
  Entity <- MCEntity
  Undefined = {"&own"}
  Marker <- MCMarker
  Interpreters = {"sh"}
  Folded <- MCFolded
  NonPlain = {"ctl"}
  PercentCode <- MCPercentCode
  Magic = 1
  OdcHeader = 2
  NewcHeader = 3
  Alignment = 2
INVARIANTS
  CleanMeansScanned
  InstallerShareKept
  TrustedRefsCover
  StreamIsParse
