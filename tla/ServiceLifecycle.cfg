\* One command after another, and two installs at once.
SPECIFICATION Spec
CONSTANTS
  c1 = c1
  c2 = c2
  Commands = {c1, c2}
  Scenes <- MCScenes
INVARIANTS
  InstallsConverge
PROPERTIES
  InstalledMeansServing
  UninstalledMeansClean
  NeverFailsByItself
