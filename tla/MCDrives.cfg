SPECIFICATION Spec
CONSTANTS
  C = c
  Drive = {c, d, e}
  ProjectDrive = d
INVARIANT OverlayFilesApart
