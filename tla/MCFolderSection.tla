--------------------------- MODULE MCFolderSection ---------------------------
(* The folder section with three launchers, room for two, and one reader.  *)
(* Launchers are interchangeable; the safety run uses that.                *)
EXTENDS FolderSection, TLC

LauncherSymmetry == Permutations(Launcher)
=============================================================================
