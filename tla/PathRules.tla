----------------------------- MODULE PathRules ------------------------------
(***************************************************************************)
(* The dots of a path, and the file of the overlay that stands for it      *)
(* (winrsbox-policy/src/path/mod.rs; the layout of the overlay is made in  *)
(* winrsbox-launcher/src/main/mod.rs).                                     *)
(*                                                                         *)
(* A path is a drive and the sequence of its segments.                     *)
(***************************************************************************)
EXTENDS Naturals, Sequences

CONSTANTS Drive, C     \* drive letters; the drive of LOCALAPPDATA

(* fold_dos_dots: . and empty segments are dropped, .. takes a segment     *)
(* away, never the drive.                                                  *)
fold_dos_dots(segs) ==
    LET stack[n \in 0..Len(segs)] ==
            IF n = 0 THEN <<>>
            ELSE LET above == stack[n - 1]
                 IN  CASE segs[n] \in {"", "."} -> above
                       [] segs[n] = ".." -> SubSeq(above, 1, Len(above) - 1)
                       [] OTHER -> Append(above, segs[n])
    IN  stack[Len(segs)]

-----------------------------------------------------------------------------
(* The overlay of a project on drive d: a root beside the project, and one *)
(* on C: if the project is elsewhere.                                      *)
OverlayLayout(d) ==
    [primary |-> [drive |-> d, name |-> "project"],
     per_drive |-> [c \in {C} \ {d} |-> [drive |-> c, name |-> "local"]]]

root_for(drive, layout) ==
    IF drive \in DOMAIN layout.per_drive THEN layout.per_drive[drive] ELSE layout.primary

(* mirror_into_overlay_layout: below the root, without the drive.          *)
mirror(path, layout) == [root |-> root_for(path.drive, layout), rest |-> path.segs]

(* unmirror_from_overlay_layout: the primary root is tried first.          *)
unmirror(file, layout) ==
    [segs |-> file.rest,
     drive |-> IF file.root = layout.primary THEN layout.primary.drive
               ELSE CHOOSE d \in DOMAIN layout.per_drive : layout.per_drive[d] = file.root]
=============================================================================
