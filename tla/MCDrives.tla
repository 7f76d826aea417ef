------------------------------ MODULE MCDrives ------------------------------
(***************************************************************************)
(* Guests write files of several drives, for TLC: each is a file of the    *)
(* overlay, at the place mirror gives it.                                  *)
(***************************************************************************)
EXTENDS PathRules

CONSTANT ProjectDrive

VARIABLE overlay    \* the virtual file each overlay file was last written as

Layout == OverlayLayout(ProjectDrive)
VirtualFile == [drive : Drive, segs : {<<"a">>, <<"a", "b">>}]
NoFile == [drive |-> ProjectDrive, segs |-> <<>>]

Init == overlay = [f \in {mirror(v, Layout) : v \in VirtualFile} |-> NoFile]

Write(v) == overlay' = [overlay EXCEPT ![mirror(v, Layout)] = v]

Next == \E v \in VirtualFile : Write(v)

Spec == Init /\ [][Next]_overlay

(* path/mod.rs:411: unmirror_from_overlay_layout is the "Inverse of        *)
(* `mirror_into_overlay_layout`".  Then an overlay file belongs to the one *)
(* virtual file that was written to it.                                    *)
OverlayFilesApart ==
    \A f \in DOMAIN overlay : overlay[f] # NoFile => unmirror(f, Layout) = overlay[f]
=============================================================================
