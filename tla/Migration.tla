----------------------------- MODULE Migration ------------------------------
(***************************************************************************)
(* How the C: overlay of a project moves to its own root                   *)
(* (winrsbox-launcher/src/sandbox/inject.rs, winrsbox-policy/src/decide/   *)
(* mod.rs; called in main/mod.rs and main/failover.rs).                    *)
(*                                                                         *)
(* Earlier builds kept the overlays of all projects with the same base name*)
(* in one legacy root.  A broker, before it serves anybody, copies the     *)
(* files its index names to the root of the project, then changes the index*)
(* and sets the completion marker in one transaction.  It may die at every *)
(* step, an I/O error makes it give up, and the next broker starts over.   *)
(*                                                                         *)
(* A relative path is an Entry; directories on the way are left out.       *)
(***************************************************************************)
EXTENDS Naturals

CONSTANTS
    Entries,       \* the entries are 1..Entries, in the order of the index
    MaxLaunches    \* bound: brokers of the project in a behaviour

ASSUME MigrationConstants == Entries \in Nat /\ MaxLaunches \in Nat

Entry == 1..Entries

VARIABLES
    rows,       \* OVERLAY_IDX: under which root entry e has its overlay file
    complete,   \* OVERLAY_MIGRATIONS: the marker for the new root
    legacy,     \* the files of the legacy root
    odd,        \* the legacy root also holds a link or a device
    files,      \* the files of the new root
    temp,       \* the staged copy of the entry at hand
    phase,      \* what the broker does
    row_at,     \* the entry it has come to
    launches,   \* brokers so far
    wrote       \* what the project's guests last wrote (a history variable)

migrationVars == <<rows, complete, legacy, odd, files, temp, phase, row_at, launches, wrote>>

(* "part" is a copy that was cut off; "else" what somebody else wrote.      *)
Content == {"absent", "mine", "newer", "part", "else"}

MigrationTypeOK ==
    /\ rows \in [Entry -> {"none", "legacy", "new"}]
    /\ complete \in BOOLEAN /\ odd \in BOOLEAN
    /\ legacy \in [Entry -> {"absent", "mine", "else"}]
    /\ files \in [Entry -> Content]
    /\ temp \in {"absent", "part", "mine"}
    /\ phase \in {"down", "validate", "copy", "link", "commit", "serve", "refused"}
    /\ row_at \in 1..(Entries + 1)
    /\ launches \in 0..MaxLaunches
    /\ wrote \in [Entry -> Content]

(* An earlier build left its index; a row whose file is gone is stale.  The *)
(* files of the legacy root without a row belong to other projects, and the *)
(* new root may hold files from before the index was lost.                  *)
MigrationInit ==
    /\ rows \in [Entry -> {"none", "legacy"}]
    /\ complete = FALSE
    /\ legacy \in [Entry -> {"absent", "mine", "else"}]
    /\ \A e \in Entry : legacy[e] = "mine" => rows[e] = "legacy"
    /\ \A e \in Entry : legacy[e] = "else" => rows[e] = "none"
    /\ odd \in BOOLEAN
    /\ files \in [Entry -> {"absent", "mine", "else"}]
    /\ temp = "absent"
    /\ phase = "down" /\ row_at = 1 /\ launches = 0
    /\ wrote = legacy

(* overlay_values_under_root.                                               *)
Indexed == {e \in Entry : rows[e] = "legacy"}

(* complete_c_overlay_migration: the marker is looked at first; with it, a  *)
(* row that still names the legacy root is an error.                        *)
StartBroker ==
    /\ phase = "down" /\ launches < MaxLaunches
    /\ launches' = launches + 1
    /\ phase' = IF ~complete THEN "validate"
                ELSE IF Indexed = {} THEN "serve" ELSE "refused"
    /\ row_at' = 1
    /\ UNCHANGED <<rows, complete, legacy, odd, files, temp, wrote>>

(* validate_legacy_indexed_files: every file of the legacy root has a row   *)
(* of this index.  With no rows at all the legacy root is left alone.       *)
validate_legacy_indexed_files ==
    /\ phase = "validate"
    /\ phase' = IF Indexed = {} THEN "commit"
                ELSE IF odd \/ \E e \in Entry \ Indexed : legacy[e] # "absent" THEN "refused"
                ELSE "copy"
    /\ UNCHANGED <<rows, complete, legacy, odd, files, temp, row_at, launches, wrote>>

-----------------------------------------------------------------------------
NextEntry ==
    /\ row_at' = row_at + 1
    /\ UNCHANGED <<rows, complete, legacy, odd, files, launches, wrote>>

SkipEntry ==
    /\ phase = "copy" /\ row_at <= Entries
    /\ row_at \in Indexed => legacy[row_at] = "absent"
    /\ UNCHANGED <<temp, phase>>
    /\ NextEntry

(* A variant that takes any file at the destination for the copy.           *)
existing_destination_matches_Any(e) == TRUE
existing_destination_matches(e) == files[e] = legacy[e]

(* copy_file_without_overwrite, for a destination that exists.              *)
KeepExisting ==
    /\ phase = "copy" /\ row_at <= Entries
    /\ row_at \in Indexed /\ legacy[row_at] # "absent" /\ files[row_at] # "absent"
    /\ IF existing_destination_matches(row_at)
       THEN NextEntry /\ UNCHANGED <<temp, phase>>
       ELSE /\ phase' = "refused"
            /\ UNCHANGED <<rows, complete, legacy, odd, files, temp, row_at, launches, wrote>>

(* A variant that copies to the destination itself.                         *)
BeginCopy_InPlace ==
    /\ phase = "copy" /\ row_at <= Entries
    /\ row_at \in Indexed /\ legacy[row_at] # "absent" /\ files[row_at] = "absent"
    /\ phase' = "link" /\ temp' = "part" /\ files' = [files EXCEPT ![row_at] = "part"]
    /\ UNCHANGED <<rows, complete, legacy, odd, row_at, launches, wrote>>
(* Otherwise the copy grows in a file beside it,                            *)
BeginCopy ==
    /\ phase = "copy" /\ row_at <= Entries
    /\ row_at \in Indexed /\ legacy[row_at] # "absent" /\ files[row_at] = "absent"
    /\ phase' = "link" /\ temp' = "part"
    /\ UNCHANGED <<rows, complete, legacy, odd, files, row_at, launches, wrote>>

FinishCopy ==
    /\ phase = "link" /\ temp = "part"
    /\ temp' = legacy[row_at]
    /\ UNCHANGED <<rows, complete, legacy, odd, files, phase, row_at, launches, wrote>>

(* and is linked to the destination when it is complete.                    *)
link_staged_file_no_replace ==
    /\ phase = "link" /\ temp # "part"
    /\ files' = [files EXCEPT ![row_at] = temp]
    /\ temp' = "absent"
    /\ phase' = "copy" /\ row_at' = row_at + 1
    /\ UNCHANGED <<rows, complete, legacy, odd, launches, wrote>>

AllCopied ==
    /\ phase = "copy" /\ row_at = Entries + 1
    /\ phase' = "commit"
    /\ UNCHANGED <<rows, complete, legacy, odd, files, temp, row_at, launches, wrote>>

(* rebase_legacy_c_overlay_and_mark_complete, one transaction.              *)
rebase_and_mark_complete ==
    /\ phase = "commit"
    /\ rows' = [e \in Entry |-> IF rows[e] = "legacy" THEN "new" ELSE rows[e]]
    /\ complete' = TRUE
    /\ phase' = "serve"
    /\ UNCHANGED <<legacy, odd, files, temp, row_at, launches, wrote>>

-----------------------------------------------------------------------------
(* An error of the file system while it copies: the staged file is removed, *)
(* and the launch fails.                                                    *)
IoError ==
    /\ phase \in {"copy", "link"}
    /\ phase' = "down" /\ temp' = "absent"
    /\ UNCHANGED <<rows, complete, legacy, odd, files, row_at, launches, wrote>>

(* The broker dies; a staged file stays behind, under a name nobody reads.  *)
BrokerEnds ==
    /\ phase # "down"
    /\ phase' = "down" /\ temp' = "absent"
    /\ UNCHANGED <<rows, complete, legacy, odd, files, row_at, launches, wrote>>

(* A guest writes a file and has it recorded under the new root.            *)
GuestWrites(e) ==
    /\ phase = "serve"
    /\ files' = [files EXCEPT ![e] = "newer"]
    /\ wrote' = [wrote EXCEPT ![e] = "newer"]
    /\ rows' = [rows EXCEPT ![e] = "new"]
    /\ UNCHANGED <<complete, legacy, odd, temp, phase, row_at, launches>>

MigrationNext ==
    \/ StartBroker \/ validate_legacy_indexed_files
    \/ SkipEntry \/ KeepExisting \/ BeginCopy \/ FinishCopy
    \/ link_staged_file_no_replace \/ AllCopied \/ rebase_and_mark_complete
    \/ IoError \/ BrokerEnds
    \/ \E e \in Entry : GuestWrites(e)

MigrationSpec == MigrationInit /\ [][MigrationNext]_migrationVars

-----------------------------------------------------------------------------
(* What a guest reads of entry e through the index.                         *)
Overlaid(e) == CASE rows[e] = "legacy" -> legacy[e]
                 [] rows[e] = "new"    -> files[e]
                 [] OTHER              -> "absent"

(* Wherever the broker dies, and however often it starts over, an entry of  *)
(* the index leads to what the project's guests last wrote there, complete  *)
(* and of nobody else: inject.rs copies before it changes the index.        *)
(* A stale row stays stale, unless a file stands at its new place.          *)
MigrationKeepsView ==
    \A e \in Entry : rows[e] # "none" /\ wrote[e] # "absent" => Overlaid(e) = wrote[e]

(* A launch is refused only for what was there before: a file at the        *)
(* destination with other content, a legacy file without a row or of another*)
(* type.  A migration that was cut off is never the reason.                 *)
RefusedForAReason ==
    phase = "refused" =>
        \/ odd
        \/ \E e \in Entry : rows[e] = "none" /\ legacy[e] # "absent"
        \/ \E e \in Entry : rows[e] = "legacy" /\ legacy[e] = "mine" /\ files[e] = "else"
=============================================================================
