---------------------------- MODULE PathAliases -----------------------------
(***************************************************************************)
(* Whether a path of the project leads out of it                           *)
(* (winrsbox-policy/src/decide/mod.rs: path_contained_in and               *)
(* path_aliases_outside_root, asked by compute before a write).            *)
(*                                                                         *)
(* A directory tree is a function from sequences of segments to what is    *)
(* found there: a directory, a file with one name or with several, a link  *)
(* (symbolic link, junction, mount point), or nothing.  Where a path leads *)
(* when its links are followed is Windows' answer to canonicalize.  A      *)
(* question is [fs, raw, root]: the tree, a path as it comes, and the      *)
(* project's root.                                                         *)
(***************************************************************************)
EXTENDS PathRules, Integers

CONSTANTS
    AliasQuestions,            \* the questions that are asked
    canonical_dos_lower(_, _)  \* the place a path of a tree leads to, or Nowhere

VARIABLES
    alias,    \* the question
    upto,     \* how many segments of its path the loop still looks at
    answer    \* "inside" and "outside" the root; "open" until it is known

aliasVars == <<alias, upto, answer>>

-----------------------------------------------------------------------------
Nothing == [kind |-> "none", to |-> <<>>]
Nowhere == <<"?">>
Kind(fs, place) == IF place \in DOMAIN fs THEN fs[place].kind ELSE "none"

Upto(path, n) == SubSeq(path, 1, n)
Above(path) == Upto(path, Len(path) - 1)

(* symlink_metadata: links on the way are followed, the last is not.       *)
symlink_metadata(fs, path) ==
    IF path = <<>> THEN Kind(fs, path)
    ELSE LET dir == canonical_dos_lower(fs, Above(path))
         IN  IF dir # Nowhere /\ Kind(fs, dir) = "dir" THEN Kind(fs, dir \o <<path[Len(path)]>>)
             ELSE "none"
Found(fs, path) == symlink_metadata(fs, path) # "none"

(* Of Windows: what leads somewhere can be found.                          *)
IsAliasQuestion(q) ==
    LET path == fold_dos_dots(q.raw)
    IN  /\ path \in Seq({path[i] : i \in DOMAIN path})
        /\ q.root \in Seq({q.root[i] : i \in DOMAIN q.root})
        /\ \A n \in 0..Len(path) :
              canonical_dos_lower(q.fs, Upto(path, n)) # Nowhere => Found(q.fs, Upto(path, n))

ASSUME AliasesAreQuestions == \A q \in AliasQuestions : IsAliasQuestion(q)

(* path_contained_in: a path that still has dots is not contained.         *)
path_contained_in(segs, root) ==
    /\ \A i \in DOMAIN segs : segs[i] \notin {".", ".."}
    /\ root # <<>>
    /\ Len(root) <= Len(segs)
    /\ Upto(segs, Len(root)) = root

(* The root as it is written, and where it leads.                          *)
Contained(fs, place, root) ==
    \/ path_contained_in(place, root)
    \/ /\ canonical_dos_lower(fs, root) # Nowhere
       /\ path_contained_in(place, canonical_dos_lower(fs, root))

-----------------------------------------------------------------------------
(* path_aliases_outside_root.                                              *)
Folded == fold_dos_dots(alias.raw)
Leads(n) == canonical_dos_lower(alias.fs, Upto(Folded, n))
AnswerIs(inside) == answer' = IF inside THEN "inside" ELSE "outside"

(* compute asks it of a path that lies in the project as it is written.    *)
AliasInit ==
    /\ alias \in {q \in AliasQuestions : path_contained_in(fold_dos_dots(q.raw), q.root)}
    /\ upto = Len(Folded)
    /\ answer = "open"

(* The file exists: it has one name, or is a directory, and its links stay *)
(* in the project.                                                         *)
CheckFile ==
    /\ answer = "open"
    /\ upto = Len(Folded) /\ Found(alias.fs, Folded)
    /\ AnswerIs(/\ Leads(upto) # Nowhere
                /\ Kind(alias.fs, Leads(upto)) # "shared file"
                /\ Contained(alias.fs, Leads(upto), alias.root))
    /\ UNCHANGED <<alias, upto>>

(* One step up from what does not exist; past the drive there is nothing   *)
(* to lead anywhere.                                                       *)
StepUp ==
    /\ answer = "open"
    /\ ~Found(alias.fs, Upto(Folded, upto))
    /\ IF upto > 0 THEN upto' = upto - 1 /\ UNCHANGED answer
       ELSE AnswerIs(TRUE) /\ UNCHANGED upto
    /\ UNCHANGED alias

(* A variant that does not follow the links above a new file.              *)
CheckAncestor_AtItsWord ==
    /\ answer = "open"
    /\ upto < Len(Folded) /\ Found(alias.fs, Upto(Folded, upto))
    /\ AnswerIs(TRUE)
    /\ UNCHANGED <<alias, upto>>
(* The deepest ancestor that exists is followed, and the names that are    *)
(* missing are put behind it.                                              *)
CheckAncestor ==
    /\ answer = "open"
    /\ upto < Len(Folded) /\ Found(alias.fs, Upto(Folded, upto))
    /\ AnswerIs(/\ Leads(upto) # Nowhere
                /\ Contained(alias.fs, Leads(upto) \o SubSeq(Folded, upto + 1, Len(Folded)), alias.root))
    /\ UNCHANGED <<alias, upto>>

AliasNext == CheckFile \/ StepUp \/ CheckAncestor

AliasSpec == AliasInit /\ [][AliasNext]_aliasVars

-----------------------------------------------------------------------------
(* Where the kernel puts what is written to a path: into the file it leads *)
(* to, into a new file in the directory above, or, through a link that     *)
(* leads to nothing, to wherever that is.                                  *)
Elsewhere == <<"?", "?">>
WrittenTo(fs, path) ==
    LET dir == canonical_dos_lower(fs, Above(path))
    IN  IF canonical_dos_lower(fs, path) # Nowhere THEN canonical_dos_lower(fs, path)
        ELSE IF symlink_metadata(fs, path) = "link" THEN Elsewhere
        ELSE IF dir # Nowhere /\ Kind(fs, dir) = "dir" THEN dir \o <<path[Len(path)]>>
        ELSE Nowhere

AliasTypeOK ==
    /\ upto \in 0..Len(Folded)
    /\ answer \in {"open", "inside", "outside"}

(* What is let through because it lies in the project ends there: for every*)
(* tree of links and every path, whether its file exists or is yet to be   *)
(* made, the kernel puts what is written below the project's root, or where*)
(* that root leads, and never into a file that has another name elsewhere  *)
(* (decide/overlay.rs asks path_contained_in and path_aliases_outside_root *)
(* before it answers Passthrough).                                         *)
InRootStaysInside ==
    answer = "inside" =>
        LET place == WrittenTo(alias.fs, Folded)
        IN  place # Nowhere => /\ Contained(alias.fs, place, alias.root)
                               /\ Kind(alias.fs, place) # "shared file"
=============================================================================
