----------------------------- MODULE DirListing -----------------------------
(***************************************************************************)
(* A guest lists a directory: the hook of NtQueryDirectoryFile[Ex] merges   *)
(* what the kernel answers with the overlay                                 *)
(* (winrsbox-hook/src/fs/dir_filter/).                                      *)
(*                                                                          *)
(* The kernel keeps its cursor in the file object and fills one page a      *)
(* query.  The hook has the page written to memory of its own, takes the    *)
(* hidden names out, appends names that only the overlay has, and copies    *)
(* the result to the caller's buffer.  What of the overlay was delivered is *)
(* kept per handle VALUE in a registry of ENUM_STATES_CAP entries; nothing  *)
(* tells the hook that a handle was closed.                                 *)
(*                                                                          *)
(* A name stands for all its spellings, a mask for the names it matches, a  *)
(* record for the space it needs (one or two units of the buffer).          *)
(***************************************************************************)
EXTENDS Naturals, FiniteSetsExt, SequencesExt

CONSTANTS
    Names,           \* file names, numbers: both streams come in their order
    Dot,             \* .winrsbox
    Long,            \* the names whose record needs two units
    Dir,             \* directories
    NoDir,           \* no directory: the path of the handle could not be asked
    HandleValue,     \* values of handles, used again after a close
    OtherHandle,     \* the values of handles this model does not follow
    ENUM_STATES_CAP,
    NoMask,          \* FileName is NULL
    Query,           \* calls a guest makes: [mask, single, restart, room]: the mask is a set of
                     \* names, the caller's buffer has room units
    ReopenSame,      \* may a closed value be used again for the directory of a stored state?
    MaxChanges,      \* bound on changes of the overlay in a behaviour
    MaxFaults,       \* bound on queries that fail and requests without an answer
    MaxQueries       \* bound on calls of the hook

ASSUME ListingConstants ==
    /\ Names \subseteq Nat
    /\ Dot \in Names
    /\ NoDir \notin Dir
    /\ OtherHandle \notin HandleValue
    /\ ENUM_STATES_CAP \in Nat \ {0}
    /\ \A q \in Query :
          /\ q.mask # NoMask => q.mask \subseteq Names
          /\ q.single \in BOOLEAN /\ q.restart \in BOOLEAN /\ q.room \in Nat \ {0}
    /\ ReopenSame \in BOOLEAN

VARIABLES
    disk,     \* disk[d]: the names of d on the real disk
    index,    \* index[d]: children of d in OVERLAY_IDX
    tombs,    \* tombs[d]: names of d in WHITEOUTS
    object,   \* object[h]: the file object behind the value h
    states,   \* ENUM_STATES: <<[key, st], ...>>, the oldest first
    query,     \* the query the hook is serving
    buffer,   \* the caller's buffer: the names in it
    changes, faults, queries,
    pass      \* pass[h], a history: what the caller saw since it opened h or restarted

listVars == <<disk, index, tombs, object, states, query, buffer, changes, faults, queries, pass>>

Size(n) == IF n \in Long THEN 2 ELSE 1
Space(S) == FoldSet(LAMBDA n, total : total + Size(n), 0, S)

(* What a whiteout hides: an overlay entry of the same name revives it.     *)
whiteouts_under(d) == tombs[d] \ index[d]
overlay_children(d) == index[d]
Visible(d) == ((disk[d] \cup index[d]) \ whiteouts_under(d)) \ {Dot}

-----------------------------------------------------------------------------
(* DirEnumState.  has_extras: the overlay's children were fetched; extras:   *)
(* those from overlay_cursor on.                                            *)
FreshState(dir, mask) ==
    [dir |-> dir, mask |-> mask, real_done |-> FALSE, overlay_done |-> FALSE,
     delivered |-> {}, has_extras |-> FALSE, extras |-> {}]

Stored(h) == {i \in DOMAIN states : states[i].key = h}
Without(h) ==
    IF Stored(h) = {} THEN states ELSE RemoveAt(states, CHOOSE i \in Stored(h) : TRUE)

(* take_enum_state removes the entry, so storing it again makes it the      *)
(* newest; when the registry is full the oldest goes.                       *)
store_enum_state(h, st) ==
    LET others == Without(h)
        kept == IF Len(others) >= ENUM_STATES_CAP THEN Tail(others) ELSE others
    IN  Append(kept, [key |-> h, st |-> st])

(* The state of this query: the stored one if it continues the pass of the  *)
(* same directory, or if the directory is not known; else a fresh one.  A   *)
(* FileName of the query replaces the retained mask.                        *)
Resumes(h, dir, restart) ==
    /\ Stored(h) # {}
    /\ ~restart
    /\ \E i \in Stored(h) : dir \in {NoDir, states[i].st.dir}

TakenState(h, dir, mask, restart) ==
    IF Resumes(h, dir, restart)
    THEN LET prev == states[CHOOSE i \in Stored(h) : TRUE].st
         IN  [prev EXCEPT !.mask = IF mask = NoMask THEN @ ELSE mask]
    ELSE FreshState(dir, mask)

Matches(n, mask) == mask = NoMask \/ n \in mask

-----------------------------------------------------------------------------
(* The file object.  A FileName replaces the mask it retains; RestartScan   *)
(* resets the position.                                                     *)
ClosedObject == [dir |-> NoDir, last |-> {}, mask |-> NoMask]

Position(h, restart) == IF restart THEN {} ELSE object[h].last
RetainedMask(h, mask) == IF mask = NoMask THEN object[h].mask ELSE mask

RemainingNames(h, mask, restart) ==
    {n \in disk[object[h].dir] :
        Matches(n, RetainedMask(h, mask)) /\ \A m \in Position(h, restart) : m < n}

(* The part of the buffer in use (buffer_live_size): records in front of    *)
(* the first visible one are shifted out and those after the last one cut   *)
(* off; a hidden one between two visible ones keeps its space.              *)
LiveSize(shown) ==
    Space({n \in query.page : \E m, k \in shown : m <= n /\ n <= k})

(* The first of S, if there is one, and whether its record is too large for *)
(* a buffer that is still empty.                                            *)
First(S) == {m \in S : \A k \in S : m <= k}
Cramped(S, room) == \E m \in First(S) : Size(m) > room

(* The names of S that go into a buffer behind those shown, in order, each  *)
(* if it and all before it fit; one if a single entry was asked for.        *)
Fitting(S, shown, single, room) ==
    {n \in S : \A m \in S : m <= n =>
        \/ shown = {} /\ m \in First(S) /\ Size(m) <= room
        \/ ~single /\ LiveSize(shown) + Space({k \in S : k <= m}) <= room}

Page(S, single, room) == Fitting(S, {}, single, room)

-----------------------------------------------------------------------------
NoQuery == [pc |-> "idle"]

(* steady: visible since the start of the pass, listed: handed out, again:  *)
(* appended though listed before, kept: still with the state it began with, *)
(* over: the caller was told so, missed: steady names not seen by then.     *)
NoPass == [steady |-> {}, listed |-> {}, again |-> {}, missed |-> {},
           kept |-> TRUE, over |-> FALSE]

ListingInit ==
    /\ disk \in [Dir -> SUBSET Names]
    /\ index \in [Dir -> SUBSET (Names \ {Dot})]
    /\ tombs \in [Dir -> SUBSET (Names \ {Dot})]
    /\ object = [h \in HandleValue |-> ClosedObject]
    /\ states = <<>>
    /\ query = NoQuery
    /\ buffer = {}
    /\ changes = 0
    /\ faults = 0
    /\ queries = 0
    /\ pass = [h \in HandleValue |-> NoPass]

NewPass(d) == [NoPass EXCEPT !.steady = Visible(d)]

Open(h, d) ==
    /\ object[h] = ClosedObject
    /\ ReopenSame \/ \A i \in Stored(h) : states[i].st.dir # d
    /\ object' = [object EXCEPT ![h].dir = d]
    /\ pass' = [pass EXCEPT ![h] = NewPass(d)]
    /\ UNCHANGED <<disk, index, tombs, states, query, buffer, changes, faults, queries>>

Close(h) ==
    /\ object[h] # ClosedObject
    /\ query # NoQuery => query.h # h
    /\ object' = [object EXCEPT ![h] = ClosedObject]
    /\ UNCHANGED <<disk, index, tombs, states, query, buffer, changes, faults, queries, pass>>

(* The hook entered with no other hook active: the kernel gets the hook's   *)
(* own event and the staging buffer.                                        *)
hook_nt_query_directory_file(h, q) ==
    /\ query = NoQuery
    /\ queries < MaxQueries
    /\ queries' = queries + 1
    /\ object[h] # ClosedObject
    /\ query' = [pc |-> "pending", h |-> h, mask |-> q.mask, single |-> q.single,
                restart |-> q.restart, room |-> q.room, status |-> "pending", page |-> {},
                st |-> FreshState(NoDir, NoMask), dir |-> NoDir, hide |-> {}, base |-> {}, again |-> {},
                gone |-> {}, answered |-> TRUE, taken |-> FALSE]
    /\ buffer' = {}
    /\ UNCHANGED <<disk, index, tombs, object, states, changes, faults, pass>>

Fault == faults < MaxFaults /\ faults' = faults + 1

(* The event or the staging buffer cannot be had: the query is refused.     *)
Unsupervised(h) ==
    /\ query = NoQuery
    /\ Fault
    /\ object[h] # ClosedObject
    /\ buffer' = {}
    /\ UNCHANGED <<disk, index, tombs, object, states, query, changes, queries, pass>>

(* The pass the query belongs to: a new one if it starts over.              *)
QueryPass == IF query.restart THEN NewPass(object[query.h].dir) ELSE pass[query.h]

(* The kernel completes the query, at once or after STATUS_PENDING.         *)
KernelCompletes ==
    /\ query.pc = "pending"
    /\ LET h == query.h
           names == RemainingNames(h, query.mask, query.restart)
           page == Page(names, query.single, query.room)
       IN  /\ ~Cramped(names, query.room)
           /\ query' = [query EXCEPT
                 !.pc = IF query.taken THEN "real" ELSE "completed",
                 !.page = page,
                 !.status = CASE page # {} -> "success"
                              [] page = {} /\ Position(h, query.restart) = {} -> "no such file"
                              [] OTHER -> "no more files"]
           /\ object' = [object EXCEPT
                 ![h].last = Position(h, query.restart) \cup page,
                 ![h].mask = RetainedMask(h, query.mask)]
           /\ pass' = [pass EXCEPT ![h] = [QueryPass EXCEPT
                 !.steady = {n \in QueryPass.steady : Matches(n, RetainedMask(h, query.mask))}]]
    /\ UNCHANGED <<disk, index, tombs, states, buffer, changes, faults, queries>>

(* The first record is larger than the buffer: the kernel writes what goes  *)
(* in of it and answers with an error.  If it moves its cursor past the     *)
(* name, no page of the pass will hold it.                                  *)
KernelCutsOff(passes) ==
    /\ query.pc = "pending"
    /\ LET h == query.h
           names == RemainingNames(h, query.mask, query.restart)
           lost == IF passes THEN First(names) ELSE {}
       IN  /\ Cramped(names, query.room)
           /\ query' = [query EXCEPT
                 !.pc = IF query.taken THEN "real" ELSE "completed",
                 !.page = First(names), !.status = "error"]
           /\ object' = [object EXCEPT
                 ![h].last = Position(h, query.restart) \cup lost,
                 ![h].mask = RetainedMask(h, query.mask)]
           /\ pass' = [pass EXCEPT ![h] = [QueryPass EXCEPT
                 !.steady = {n \in QueryPass.steady \ lost : Matches(n, RetainedMask(h, query.mask))}]]
    /\ UNCHANGED <<disk, index, tombs, states, buffer, changes, faults, queries>>

(* The kernel answers with some other error and writes nothing; the cursor  *)
(* stays, and so does the mask the file object retains.  The hook takes the *)
(* caller's mask.                                                           *)
KernelFails ==
    /\ query.pc = "pending"
    /\ Fault
    /\ query' = [query EXCEPT !.pc = IF query.taken THEN "real" ELSE "completed",
                            !.page = {}, !.status = "error"]
    /\ pass' = [pass EXCEPT ![query.h].steady = {n \in @ : Matches(n, query.mask)}]
    /\ UNCHANGED <<disk, index, tombs, object, states, buffer, changes, queries>>

(* wait_if_pending has returned.  The state is taken out of the registry    *)
(* and the hide set asked for, once for the query; without an answer only   *)
(* .winrsbox is hidden.                                                     *)
process_dir_output(dir, answers) ==
    /\ query.pc = "completed"
    /\ LET h == query.h
           heard == dir # NoDir /\ answers
           hidden == IF heard THEN whiteouts_under(dir) ELSE {}
       IN  /\ query' = [query EXCEPT
                 !.pc = "real", !.taken = TRUE, !.dir = dir,
                 !.st = TakenState(h, dir, query.mask, query.restart),
                 !.hide = hidden \cup {Dot},
                 !.gone = hidden, !.answered = heard]
           /\ states' = Without(h)
           /\ pass' = [pass EXCEPT ![h].kept =
                 @ /\ (pass[h].listed = {} \/ Resumes(h, dir, query.restart))]
           /\ IF heard THEN UNCHANGED faults ELSE Fault
    /\ UNCHANGED <<disk, index, tombs, object, buffer, changes, queries>>

-----------------------------------------------------------------------------
(* The real stream, until a page with something visible or its end.         *)
SkipReal ==
    /\ query.pc = "real"
    /\ query.st.real_done
    /\ query' = [query EXCEPT !.pc = "overlay"]
    /\ UNCHANGED <<disk, index, tombs, object, states, buffer, changes, faults, queries, pass>>

RealExhausted ==
    /\ query.pc = "real"
    /\ ~query.st.real_done
    /\ query.status \in {"no such file", "no more files"}
    /\ query' = [query EXCEPT !.pc = "overlay", !.st.real_done = TRUE]
    /\ UNCHANGED <<disk, index, tombs, object, states, buffer, changes, faults, queries, pass>>

(* The status goes to the caller, and with it what the kernel wrote: no     *)
(* name of it counts as delivered and none is taken out.                    *)
RealError ==
    /\ query.pc = "real"
    /\ ~query.st.real_done
    /\ query.status = "error"
    /\ states' = store_enum_state(query.h, query.st)
    /\ query' = [query EXCEPT !.pc = "publish"]
    /\ UNCHANGED <<disk, index, tombs, object, buffer, changes, faults, queries, pass>>

(* A variant that takes a page of hidden names for the end of the stream.   *)
RealPage_HiddenIsEnd ==
    /\ query.pc = "real"
    /\ ~query.st.real_done
    /\ query.status = "success"
    /\ LET shown == query.page \ query.hide
       IN  query' = [query EXCEPT
              !.st.delivered = @ \cup query.page,
              !.st.real_done = shown = {},
              !.base = shown,
              !.pc = "overlay"]
    /\ UNCHANGED <<disk, index, tombs, object, states, buffer, changes, faults, queries, pass>>

(* Every name of the page counts as delivered, the hidden ones too.  A page *)
(* of hidden names only is not the end: the next one is asked for, without  *)
(* RestartScan.                                                             *)
RealPage ==
    /\ query.pc = "real"
    /\ ~query.st.real_done
    /\ query.status = "success"
    /\ LET shown == query.page \ query.hide
       IN  query' = [query EXCEPT
              !.st.delivered = @ \cup query.page,
              !.base = shown,
              !.restart = IF shown = {} THEN FALSE ELSE @,
              !.pc = IF shown = {} THEN "pending" ELSE "overlay"]
    /\ UNCHANGED <<disk, index, tombs, object, states, buffer, changes, faults, queries, pass>>

(* The children that are neither ruled out by the mask nor delivered nor    *)
(* hidden: the cursor passes the others.                                    *)
Wanted(st) == {n \in st.extras : Matches(n, st.mask)} \ (st.delivered \cup query.hide)

append_overlay_entries(st) == Fitting(Wanted(st), query.base, query.single, query.room)

(* The first child that is wanted and does not fit stays for the next       *)
(* query, and all behind it.                                                *)
MergedState(st, added) ==
    LET left == {n \in st.extras : \E m \in Wanted(st) \ added : m <= n}
    IN  [st EXCEPT !.extras = left, !.delivered = @ \cup added, !.overlay_done = left = {}]

(* How the query ends: with entries the state is stored for the next query, *)
(* without any it is released if both streams are exhausted.  heard: of the *)
(* overlay nothing was left out, neither because the broker did not answer  *)
(* nor because the next record is larger than the whole buffer, which ends  *)
(* the listing too.                                                         *)
Finish(st, shown, again, heard) ==
    /\ states' = IF shown = {} /\ st.real_done /\ st.overlay_done
                 THEN states ELSE store_enum_state(query.h, st)
    /\ query' = [query EXCEPT
          !.pc = "publish", !.st = st, !.base = shown, !.again = again,
          !.answered = @ /\ heard,
          !.status = CASE shown # {} -> "success"
                       [] shown = {} /\ query.status = "no such file" -> "no such file"
                       [] OTHER -> "no more files"]

(* The overlay's children are fetched once a pass; a failed fetch is tried  *)
(* again in the next query.                                                 *)
OverlayPhase(answers) ==
    /\ query.pc = "overlay"
    /\ LET st == query.st
           asks == ~st.overlay_done /\ query.dir # NoDir
           fetched == IF asks /\ ~st.has_extras /\ answers
                      THEN [st EXCEPT !.has_extras = TRUE, !.extras = overlay_children(query.dir)]
                      ELSE st
           added == append_overlay_entries(fetched)
       IN  IF asks /\ fetched.has_extras
           THEN Finish(MergedState(fetched, added), query.base \cup added,
                       added \cap (query.base \cup pass[query.h].listed),
                       ~Cramped(Wanted(fetched), query.room))
           ELSE Finish(st, query.base, {}, st.overlay_done)
    /\ IF answers THEN UNCHANGED faults ELSE Fault
    /\ UNCHANGED <<disk, index, tombs, object, buffer, changes, queries, pass>>

Ended == query.status \in {"no such file", "no more files"}

(* DirQueryStaging::publish: the only write to the caller's buffer, of as   *)
(* many bytes as the IOSB tells.  With an error these are the kernel's.     *)
publish ==
    /\ query.pc = "publish"
    /\ buffer' = IF query.status = "error" THEN query.page ELSE query.base
    /\ LET seen == pass[query.h]
       IN  pass' = [pass EXCEPT ![query.h] =
             [seen EXCEPT !.listed = seen.listed \cup query.base,
                          !.again = seen.again \cup query.again,
                          !.over = seen.over \/ Ended,
                          !.missed = IF Ended /\ ~seen.over /\ query.answered
                                     THEN seen.steady \ seen.listed ELSE seen.missed]]
    /\ query' = [query EXCEPT !.pc = "return"]
    /\ UNCHANGED <<disk, index, tombs, object, states, changes, faults, queries>>

(* DirQuerySupervision is dropped: the caller's event is set.               *)
DropSupervision ==
    /\ query.pc = "return"
    /\ query' = NoQuery
    /\ UNCHANGED <<disk, index, tombs, object, states, buffer, changes, faults, queries, pass>>

-----------------------------------------------------------------------------
(* A listing over another handle stores its state; the registry is shared.  *)
OtherListing ==
    /\ changes < MaxChanges
    /\ states' = store_enum_state(OtherHandle, FreshState(NoDir, NoMask))
    /\ changes' = changes + 1
    /\ UNCHANGED <<disk, index, tombs, object, query, buffer, faults, queries, pass>>

(* Meanwhile other threads and guests create and delete files of the        *)
(* overlay (the operations themselves are those of Overlay.tla).            *)
RecordOverlay(d, n) ==
    /\ changes < MaxChanges
    /\ n \notin index[d]
    /\ index' = [index EXCEPT ![d] = @ \cup {n}]
    /\ changes' = changes + 1
    /\ query' = IF query = NoQuery THEN query ELSE [query EXCEPT !.gone = @ \ {n}]
    /\ UNCHANGED <<disk, tombs, object, states, buffer, faults, queries, pass>>

RecordWhiteout(d, n) ==
    /\ changes < MaxChanges
    /\ n \in Visible(d)
    /\ index' = [index EXCEPT ![d] = @ \ {n}]
    /\ tombs' = [tombs EXCEPT ![d] = @ \cup {n}]
    /\ changes' = changes + 1
    /\ pass' = [h \in HandleValue |->
          IF object[h].dir = d THEN [pass[h] EXCEPT !.steady = @ \ {n}] ELSE pass[h]]
    /\ UNCHANGED <<disk, object, states, query, buffer, faults, queries>>

ListingNext ==
    \/ \E h \in HandleValue :
          \/ \E d \in Dir : Open(h, d)
          \/ Close(h)
          \/ \E q \in Query : hook_nt_query_directory_file(h, q)
          \/ Unsupervised(h)
    \/ KernelCompletes
    \/ \E passes \in BOOLEAN : KernelCutsOff(passes)
    \/ KernelFails
    \/ \E answers \in BOOLEAN :
          \/ /\ query # NoQuery
             /\ \E dir \in {NoDir, object[query.h].dir} : process_dir_output(dir, answers)
          \/ OverlayPhase(answers)
    \/ SkipReal
    \/ RealExhausted
    \/ RealError
    \/ RealPage
    \/ publish
    \/ DropSupervision
    \/ OtherListing
    \/ \E d \in Dir, n \in Names \ {Dot} : RecordOverlay(d, n) \/ RecordWhiteout(d, n)

ListingSpec == ListingInit /\ [][ListingNext]_listVars

-----------------------------------------------------------------------------
(* Type: the registry stays within its cap and has one state per value.     *)
ListingTypeOK ==
    /\ \A d \in Dir : index[d] \subseteq Names /\ tombs[d] \subseteq Names
    /\ Len(states) <= ENUM_STATES_CAP
    /\ \A i, j \in DOMAIN states : states[i].key = states[j].key => i = j
    /\ \A i \in DOMAIN states : states[i].st.extras \subseteq Names
    /\ buffer \subseteq Names

(* A listing shows each visible name once, and no other.  When it ends,     *)
(* everything that was visible from the start of the pass on has been       *)
(* listed, whatever pages, masks, restarts, small buffers, hidden pages,    *)
(* evicted states and other handles came between (process_dir_output).      *)
(* This is claimed if in the query that ended it the broker answered and    *)
(* the next record of the overlay was not larger than the whole buffer, and *)
(* not of a name whose record the kernel cut off and went past.             *)
(* As long as the state of the pass is not lost, no overlay child is        *)
(* appended that the caller has seen in this pass, in a real page or as a   *)
(* child (DirEnumState).  And the caller is never handed .winrsbox or a     *)
(* name that was deleted when the hook asked and stayed so                  *)
(* (DirQueryStaging, filter_entries, hide_lower); only with an error status *)
(* does it get the record the kernel wrote, as it is.                       *)
ListingIsExact ==
    /\ \A h \in HandleValue :
          /\ pass[h].missed = {}
          /\ pass[h].kept => pass[h].again = {}
    /\ query # NoQuery =>
          IF query.status = "error" THEN buffer \subseteq query.page
          ELSE Dot \notin buffer /\ buffer \cap query.gone = {}
=============================================================================
