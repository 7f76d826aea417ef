----------------------------- MODULE MemoryGuard ----------------------------
(***************************************************************************)
(* A guest's own memory: the hooks of memory_guard on allocating,          *)
(* protecting, writing, mapping and unmapping memory of the calling        *)
(* process (winrsbox-hook/src/memory/memory_guard/), with the scan cache.  *)
(*                                                                         *)
(* A region is a run of pages that one call flips together, cut into the   *)
(* chunks the scanner copies one at a time; a request names the chunk it   *)
(* starts at and ends with the region.  A chunk holds one of the kinds of  *)
(* bytes the scanner tells apart.  Other threads store into writable       *)
(* regions, reprotect, free and map between two copies, and change the     *)
(* addresses and sizes that a call keeps in the guest's own memory between *)
(* the hook's reads of them and the kernel's.                              *)
(***************************************************************************)
EXTENDS Naturals, Sequences, FiniteSets

CONSTANTS
    Region,       \* regions of the guest's address space
    Chunks,       \* chunks of a region
    MemThread,    \* threads of the guest
    MaxStores     \* bound: stores of bytes that hold a direct syscall

ASSUME MemoryConstants == Region # {} /\ Chunks \in Nat \ {0} /\ MaxStores \in Nat

VARIABLES
    level,    \* GUARD_MODE
    allow_rwx,\* ALLOW_RWX, read once at install
    region,   \* region[r]: kind, origin, protection and content
    scan,     \* scan[t]: the protect or map call thread t is in
    cache,    \* scan_cache(): keys of chunks found clean
    memFate,  \* "running", or "killed" by report_and_terminate
    late,     \* history: chunks a syscall came into after the scan that admitted them
    entry,    \* history: starts of the requests that made the region executable
    unscanned,\* history: regions that a call made executable without a look at them
    stores    \* number of stores so far

memVars == <<level, allow_rwx, region, scan, cache, memFate, late, entry, unscanned,
             stores>>

Chunk == 1..Chunks
GuardLevel == {"scan", "full", "static"}

(* Bytes without a syscall; bytes every sweep decodes; bytes a sweep that   *)
(* began before them swallows; bytes the relaxed scanner takes for a table. *)
Bytes == {"plain", "syscall", "shadowed", "table"}
Prot == {"none", "rw", "rx", "rwx"}
is_executable(prot) == prot \in {"rx", "rwx"}
grants_write(prot) == prot \in {"rw", "rwx"}

(* Where the bytes of a region come from.                                   *)
Origin == {"system", "microsoft", "user", "critical"}
MappedKind == {"image", "file", "anonymous"}
Kind == {"free", "private"} \cup MappedKind

Plain == [c \in Chunk |-> "plain"]
FreeRegion == [kind |-> "free", origin |-> "user", prot |-> "none", bytes |-> Plain]
NoScan == [pc |-> "idle", r |-> CHOOSE r \in Region : TRUE, start |-> 1, prot |-> "none",
           sweep |-> 0, next |-> 1]

is_full_or_static == level \in {"full", "static"}
is_address_in_module(r) == region[r].kind = "image"
overlaps_critical_exec(r) ==
    region[r].kind = "image" /\ region[r].origin = "critical" /\ is_executable(region[r].prot)

Alive == memFate = "running"
report_and_kill == memFate' = "killed"

(***************************************************************************)
(* The scanner and its cache                                               *)
(***************************************************************************)
has_direct_syscall(c, atStart, strict) ==
    \/ c = "syscall"
    \/ c = "shadowed" /\ atStart
    \/ c = "table" /\ strict

(* A variant whose key leaves the content out.                              *)
compute_key_NoContent(r, c, start) == <<r, c, start, "plain">>

(* A variant whose key leaves out where the sweep started.                  *)
compute_key_NoStart(r, c, start) == <<r, c, region[r].bytes[c]>>

(* The key of a chunk: its address and length, and the bytes copied.        *)
compute_key(r, c, start) == <<r, c, start, region[r].bytes[c]>>

(* region_scan with the cache: a hit answers, a miss decodes.               *)
ChunkIsClean(r, c, start) ==
    \/ compute_key(r, c, start) \in cache
    \/ ~has_direct_syscall(region[r].bytes[c], c = start, TRUE)

(* The sweeps of scan_protect_request: the flipped pages twice, then the    *)
(* requested range twice unless it is the same range.                       *)
page_round_scan_range(start) == 1

Sweeps(start) ==
    IF start = page_round_scan_range(start) THEN <<1, 1>> ELSE <<1, 1, start, start>>

(* What the thread has read for the last time in a sweep that would have    *)
(* found these bytes: the second of the pages, or of the request.           *)
Settled(w, c, b) ==
    LET last == IF b = "shadowed" /\ c # 1 THEN 4 ELSE 2
    IN  \/ w.pc = "flip"
        \/ w.pc = "scan" /\ (w.sweep > last \/ (w.sweep = last /\ w.next > c))
        \/ w.pc = "inspect" /\ w.next > c

(***************************************************************************)
(* The guest's own stores and the kernel's unhooked calls                  *)
(***************************************************************************)
Inspected(r) == \E t \in MemThread : scan[t].pc = "inspect" /\ scan[t].r = r
SettledBySome(r, c, b) == \E t \in MemThread : scan[t].r = r /\ Settled(scan[t], c, b)

Put(r, c, b) ==
    /\ region[r].kind # "free"
    /\ grants_write(region[r].prot)
    /\ b # "plain" => stores < MaxStores
    /\ stores' = IF b = "plain" THEN stores ELSE stores + 1
    /\ region' = [region EXCEPT ![r].bytes[c] = b]
    /\ late' = IF /\ b # "plain"
                  /\ \/ is_executable(region[r].prot)
                     \/ is_address_in_module(r)
                     \/ SettledBySome(r, c, b)
               THEN [late EXCEPT ![r] = @ \cup {c}]
               ELSE [late EXCEPT ![r] = @ \ {c}]

Store(r, c, b) ==
    /\ Alive
    /\ Put(r, c, b)
    /\ UNCHANGED <<level, allow_rwx, scan, cache, memFate, entry, unscanned>>

(* NtFreeVirtualMemory, and NtUnmapViewOfSection of the own process.  An    *)
(* inspection of the view reads what comes after it: that ends the guest,   *)
(* or lets the call return.                                                 *)
Release(r) ==
    /\ Alive
    /\ region[r].kind # "free"
    /\ \/ /\ region' = [region EXCEPT ![r] = FreeRegion]
          /\ late' = [late EXCEPT ![r] = {}]
          /\ entry' = [entry EXCEPT ![r] = {}]
          /\ unscanned' = unscanned \ {r}
          /\ scan' = [t \in MemThread |-> IF scan[t].pc = "inspect" /\ scan[t].r = r
                                          THEN NoScan ELSE scan[t]]
          /\ UNCHANGED memFate
       \/ /\ Inspected(r)
          /\ memFate' = "killed"
          /\ UNCHANGED <<region, late, entry, unscanned, scan>>
    /\ UNCHANGED <<level, allow_rwx, cache, stores>>

(***************************************************************************)
(* NtAllocateVirtualMemory(Ex): the decision both hooks share.  Committing *)
(* over committed pages keeps their bytes and changes their protection.    *)
(***************************************************************************)
alloc_decision_kill_required(prot, in_trusted_window) ==
    prot = "rwx" /\ ~allow_rwx /\ level = "static" /\ ~in_trusted_window

hook_nt_allocate_virtual_memory(r, prot) ==
    /\ Alive
    /\ region[r].kind \in {"free", "private", "anonymous"}
    /\ \/ /\ alloc_decision_kill_required(prot, FALSE)
          /\ report_and_kill
          /\ UNCHANGED <<region, entry, unscanned>>
       \/ /\ ~alloc_decision_kill_required(prot, FALSE)
          /\ region' = [region EXCEPT ![r] =
                           [region[r] EXCEPT !.kind = IF region[r].kind = "free" THEN "private" ELSE region[r].kind,
                                            !.prot = prot]]
          /\ entry' = [entry EXCEPT ![r] = {}]
          /\ unscanned' = IF is_executable(prot) THEN unscanned \cup {r} ELSE unscanned \ {r}
          /\ UNCHANGED memFate
    /\ UNCHANGED <<level, allow_rwx, scan, cache, late, stores>>

(***************************************************************************)
(* NtProtectVirtualMemory.  Executable protection of memory outside every  *)
(* module is scanned first, chunk by chunk.                                *)
(***************************************************************************)
hook_nt_protect_virtual_memory(t, r, start, prot) ==
    /\ Alive
    /\ scan[t].pc = "idle"
    /\ region[r].kind # "free"
    /\ LET scanned == is_executable(prot) /\ ~is_address_in_module(r)
       IN scan' = [scan EXCEPT ![t] = [pc |-> IF scanned THEN "scan" ELSE "flip", r |-> r,
                                       start |-> start, prot |-> prot, sweep |-> 1, next |-> 1]]
    /\ UNCHANGED <<level, allow_rwx, region, cache, memFate, late, entry, unscanned, stores>>

(* One chunk of guarded_scan_region: copied by the kernel, then decoded.    *)
guarded_scan_region(t) ==
    LET w == scan[t]
        from == Sweeps(w.start)[w.sweep]
        key == compute_key(w.r, w.next, from)
    IN
    /\ Alive
    /\ w.pc = "scan"
    /\ \/ /\ region[w.r].prot = "none"                       \* Unreadable: denied
          /\ scan' = [scan EXCEPT ![t] = NoScan]
          /\ UNCHANGED <<cache, memFate>>
       \/ /\ region[w.r].prot # "none"
          /\ ~ChunkIsClean(w.r, w.next, from)                \* SyscallsFound
          /\ report_and_kill
          /\ scan' = [scan EXCEPT ![t] = NoScan]
          /\ UNCHANGED cache
       \/ /\ region[w.r].prot # "none"
          /\ ChunkIsClean(w.r, w.next, from)
          /\ cache' = cache \cup {key}
          /\ scan' = IF w.next < Chunks
                     THEN [scan EXCEPT ![t] = [w EXCEPT !.next = w.next + 1]]
                     ELSE IF w.sweep = Len(Sweeps(w.start))
                     THEN [scan EXCEPT ![t] = [w EXCEPT !.pc = "flip"]]
                     ELSE [scan EXCEPT ![t] = [w EXCEPT !.sweep = w.sweep + 1,
                                                        !.next = Sweeps(w.start)[w.sweep + 1]]]
          /\ UNCHANGED memFate
    /\ UNCHANGED <<level, allow_rwx, region, late, entry, unscanned, stores>>

(* The critical-module check and the original call.  Both read the range    *)
(* again: checked is the region the check finds there, r and start what the *)
(* kernel finds.  Freed meanwhile: the kernel fails it.                     *)
ProtectOriginal(t, checked, r, start) ==
    LET w == scan[t]
        forbidden == overlaps_critical_exec(checked) /\ grants_write(w.prot)
    IN
    /\ Alive
    /\ w.pc = "flip"
    /\ scan' = [scan EXCEPT ![t] = NoScan]
    /\ \/ /\ forbidden
          /\ report_and_kill
          /\ UNCHANGED <<region, entry, unscanned>>
       \/ /\ ~forbidden
          /\ UNCHANGED memFate
          /\ IF region[r].kind = "free"
             THEN UNCHANGED <<region, entry, unscanned>>
             ELSE LET changed == <<r, start>> # <<w.r, w.start>>
                  IN  /\ region' = [region EXCEPT ![r].prot = w.prot]
                      /\ entry' = [entry EXCEPT ![r] =
                                      IF is_executable(w.prot) /\ ~changed THEN @ \cup {start} ELSE {}]
                      /\ unscanned' = IF is_executable(w.prot) /\ changed
                                      THEN unscanned \cup {r} ELSE unscanned \ {r}
    /\ UNCHANGED <<level, allow_rwx, cache, late, stores>>

(* NtWriteVirtualMemory on the own process: a store by the kernel, unless   *)
(* the range is code of a critical module.                                  *)
hook_nt_write_virtual_memory(r, c, b) ==
    /\ Alive
    /\ \/ /\ overlaps_critical_exec(r)
          /\ report_and_kill
          /\ UNCHANGED <<region, late, stores>>
       \/ /\ ~overlaps_critical_exec(r)
          /\ Put(r, c, b)
          /\ UNCHANGED memFate
    /\ UNCHANGED <<level, allow_rwx, scan, cache, entry, unscanned>>

(***************************************************************************)
(* NtMapViewOfSection of the own process: the original maps first, then    *)
(* base and size are read back from the guest's memory and what they name  *)
(* is inspected: misled, when another thread has changed them.             *)
(***************************************************************************)
hook_nt_map_view_of_section(t, r, kind, origin, prot, c, b, misled) ==
    /\ Alive
    /\ scan[t].pc = "idle"
    /\ region[r].kind = "free"
    /\ IF kind = "image" THEN prot = "rx" ELSE origin = "user"
    /\ b # "plain" => stores < MaxStores
    /\ stores' = IF b = "plain" THEN stores ELSE stores + 1
    /\ region' = [region EXCEPT ![r] = [kind |-> kind, origin |-> origin, prot |-> prot,
                                       bytes |-> [Plain EXCEPT ![c] = b]]]
    /\ late' = [late EXCEPT ![r] = {d \in Chunk : /\ region'[r].bytes[d] # "plain"
                                                  /\ SettledBySome(r, d, region'[r].bytes[d])}]
    /\ IF misled
       THEN /\ unscanned' = unscanned \cup {r}
            /\ memFate' \in {memFate, "killed"}
            /\ UNCHANGED scan
       ELSE /\ scan' = [scan EXCEPT ![t] = [NoScan EXCEPT !.pc = "inspect", !.r = r]]
            /\ UNCHANGED <<unscanned, memFate>>
    /\ UNCHANGED <<level, allow_rwx, cache, entry>>

(* Whether the bytes of a view are looked at.                               *)
InspectsContent(v) ==
    /\ is_full_or_static
    /\ IF v.kind = "image" THEN v.origin # "system" ELSE is_executable(v.prot)

RefusedView(v) ==
    \/ v.kind = "image" /\ v.origin = "critical"
    \/ v.kind = "anonymous" /\ is_executable(v.prot)

Inspect(t) ==
    LET w == scan[t]
        v == region[w.r]
        hit == InspectsContent(v) /\ has_direct_syscall(v.bytes[w.next], w.next = 1, FALSE)
    IN
    /\ Alive
    /\ w.pc = "inspect"
    /\ \/ /\ RefusedView(v) \/ (hit /\ ~(v.kind = "image" /\ v.origin = "microsoft"))
          /\ report_and_kill
          /\ scan' = [scan EXCEPT ![t] = NoScan]
       \/ /\ ~RefusedView(v)
          /\ hit => v.kind = "image" /\ v.origin = "microsoft"   \* VerifyMicrosoftImage
          /\ scan' = IF InspectsContent(v) /\ ~hit /\ w.next < Chunks
                     THEN [scan EXCEPT ![t] = [w EXCEPT !.next = w.next + 1]]
                     ELSE [scan EXCEPT ![t] = NoScan]
          /\ UNCHANGED memFate
    /\ UNCHANGED <<level, allow_rwx, region, cache, late, entry, unscanned, stores>>

(***************************************************************************)
(* Specification                                                           *)
(***************************************************************************)
CriticalRegion == [kind |-> "image", origin |-> "critical", prot |-> "rx", bytes |-> Plain]

MemInit ==
    /\ level \in GuardLevel
    /\ allow_rwx \in BOOLEAN
    /\ region \in [Region -> {FreeRegion, CriticalRegion}]
    /\ scan = [t \in MemThread |-> NoScan]
    /\ cache = {}
    /\ memFate = "running"
    /\ late = [r \in Region |-> {}]
    /\ entry = [r \in Region |-> {}]
    /\ unscanned = {}
    /\ stores = 0

MemNext ==
    \/ \E r \in Region :
         \/ \E c \in Chunk, b \in Bytes : Store(r, c, b) \/ hook_nt_write_virtual_memory(r, c, b)
         \/ Release(r)
         \/ \E prot \in Prot : hook_nt_allocate_virtual_memory(r, prot)
    \/ \E t \in MemThread :
         \/ /\ scan[t].pc = "idle"
            /\ \E r \in Region, c \in Chunk, prot \in Prot :
                 \/ hook_nt_protect_virtual_memory(t, r, c, prot)
                 \/ \E kind \in MappedKind, origin \in Origin, b \in Bytes, misled \in BOOLEAN :
                      hook_nt_map_view_of_section(t, r, kind, origin, prot, c, b, misled)
         \/ guarded_scan_region(t)
         \/ \E checked, r \in Region, start \in Chunk : ProtectOriginal(t, checked, r, start)
         \/ Inspect(t)

MemSpec == MemInit /\ [][MemNext]_memVars

(***************************************************************************)
(* Properties                                                              *)
(***************************************************************************)
(* The values the variables range over.                                     *)
MemTypeOK ==
    /\ level \in GuardLevel
    /\ allow_rwx \in BOOLEAN
    /\ region \in [Region -> [kind : Kind, origin : Origin, prot : Prot, bytes : [Chunk -> Bytes]]]
    /\ scan \in [MemThread -> [pc : {"idle", "scan", "flip", "inspect"}, r : Region, start : Chunk,
                               prot : Prot, sweep : 0..4, next : Chunk]]
    /\ cache \subseteq Region \X Chunk \X Chunk \X Bytes
    /\ memFate \in {"running", "killed"}
    /\ late \in [Region -> SUBSET Chunk]
    /\ entry \in [Region -> SUBSET Chunk]
    /\ unscanned \subseteq Region
    /\ stores \in 0..MaxStores

(* The chunks a scan of the region would object to now.                     *)
Dirty(r, strict) ==
    {c \in Chunk : has_direct_syscall(region[r].bytes[c], c \in entry[r] \cup {1}, strict)}

(* Memory outside the modules that was made executable by a call that       *)
(* scanned it holds no bytes the scanner objects to, except bytes stored    *)
(* after the second pass over them began to be final (the sliver            *)
(* guarded_scan_region_twice documents) or while the memory was executable  *)
(* and writable: no store by another thread during the scan, no earlier     *)
(* scan of the same address that the cache remembers, and no byte of a      *)
(* flipped page outside the request escapes it.  A view that is mapped      *)
(* executable at the full and static levels is inspected before the call    *)
(* returns, whatever kind of section it is of: only system images, and      *)
(* images whose publisher the broker verified, may hold direct syscalls; an *)
(* anonymous one is never left executable.  The calls that do not look at   *)
(* what they make executable are excepted (unscanned): allocating, on free  *)
(* or on committed pages, and protecting or mapping a range that is changed *)
(* between the hook's reads of it and the kernel's.                         *)
ExecutableIsScanned ==
    memFate = "running" => \A r \in {x \in Region \ unscanned : is_executable(region[x].prot)} :
      /\ region[r].kind \in {"private", "file", "anonymous"} /\ entry[r] # {}
         => Dirty(r, TRUE) \subseteq late[r]
      /\ /\ region[r].kind \in {"image", "file", "anonymous"}
         /\ region[r].origin = "user" \/ region[r].kind # "image"
         /\ entry[r] = {} /\ ~Inspected(r)
         => /\ region[r].kind # "anonymous"
            /\ is_full_or_static => Dirty(r, FALSE) \subseteq late[r]
==============================================================================
