----------------------------- MODULE DirRecords -----------------------------
(***************************************************************************)
(* The records of one page of a directory listing                          *)
(* (winrsbox-hook/src/fs/dir_filter/match.rs, called by process_dir_output *)
(* in supervision.rs).                                                     *)
(*                                                                         *)
(* The kernel leaves a chain of records in the caller's buffer, each with  *)
(* the distance to the next one (0: the last).  The hook edits the chain   *)
(* in place, in loops that each go from record to record: a hidden record  *)
(* at the front is overwritten by what follows it, a later one is stepped  *)
(* over, names get their original case, and the names the overlay adds are *)
(* written behind the last record that is left.  Then the caller walks.    *)
(*                                                                         *)
(* Sizes are in WCHARs, of class FileNamesInformation.  A name is a number;*)
(* those on the page are 1, 2, ... in the order of their records, and the  *)
(* overlay's own follow in the order they are added.  The buffer is a      *)
(* function from offsets to the header that starts there.                  *)
(*                                                                         *)
(* A call is [len, at, hide, cased, extras, before, capacity]: the length  *)
(* of each name, the offsets of the page's records, the names to hide, to  *)
(* show in another case, of the overlay, and of earlier pages, and the     *)
(* size of the buffer.                                                     *)
(***************************************************************************)
EXTENDS Integers, Sequences

CONSTANT Pages    \* the calls

VARIABLES
    page,       \* the call
    buf,        \* the caller's buffer
    info,       \* Information: how much of it is used
    step,       \* the loop that runs
    here,       \* the record it is at
    prev,       \* filter_entries: the last record it kept (-1: none yet)
    end,        \* filter_entries: the end of the live data
    delivered,  \* names the kernel gave, hidden ones too, and those appended
    remaining,  \* names of the overlay that are not consumed
    seen        \* what the caller has read

pageVars == <<page, buf, info, step, here, prev, end, delivered, remaining, seen>>

-----------------------------------------------------------------------------
NameOff == 6        \* offset of FileName, and length of the header
Aligned(n) == ((n + 3) \div 4) * 4
Extent(r) == NameOff + r.len

OnPage(q) == 1..Len(q.at)
RecordOf(q, n, next) == [next |-> next, len |-> q.len[n], name |-> n, cased |-> FALSE]
Junk == [next |-> 0, len |-> 0, name |-> 0, cased |-> FALSE]

SizeOf(q) == IF q.at = <<>> THEN 0 ELSE q.at[Len(q.at)] + NameOff + q.len[Len(q.at)]

(* What NtQueryDirectoryFile leaves: records at 8-byte boundaries, behind  *)
(* each other, no padding counted after the last.                          *)
IsPage(q) ==
    /\ q.len \in Seq(Nat \ {0}) /\ q.at \in Seq(Nat) /\ Len(q.at) <= Len(q.len)
    /\ \A names \in {q.hide, q.cased, q.extras, q.before} : names \subseteq DOMAIN q.len
    /\ q.capacity \in Nat /\ SizeOf(q) <= q.capacity
    /\ q.at # <<>> => q.at[1] = 0
    /\ \A i \in OnPage(q) : Aligned(q.at[i]) = q.at[i]
    /\ \A i, j \in OnPage(q) : i < j => q.at[i] + NameOff + q.len[i] <= q.at[j]

ASSUME PagesAreCalls == \A q \in Pages : IsPage(q)

Distance(q, i) == IF i = Len(q.at) THEN 0 ELSE q.at[i + 1] - q.at[i]
KernelBuffer(q) ==
    [o \in 0..q.capacity |->
        IF \E i \in OnPage(q) : q.at[i] = o
        THEN LET i == CHOOSE j \in OnPage(q) : q.at[j] = o
             IN  RecordOf(q, i, Distance(q, i))
        ELSE Junk]

PageInit ==
    /\ page \in Pages
    /\ buf = KernelBuffer(page)
    /\ info = SizeOf(page) /\ end = SizeOf(page)
    /\ step = IF page.at = <<>> THEN "append" ELSE "collect"
    /\ here = 0 /\ prev = -1
    /\ delivered = page.before /\ remaining = page.extras /\ seen = {}

-----------------------------------------------------------------------------
(* What every loop asks of the record it is at.                            *)
HeaderFits(limit) == here < limit /\ NameOff <= limit - here
NameFits(limit) ==
    HeaderFits(limit) /\ buf[here].len >= 1 /\ Extent(buf[here]) <= limit - here
AtLast(limit) == ~HeaderFits(limit) \/ buf[here].next = 0 \/ buf[here].next > limit - here

Onward(limit, loop) ==
    IF AtLast(limit) THEN here' = 0 /\ step' = loop
    ELSE here' = here + buf[here].next /\ UNCHANGED step

collect_present_names_lower ==
    /\ step = "collect"
    /\ delivered' = delivered \cup (IF NameFits(info) THEN {buf[here].name} ELSE {})
    /\ Onward(info, "filter")
    /\ UNCHANGED <<page, buf, info, prev, end, remaining, seen>>

-----------------------------------------------------------------------------
(* filter_entries.                                                         *)
Hidden == NameFits(end) /\ buf[here].name \in page.hide

Keep ==
    /\ step = "filter" /\ ~Hidden
    /\ prev' = here
    /\ Onward(end, "case")
    /\ UNCHANGED <<page, buf, info, end, delivered, remaining, seen>>

(* A variant that takes over the distance of the record it steps over.     *)
StepOver_OwnDistance ==
    /\ step = "filter" /\ Hidden /\ prev # -1
    /\ buf' = [buf EXCEPT ![prev].next = buf[here].next]
    /\ Onward(end, "case")
    /\ UNCHANGED <<page, info, prev, end, delivered, remaining, seen>>
(* A later record is hidden: the one before it points behind it.           *)
StepOver ==
    /\ step = "filter" /\ Hidden /\ prev # -1
    /\ buf' = [buf EXCEPT ![prev].next = IF buf[here].next = 0 THEN 0 ELSE @ + buf[here].next]
    /\ Onward(end, "case")
    /\ UNCHANGED <<page, info, prev, end, delivered, remaining, seen>>

(* The record at the front is hidden: what follows moves over it, and the  *)
(* live data ends earlier.                                                 *)
ShiftLeft ==
    /\ step = "filter" /\ Hidden /\ prev = -1 /\ buf[here].next # 0
    /\ LET next == buf[here].next
           remain == end - here - next
       IN  IF remain < 0 THEN here' = 0 /\ step' = "case" /\ UNCHANGED <<buf, end>>
           ELSE /\ buf' = [o \in DOMAIN buf |->
                              IF here <= o /\ o < here + remain THEN buf[o + next] ELSE buf[o]]
                /\ end' = here + remain
                /\ UNCHANGED <<here, step>>
    /\ UNCHANGED <<page, info, prev, delivered, remaining, seen>>

(* Nothing else is on the page: it is emptied, and the next one asked for. *)
OnlyHidden ==
    /\ step = "filter" /\ Hidden /\ prev = -1 /\ buf[here].next = 0
    /\ info' = 0
    /\ here' = 0 /\ step' = "walk"
    /\ UNCHANGED <<page, buf, prev, end, delivered, remaining, seen>>

-----------------------------------------------------------------------------
rewrite_entry_case ==
    /\ step = "case"
    /\ buf' = IF NameFits(info) /\ buf[here].name \in page.cased
              THEN [buf EXCEPT ![here].cased = TRUE] ELSE buf
    /\ Onward(info, "live")
    /\ UNCHANGED <<page, info, prev, end, delivered, remaining, seen>>

buffer_live_size ==
    /\ step = "live"
    /\ info' = IF ~AtLast(info) THEN info
               ELSE IF NameFits(info) /\ buf[here].next = 0 THEN here + Extent(buf[here])
               ELSE here
    /\ Onward(info, "append")
    /\ UNCHANGED <<page, buf, prev, end, delivered, remaining, seen>>

-----------------------------------------------------------------------------
(* The loop of process_dir_output over the overlay's names, which calls    *)
(* append_overlay_entries with one of them at a time.                      *)
NextExtra(n) == n \in remaining /\ \A m \in remaining : n <= m
Known(n) == n \in delivered \/ n \in page.hide

SkipExtra(n) ==
    /\ step = "append" /\ NextExtra(n) /\ Known(n)
    /\ remaining' = remaining \ {n}
    /\ UNCHANGED <<page, buf, info, step, here, prev, end, delivered, seen>>

(* append_overlay_entries looks for the last record of the chain.          *)
NoTail == info = 0 \/ info - here < 2
AtTail == NoTail \/ buf[here].next = 0 \/ buf[here].next > info - here
SeekTail(n) ==
    /\ step = "append" /\ NextExtra(n) /\ ~Known(n) /\ ~AtTail
    /\ here' = here + buf[here].next
    /\ UNCHANGED <<page, buf, info, step, prev, end, delivered, remaining, seen>>

Room(n) == Aligned(info) + Aligned(NameOff + page.len[n]) <= page.capacity

(* The name is written at the next boundary behind the page.               *)
AppendExtra(n) ==
    /\ step = "append" /\ NextExtra(n) /\ ~Known(n) /\ AtTail /\ Room(n)
    /\ buf' = [o \in DOMAIN buf |->
                  IF o = Aligned(info) THEN [RecordOf(page, n, 0) EXCEPT !.cased = TRUE]
                  ELSE IF o = here /\ ~NoTail THEN [buf[o] EXCEPT !.next = Aligned(info) - here]
                  ELSE buf[o]]
    /\ info' = Aligned(info) + Aligned(NameOff + page.len[n])
    /\ here' = 0
    /\ remaining' = remaining \ {n} /\ delivered' = delivered \cup {n}
    /\ UNCHANGED <<page, step, prev, end, seen>>

(* The first that does not fit stays pending, with those after it.         *)
EndOfPage ==
    /\ step = "append"
    /\ \A n \in remaining : NextExtra(n) => ~Known(n) /\ AtTail /\ ~Room(n)
    /\ here' = 0 /\ step' = "walk"
    /\ UNCHANGED <<page, buf, info, prev, end, delivered, remaining, seen>>

-----------------------------------------------------------------------------
(* The caller reads the chain.                                             *)
CallerReads ==
    /\ step = "walk"
    /\ seen' = seen \cup (IF HeaderFits(info) THEN {buf[here].name} ELSE {})
    /\ Onward(info, "done")
    /\ UNCHANGED <<page, buf, info, prev, end, delivered, remaining>>

PageNext ==
    \/ collect_present_names_lower
    \/ Keep \/ StepOver \/ ShiftLeft \/ OnlyHidden
    \/ rewrite_entry_case \/ buffer_live_size
    \/ \E n \in remaining : SkipExtra(n) \/ SeekTail(n) \/ AppendExtra(n)
    \/ EndOfPage
    \/ CallerReads

PageSpec == PageInit /\ [][PageNext]_pageVars

-----------------------------------------------------------------------------
Unhidden == OnPage(page) \ page.hide
(* The overlay's names that no page of the listing has had.                *)
Due == page.extras \ (OnPage(page) \cup page.before \cup page.hide)

PageTypeOK ==
    /\ step \in {"collect", "filter", "case", "live", "append", "walk", "done"}
    /\ info \in 0..page.capacity /\ end \in 0..SizeOf(page)
    /\ here \in 0..page.capacity /\ prev \in -1..page.capacity

(* Whatever is hidden of a page, at its front, in its middle or at its end,*)
(* the caller walks from the first record over every other name, in order, *)
(* in its original case, and on to the names of the overlay that are not   *)
(* listed yet; no record reaches into the next or out of the buffer.  Names*)
(* that do not fit stay for the next call, and no hidden name is added     *)
(* back (filter_entries, rewrite_entry_case, buffer_live_size,             *)
(* append_overlay_entries and the loop around it).                         *)
ReadsInOrder ==
    step = "walk" /\ info > 0 =>
        LET r == buf[here]
        IN  /\ r.name \in Unhidden \cup Due
            /\ seen = {m \in Unhidden \cup Due : m < r.name}
            /\ r.cased <=> r.name \in page.cased \cup Due
            /\ here = Aligned(here) /\ here + Extent(r) <= info
            /\ r.next = 0 \/ Extent(r) <= r.next
OnlyHiddenHere == Unhidden = {} /\ page.at # <<>>
ReadsAll ==
    step = "done" =>
        /\ OnlyHiddenHere => seen = {} /\ remaining = page.extras
        /\ Unhidden \subseteq seen /\ seen \subseteq Unhidden \cup Due
        /\ Due \ seen \subseteq remaining
        /\ ~OnlyHiddenHere => \A m \in Due \ seen : \E n \in Due \ seen : n <= m /\ ~Room(n)
ChainShowsVisible == ReadsInOrder /\ ReadsAll
=============================================================================
