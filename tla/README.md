# A verification project for winrsbox

winrsbox runs a program on Windows in a copy-on-write sandbox. A *launcher*
starts the program (the *guest*) suspended, injects a DLL (the *hook*) that
intercepts its system calls, and serves the hooks' questions over a named pipe
from a policy kept in a database (`policy.redb`). Several launchers can work in
one folder: the first is the *broker*, the others are its clients, and when the
broker dies a client takes its place.

This directory holds TLA+ models of the parts of that system in which the order
of events matters, the TLC configurations that check them on small instances,
and proofs, checked by TLAPS, that the most important properties hold for every
size. `PROJECT.json` maps each definition to the source lines it models, and
lists the components, the hazards, the runs, the mutants and the theorems.

Paths below are relative to `src/winrsbox/crates/`.

## The system

| Part | Code | State | Operations |
| --- | --- | --- | --- |
| Folder section | `winrsbox-ipc/src/folder_section.rs` | a mapped seqlock: generation, broker identity, pipe name, launcher list | `init`, `add_launcher`, `remove_launcher`, `rebuild`, `snapshot` |
| Election, Attach, failover | `winrsbox-launcher/src/main/` | who has `policy.redb` open, `broker.json`, handles of the folder job and section, exit watches, the watcher of each client | start, open the database, attach, answer, roll back, die, race, take over, re-attach |
| Policy | `winrsbox-policy/src/decide/` | rules, `OVERLAY_IDX`, `WHITEOUTS`, mocks, a cache of decisions | `decide`, `record_overlay`, `clear_overlay`, `record_whiteout`, `clear_whiteout`, listing |
| File hooks | `winrsbox-hook/src/fs`, `core/hooks`, `core/cache.rs` | a cache of decisions and the set of published paths, per process | open, create, query, delete, rename, enumerate |
| Pipe server | `winrsbox-launcher/src/pipe_server/` | connections, owners, the byte budget | admission, requests, policy mutation |
| Session | `winrsbox-launcher/src/sandbox/`, `main/session.rs` | the suspended guest, jobs, the process table | create, inject, acknowledge, resume, drain |
| Guest IPC | `winrsbox-hook/src/ipc/ipc_client/`, `winrsbox-ipc/src/` | one connection, a count of failures | connect, reconnect through the section, send, time out |
| Registry | `winrsbox-policy/src/registry/`, `winrsbox-hook/src/system/reg_hooks/` | shadowed values, mocks | query, set, delete |
| Guards | `winrsbox-hook/src/{memory,proc,ipc,system}` | allocations that may become executable; mostly none | allow or refuse one call |
| Network | `contain/wfp`, `domains/net.rs`, `system/net_hooks` | rules and their generation | match, reload |
| Overlay migration | `sandbox/inject.rs`, `winrsbox-policy/src/decide/mod.rs` | the rows of the index, two overlay roots, a completion marker | validate, copy, link, rebase |
| Log | `observe/jsonl_log.rs` | a buffer and a file | push, flush |
| Path resolution, devices, command line, layout guard, npm | `path_resolve`, `domains/dev.rs`, `cli`, `winrsbox-layout-guard`, `npm` | none that the rest depends on | |

How they interact. A hook asks the broker for a decision per path, over the
pipe; it caches some answers, acts on the real or the overlay file, and reports
what it did. A hook that loses its broker finds the next one through a snapshot
of the folder section. Clients find the broker through `broker.json` and receive
handles of the folder's job and section in the answer to Attach. Only the broker
writes the section; the right to write is the lock on `policy.redb`.

What is hard. Readers of the section run in other processes than its writer,
which can be killed between two stores. The election has no leader to serialise
it: processes die, locks are released late, answers time out after the work was
done. A session starts in a dozen steps, each of which can fail and between which
the launcher can be killed, with the target already created. A file call is a
dozen separate steps (cache, request, copy, kernel call, report), several caches
disagree for a while, and the steps of other processes fall in between. A PID the
hook or the broker remembers may name another process by the time it is used. What
makes each part correct:

* the section: a snapshot is one that a writer completed, whole, and never
  older than one the reader has seen;
* the election: one writer; whoever serves is published; dead launchers do not
  stay trusted; guests get a broker again;
* the session: no process runs outside the jobs or survives the launcher; one
  whose hooks are not in place is terminated; the launcher ends;
* the file view: the real files change only where the policy says so, and all
  processes share one private file system, in listings too;
* the pipe server: a decision is taken in the context of the process that asks;
  nobody sleeps on the byte budget while its request fits;
* the policy: a change that was answered is what decisions are taken by;
* the registry: the host's keys change only where the policy says so, and an
  answered write survives the broker;
* the migration: no crash and no error changes what the index leads to;
* the guest's IPC: an answer belongs to the request, and only launchers are asked;
* the guards: memory that becomes executable has been scanned, other processes are
  not touched, every call of guest code is decided, and what the launcher is told
  of the hooks is true.

## The modules

| Module | Models | Used by |
| --- | --- | --- |
| `AtomicSection` | what the folder section promises: a register written and read in one step, with a generation | refined by `FolderSection`, assumed by `Failover` |
| `FolderSection` | the seqlock, one mapped field per step | `MCFolderSection` |
| `Failover` | the launchers of a folder | `MCFailover` |
| `Overlay` | the copy-on-write file view: hooks, caches, policy | `MCOverlay` |
| `Launch` | one session: the launcher, its target, the processes created inside | `MCLaunch` |
| `PipeServer` | admission, connections, the process table | `MCParts` |
| `ByteBudget` | the budget of bytes in flight | `MCParts` |
| `PolicyStore` | rules, snapshots, the cache of decisions, under mutations | `MCParts` |
| `Registry` | the hooks on registry writes, the broker's answer, the store on disk | `MCParts` |
| `Migration` | the move of an old C: overlay | `MCParts` |
| `EventLog` | the buffered log | `MCParts` |
| `WildcardScan` | the loops that match a pattern with wildcards | `RuleMatching` |
| `RuleMatching` | which rule speaks for a path, what the network rules answer | `DecisionTrace` |
| `DecisionTrace` | what `compute` decides and what `why` says of it | `RuleQuestions` |
| `RuleQuestions` | the four loops above, one of them in each behaviour | `MCParts` |
| `PathRules` | dots in a path, the layout of the overlay on drives | `PathAliases`, `MCDrives` |
| `PathAliases` | whether a path of the project leads out of it | `MCParts` |
| `DirRecords` | the editing of one page of a listing, record by record | `MCParts` |
| `GuestIpc` | the requests of a guest's threads | `MCGuards` |
| `DirListing` | the listing of a directory over several calls | `MCGuards` |
| `ProcGuard` | calls that reach other processes | `MCGuards` |
| `MemoryGuard` | memory of the own process that becomes executable | `MCGuards` |
| `GuardDecisions`, `HookRuntime` | what each remaining guard decides; installing, calling and removing the hooks | `MCGuards` |
| `MCInputs` | small calls of the loops: patterns, tables, trees of links, pages | `MCParts` |

`MCParts` and `MCGuards` put components that share no state into one run each: an
initial state chooses the component, and the call of a loop, and the others
stand still. The theorems are in modules of their own: `FolderSectionProofs`,
`FailoverProofs`, `OverlayProofs` and `LaunchProofs` extend the module they are named
after; `BrokerProofs` covers `ByteBudget`, `PolicyStore`, `EventLog`, `Migration` and
`PipeServer`; `PolicyProofs` covers the rules (`RuleQuestions` with `WildcardScan`,
`RuleMatching` and `DecisionTrace`) and `PathAliases`; `RegistryProofs` covers what a
guest is shown, `Registry`, `DirListing` and `DirRecords`; `GuestProofs` covers
`ProcGuard`, `MemoryGuard`, `GuardDecisions` with `HookRuntime`, and `GuestIpc`.

Definitions whose comment begins with "Wrong:" or "A variant" are faulty forms
of the definition that follows them. Nothing uses them in the model; they are the
mutants `PROJECT.json` pairs with the properties, and TLC finds each property
violated when its mutant replaces the original.

### FolderSection

`mem` is the mapped structure as an array of cells, `gen` its generation. A write
is `begin_write` (the generation becomes odd), one `StoreCell` per field, and
`end_write`. `add_launcher`, `remove_launcher` (with its swap of the last slot)
and `rebuild` differ in the stores they schedule. `BrokerDies` drops the stores
not yet made. `snapshot` is one load of the generation, one load per field and a
second load of the generation, with the retry budget of the code.

An identity is two cells (pid and creation time) and so is a pipe name, so that a
torn value exists in the model. The fields are interleaved sequentially
consistently: the code orders its plain accesses with SeqCst operations on the
generation, and the machine it is built for (x86-64) does not reorder stores with
stores or loads with loads. `pub` and `next` are history variables.

Abstracted: magic, version and the encoding of the pipe name (the same in every
write); `set_broker`, which only tests call. `Init` is `init`, which runs before
the mapping is shared. That writers are serialised is not assumed lightly: it is
`SingleWriter` of `Failover`, with the mutex of `FolderSectionWriter` inside one
process.

### Failover

One action per step of a launcher: `Start`, `open_policy_or_decide_role`,
`try_open`/`resolve_client_role` (the retry loop), `client_attach` and its four
outcomes, `setup_broker_folder` or `Rebuild`, `write_broker_json`,
`pipe_accept_loop`, `watch_loop`; the broker's handler of an Attach in two steps
(`AttachAdds`, `AttachReplies`) and its exit watch; and what happens to a process:
`ProcessDies`, `ReleaseLock`. `run_target_session` is reduced to the step that
uses the folder job. A launcher stands for its (pid, creation time); the job and
the section a broker creates are named after it.

`FreshYields` is an assumption about timing, made visible as a constant: a
launcher that is just starting does not win the database while clients of a dead
broker race for it. The code does not enforce it. The safety and liveness runs
make the assumption; the run `fresh_launcher_race` drops it and shows what
happens. The theorems hold with and without it, but for `GuestsKeepTheirBroker`,
which needs it.

Abstracted: after a handle is closed its number may be reused by Windows for
another object; the model lets the later use fail, and the session with it. How
long kernel objects live is not modelled. Two behaviours of the code show in the
model and have no property: a client whose broker dies before its guest is in the
folder job re-attaches and closes the handle its session is about to use
(`jobOpen`); and a client that gives up an Attach after the broker wrote the answer
stays registered, so that its retries are refused as duplicates. `ReAttached` is
checked without such a timeout.

### Overlay

A path has a real file (`real`) and a place in the overlay (`ovl`). The broker
has `idx`, `wh` and the cache `srv`; a process has the cache `hook` and
`published`. `th[t]` is the call a thread is in. A call runs through `Decide`
(cache or broker), `Insert` (the broker caches what it computed, a separate step
because other connections are served in between), `Reply`, perhaps
`decide_fresh_if_overlay_missing` or `Revive`, then `OpenReal`, or
`prepare_overlay`/`cow_copy_verified` and `OpenOverlay`, and
`publish_overlay_decision`. A delete or a rename continues with the handle:
`DeleteReal`, `DeleteOverlay`, `DeleteExternal`, `clear_overlay`,
`record_whiteout`, `RecordDestination`, `Move`. `Send` is a request that the
broker applies, or that is lost. A commit of the database and the clear of the
cache after it are one step.

The content of a file is a token, so that the properties can say which contents
a process sees. `view` is a history variable: the file system that the calls, in
the order in which they took effect, should have produced. `excuse[p]` collects
the reasons why `p` may differ from it:

| Excuse | Meaning |
| --- | --- |
| `overlap` | calls on `p` overlapped, at least one of them changing it: no order is defined |
| `fault` | a request was lost, a copy failed or a process was killed during a call on `p` |
| `recreated` | a lower file that had been deleted was copied up again |
| `moved` | an overlay file was renamed to a real path, about which the broker is told nothing |
| `unlisted` | a failed rename took `p` out of the index |
| `vanished` | a failed rename of a real file outside the project marked it deleted |

The last four are behaviours of the code that a reader would not expect. The run
`recreated_file` checks the view without its excuse where a comment in the code says
otherwise.

Left out: directories, mocks, hard links, device and alias names, case, eviction
from the caches, delete-on-close of a file others hold open (a sharing violation
is an outcome of the delete instead).

### Launch

`lpc` is where `run_target_session` is; `launch_suspended`, `CheckRoot`,
`pre_launch_scan`, `inject_dll`, `assign_process_to_raw_job`, `setup_job_object`
and `install_outbound_filters` prepare the suspended target, each with its
failure: `Refuse` terminates the target first, `GiveUp` returns with `?` and does
not. `ResumeRoot`, `WaitInit`, `KillRoot` and `PollDegraded` are the handshake,
`TargetExited` and `Drain` the wait at the end, `Exit` and `Crash` the end of the
launcher. `Gone` closes the handles of the jobs, which are kill-on-close; the
folder job closes only when no other launcher of the folder has it.

`life[p]` is how far a process has come: absent, suspended, booting (resumed, the
APC runs first), installed and signalled (inside `DllMain`), hooked, bare (it runs
without hooks) or dead. `install_hooks`, `SignalInit`, `SignalDegraded` and
`SignalAck` are the hook's start. `sp[p]` is `p`'s call of
`hook_nt_create_user_process`: `CreateChild`, `ScanChild`, `InjectChild`,
`ResumeChild`, `wait_for_ack`, `RegisterChild`, `SpawnedChild`,
`RecordCleanImage`, with `TerminateChild` wherever the code gives the child up. Nobody
waits for the acknowledgement of a child its caller wants suspended (`held`).
`GuestResumes` lets any guest resume a suspended child at any time, as its caller does
later with a held one: `ResumeThread` is not hooked, and the child's thread can be found
as soon as the kernel has created it. `BareSpawn` is a process without hooks that creates
another in the five seconds before it is terminated, or for longer when nobody waits for
it.

The hook reads the handles of the new child back from where its caller wanted them, and
they have the access the caller asked for. So another thread can overwrite them before
the hook has read them, and `TerminateProcess`, whose result the hook ignores, can fail.
`loose` collects the children this happens to, and those whose creator dies in their
scan; `Unscanned` are the children whose scan is still going on.

What the code does not promise, and the properties do not say: a held child that cannot
install its hooks, the children of a bare process, and a loose child are not terminated,
and a loose one may not have been scanned; only the jobs hold them. A child that is
resumed early runs before its scan has ended, and gets its hooks late. A target that an
early failure or the death of the launcher left suspended, outside the session job, stays
there. A client's guests report their children to the broker's queue, not to the
client's, so the broker may wait for processes of other sessions; the model has one
session.

Left out: spawns refused before the process exists, which change nothing (their
decision is in `GuardDecisions`); the process table (in `PipeServer`); the command
line, the environment, the token and the exit code; a process identifier that is
used again.

### PipeServer

`proc` is the kernel's view: a PID, its state, creation time and parent, given out
again once the process has ended and no handler keeps a handle (`Reap`). `Connect`,
`accept_worker`, `StartHandler` and `handle_preadmission_connection` bring a
connection to a handler (at most `MaxHandlers`) or to its single exchange; `Hello`,
`SpawnedChild` and `Decide` read and change `table`, the broker's process table;
`TakeOver` is a client's launcher that serves from its own table. The walk up the
ancestors (`resolve_new_entry_depth`) and the saturation of the depth are
functions. `madeFor` is a history field. Requests that leave the table alone belong
to the other modules; the texts of errors and the counters are left out.

### ByteBudget

`at[h]` is where a handler is between two reads of a length prefix. `reserve_timeout`
is one turn of its loop under the mutex; the release takes the bytes off under the
mutex (`DropReservation`) and notifies after it (`Notify`), so that another thread
runs in between; a wait may also end by itself (`WaitReturns`).

### PolicyStore

Three tables (`db`), the snapshots decisions read (`snap`), the cache of decisions
(`cached`). `execute_policy_mutate` is `exec` (or `defaults_get` and
`defaults_set`), `LoadSnapshot`, `StoreSnapshot`, `ClearCache`; a decision is
`Compute` and `InsertDecision`; a net decision compares generations
(`net_rule_decide`, `LoadNetTable`, `PublishNet`). One rule stands for the rows of a
table. `raced` records the four ways in which the code lets a change be lost.

### Registry

`hive` is the host's registry, `values` the broker's map, `workreg` the files on disk,
one in each directory. `friendly_to_overlay` is a constant function from keys to the keys
whose directory they have: the code replaces `/` by `\` and drops the components `.` and
`..`, so that several keys can share one. `mixed` records the directories to which a key
was flushed that is not spelled so, `reloaded` that a broker has loaded the disk, which
names each directory by its path. Each hooked call is one action that asks for the mode
and either lets the original run, refuses, or sends the request; `set`, `flush_key`,
`idle` and the three kinds of answer are the broker's side, under its mutex. `RegCrash`
and `load_from_disk` are the death of a broker and the start of the next. The encoding of
a value (`to_json`, `from_json`) is modelled where it loses something. Reads are not
hooked by the code.

### Migration

One action per step of `migrate_cdrive_overlay` for the entry at hand (`row_at`);
`IoError` and `BrokerEnds` may come between any two. Contents are tokens: the
project's own file, one that guests wrote since, a partial copy, somebody else's.

### EventLog

Lines are numbers in the order they were pushed. `push`, `maybe_flush`, `force_flush`
decide whether a thread flushes; `lock_flush`, `take_lines`, `open_log`, `write_line`
are `do_flush`. `do_flush` ignores errors: a file that cannot be opened loses all lines
that were taken, a failed write its own, none or only a part of which is then in the file
(`lost`, `torn`).

### GuestIpc

A thread has a connection of its own (`link`) and runs through connect, verify,
Hello, send and answer; frames carry no number. The section is open or closed to
readers, launchers die and the name of a pipe may be served by a stranger
(`NameReused`). `Lapse` counts timeouts, refusals and busy pipes. The deadline is
the choice between `ReadAnswer` and `TimedOut`.

### DirListing

The kernel's cursor and the hook's state per handle value (`states`) are separate;
a value is used again after a close, the registry of states evicts, the overlay
changes between queries. Names are numbers in the order of both streams, so a set stands
for a stream and `Fitting` for what a buffer takes of it. A record takes one or two units,
and each query says what room its buffer has. A record larger than the whole buffer
(`Cramped`) ends the listing when it is the overlay's; when it is the kernel's, the call
fails, with the kernel's position before or behind the name (`KernelCutsOff`). With an
error status the caller gets the record the kernel wrote as it is, hidden or not.
A query that the kernel fails leaves the mask the file object retains, while the hook takes
the caller's. `pass` is a history record per listing: `steady` are the names visible since
it began that no mask of a later query has ruled out.

### ProcGuard, MemoryGuard

`ProcGuard` has PIDs that are given out again, the tracker of spawned children, the kept
handles, and one operator per hooked call that names a process or a handle. A call is two
steps or more, the check before the original, and both read what the guest passed:
between them another thread may write another PID into the `CLIENT_ID`, or close the
handle and have its value name another process (`Swapped`). A handle has a set of rights:
to ask, those that `DANGEROUS_ACCESS` lists, and those to change a process that it does
not list (`GENERIC_WRITE`, `WRITE_DAC`, `WRITE_OWNER`). The right to ask is enough to
open the token; whatever else the hooks see needs a right to change the process. With
`SourceFails` the creation time of a new child cannot be read, and its entry carries
none. Three histories collect what the code does not keep from a guest: `crossed`, the
processes that came under the name of a call after its check; `unlisted`, those opened
with rights that are not listed; `doubtful`, those created while the entry of their PID
carried no time, so that only membership was asked. Reading a process and querying it are
not what the hooks guard, and do not count as touching it.

`MemoryGuard` has regions cut in chunks, the scan's copies chunk by chunk with
stores of other threads between them, and the cache of scan results. What the
scanner looks for is one kind of bytes. The guest's range is read by the hook for the
scan, again for the critical check, and by the kernel: `ProtectOriginal` may get another
region than the one scanned, or another start, and `hook_nt_map_view_of_section` may be
misled to inspect another view than the one mapped. Regions may be released, and committed
over, while they are inspected. `unscanned` collects the regions made executable by calls
that do not look at them: those, and allocations, on free or on committed pages.

### GuardDecisions, HookRuntime

`GuardDecisions` gives each hook's decision for each class of arguments.
`HookRuntime` installs the guards one by one, acknowledges, runs the calls of guest
threads with the anti-recursion window (callbacks included) and takes the hooks out. The
four `FindWindow` hooks run the original first and decide on the window it found: such a
frame `searches`, and the window is then hidden or `given`. The memory and the registry
guard, which have modules of their own, are installed like the others but have no entry
points in `Api`; those of the clipboard exist only in strict mode, which is the mode
modelled.

### WildcardScan, RuleMatching, DecisionTrace, RuleQuestions

The loops of the policy, one turn per step, each with a reference definition it is
compared with when it ends. `WildcardScan` is the scan of a pattern with two cursors
and one place to go back to; a call is given by what the loop can tell of it: lengths,
which places are stars, which tokens of the text fit which place. A match is an
`Alignment`, the tokens laid along the text. The names in a path hold no `*` and no `?`,
which Windows forbids in names of files; hosts that hold them are left out.

`RuleMatching` has the trie and the lists of `RuleIndex::build`, `candidate_indices`, and
the loop of `best_explicit_rule_match` over the candidates, in any order; and the network
rules in the order of the table. `DecisionTrace` has `compute` and the loop of
`decide_traced`, which names the rule and the mock directory, and for a mock the path
that was asked, whichever pattern matched it. Cost and caching of the index are left out.
Case folding is not modelled: a character is a folded one.

### PathRules, PathAliases

`PathAliases` is the walk of `path_aliases_outside_root` from a path up to what exists.
A tree is any function from paths to what is found there; where its links lead
(`canonical_dos_lower`) is a constant operator, Windows' answer, of which the model
asks one law: what leads somewhere can be found. `WrittenTo` is where the kernel puts
what is written. Nothing changes the tree between the question and the write.
Drive-relative and NT forms are left out.

### DirRecords

The buffer is a function from offsets to the header that stands there; a move of bytes
is a new function. `collect_present_names_lower`, the loop of `filter_entries` (`Keep`,
`StepOver`, `ShiftLeft`, `OnlyHidden`), `rewrite_entry_case`, `buffer_live_size` and the
search for the tail in `append_overlay_entries` go one record per step, with the bounds
they check; then the caller reads the chain (`CallerReads`). Names are numbers, and
which of them are hidden, have another case or were delivered before comes with the
call: `DirListing` has the calls that follow each other. What the kernel leaves is
`KernelBuffer`. Stale headers behind the live data stay in the buffer, as in the code.

## The runs

| Run | Shows | Bounds |
| --- | --- | --- |
| `section_safety` | snapshots exact and monotone, the quiescent section exact, the seqlock implements `AtomicSection` | 3 launchers, 2 slots, 1 reader, 2 attempts per call, generation 5 |
| `failover_safety` | one writer, the server published, no dead launcher trusted unwatched, guests follow the broker | 4 launchers, 3 slots, 2 attempts per loop, 1 timeout, 1 failed take-over |
| `failover_liveness` | guests served again, clients re-attached, the dead forgotten | 3 launchers, 2 slots, 1 failed take-over |
| `overlay_sequences` | one private view for all processes and every kind of open; listings agree | 2 paths outside and 1 inside the project, every sequence of 3 calls, 2 processes |
| `overlay_races` | containment: what calls that race may change | 2 paths, every pair of calls interleaved, every kind of write rule, 1 fault |
| `launch_safety` | nothing runs on without the launcher, what runs was scanned unless it got lost or was resumed early, the drain waits for all | a target and 2 processes inside, a clean and a dirty image, a queue of 2, 1 loose child |
| `launch_liveness` | the launcher ends after its target, a process without hooks is terminated | a target and 1 process inside |
| `parts` | the budget loses no wake-up; answered changes are what decisions use; answered registry writes survive where a key has its directory to itself, the host's keys are guarded; a decision's context is the client's own, depth 0 the target's; the migration keeps the view and blames only what was there; immediate lines are in the log; rules, `why`, links and pages mean what they say | 3 handlers, budget 3; 2 mutators, 1 decider, 2 commits; 3 keys, of which two share a directory, 2 names, 2 callers, 2 calls; 2 PIDs, 2 connections, 2 processes; 2 entries, 3 brokers; 2 threads, 3 lines; patterns of up to 3 tokens; tables of up to 3 rules; trees of 4 places; pages of up to 3 names with 2 of the overlay's |
| `guards` | other processes are untouched and executable memory is scanned, but for the exceptions named; calls are decided, the acknowledgement is true, listings exact, answers and servers the right ones | 2 processes, on one PID in turn or on two, 1 handle and those of new children, 2 threads, children whose creation time cannot be read; 1 region of 2 chunks, 1 store; 1 thread, 2 nested calls; 4 names of which one is long, buffers of 1 and 2 units, 3 queries, 1 fault; 2 threads, 2 launchers, 2 requests |
| `fresh_launcher_race`, `recreated_file`, `drives_share_overlay` | a counterexample each: what a document or a comment says and the code does not do | 3 launchers; 1 path, 2 calls; 3 drives |

Why the bounds suffice for the interesting cases. Three launchers and two slots are enough
for a swap-remove, for a full list and for a second take-over; a generation of 5 allows a
third write to begin while one reader is at work, so a reader can be overtaken twice, and
two attempts are one that fails and one that decides. Readers do not affect each other or
the writer, so one is enough. Four launchers are a broker, two that race for its place and
one that starts meanwhile. Three calls in the file view are a create, a delete and a
create again, or two renames and an open, by different processes. Two processes inside a
session are a child and a grandchild, or two children of which one is reported while the
other waits; with the two reports of each, a queue of two is full. A single fault is
enough for each call's failure to be met by every other step; what several faults do to
the *view* is excused anyway, and what they do to containment is what the theorem is
about.

In `parts` and `guards` the components share nothing, so a behaviour of one is a
behaviour of the run. Three handlers are two sleepers of different sizes and the one
that releases; two processes on two PIDs are a PID used again while a connection of
its former owner is open; three brokers of one migration are two that die and one
that finishes; two commits are a mutation overtaken by another; a listing of three
queries is one that starts, goes on and ends, with an eviction or a reused handle
value between.

All runs check for deadlock except those whose system may really stop: launchers
and sessions end, and guests need not make another call (`MaxCalls`).

Two runs have a state constraint, and no liveness property. In `launch_safety` at most
one child gets loose, and the image of a process is dirty only where images are scanned.
In `guards` nothing is followed after the guest has been killed. Two PIDs are used in
order, by one thread at a time, with known creation times, without rights that are not
listed and until a process was reached: those cases are in the behaviours of one PID,
used twice by two threads (by one at a time while its entry has no creation time). The
static level that allows RWX is the full level, and left out. With one region only the
start of a range can change under a scan (the proof covers other regions too). In `parts`
the initial states of the registry are restricted: the key spelled with `/` is not in the
host's registry and has the rule Cow, and the rules of the other two do not repeat each
other's cases.

Symmetry is used only in runs without liveness properties. Launchers, threads,
processes (but for the target) and paths outside the project are interchangeable.

### Fairness

`Failover`: weak fairness
of every thread of a live launcher, of the broker's handlers, of its exit watches
and of the release of a dead process's lock, which Windows guarantees. No
fairness forces a process to start, to die, to time out or to fail. `Launch`
(`LiveSpec`): weak fairness of the launcher and of a creating hook, whose waits all
have a timeout except the one for the target, where the launcher's step is not
enabled before the target is dead. Nothing is assumed of `DllMain`, which may hang,
of the guests, which may run forever, or of the launcher staying alive.
The other modules have safety properties only: their waits end by timeouts of the
code, and what they promise is about states.

## The findings

Each has a run that TLC must find violated; `PROJECT.json` quotes the line of the
repository that says otherwise.

1. A launcher starting during a failover can win the lock and set up a new job
   and section (`fresh_launcher_race`).
2. A create on a deleted path brings the deleted file back (`recreated_file`).
3. Two drives without an overlay root of their own share the project's: one file of
   each, of the same path, becomes one overlay file (`drives_share_overlay`).

Other behaviours of the code that show in the models, named in the definitions and
excused or bounded by the properties, without a run of their own:

* a decision computed before a whiteout or a rule change can be cached after it
  (`raced`, and the stale decisions of `Overlay`);
* a rename the kernel refuses leaves its source out of listings (`unlisted`);
* a target whose optional hooks failed can run without the warning that its sandbox
  is degraded, when its event comes after the poll (`PollDegraded`);
* the eight failures after which a guest ends itself are counted over its threads,
  not in a row for one (`THREATMODEL.md:195` says three);
* a restarted query without a name clears the mask the hook keeps, and the kernel's
  stays (`enum_state.rs:15-19`);
* a name the overlay shadows may be listed as an extra and again in a later real
  page if the state of the pass was evicted in between; a query after the end lists
  the extras again;
* `why` names the overlay path of a file whose index entry leads into the mirror of a
  mock directory that is one no longer; and for a mock it names the path that was asked,
  not the pattern that matched (`overlay.rs:545-553`);
* registry keys that differ by `/` and `\`, or by components `.` and `..`, share one file:
  the key flushed last replaces what the others were answered, and after a restart the
  value is found under the key the directory spells (`reg.rs:293-304`);
* a log line whose write fails is lost without a sign (`jsonl_log.rs:227`);
* an overlay name longer than the whole buffer ends a listing as if nothing more were to
  come; a call that fails hands out the kernel's raw record (`supervision.rs:574-580`);
* a child the hook cannot terminate, or whose handles were overwritten, goes on, and any
  guest may resume one before it was scanned (`spawn.rs:626-818`); the jobs hold them;
* the hooks and the originals read a `CLIENT_ID`, a range or a view's base from the guest's
  memory one after the other (`proc_guard/mod.rs:194`, `detours.rs:740-789`,
  `map_and_write.rs:87-204`), `DANGEROUS_ACCESS` lists neither `GENERIC_WRITE`,
  `WRITE_DAC` nor `WRITE_OWNER`, and memory allocated or committed executable is not
  scanned: `ForeignUntouched` and `ExecutableIsScanned` name these as exceptions.

## The proofs

TLAPS proves the following for every value of the constants, from the named assumptions of
the modules (`ConstantsAssumption`, `OverlayAssumption`, `CallsAssumption`,
`BudgetConstants`, `StoreConstants`, `LogAssumption`, `MigrationConstants`,
`RegistryConstants`, `ListingConstants`, `ServerConstants`, `ProcGuardConstants`,
`MemoryConstants`, `HookConstants`, `GuestIpcConstants`). They say that bounds are
naturals, that `None` and its like are nothing else, that 0 is no PID, that a guest has a
region and a launcher, that names are numbers (the order in which a directory lists them).
`GlobsAreCalls`, `ChoiceQuestions`, `TraceQuestions` and `AliasesAreQuestions` say that
the questions asked are questions: tables, paths and patterns are sequences, the names in
a path hold no wildcard, and what leads somewhere can be found. `PagesAreCalls` says that
a page is one the kernel leaves: records behind each other, at 8-byte boundaries, within
the buffer. No theorem needs launchers, processes, threads, paths, keys, PIDs, names or
handles to be finitely many.

Six theorems have a hypothesis of their own. `GuestsKeepTheirBroker` assumes
`FreshYields`, and the run `fresh_launcher_race` shows that it must. `OnePrivateView` and
`ListingsAgree` assume `ReadsPassThrough`: with a rule whose read mode is Deny or Cow the
view is false, and TLC shows it at once, since such a path is shown to some kinds of open
and not to others. `OwnContext` assumes that the image of a child reported by its parent
can be asked (`"spawned" \notin ProbeFails`); `OwnersContext` is what holds without.
`ListingTypes` and `ListingStaysExact` assume `~ReopenSame`: the value of a closed handle
is not given to a handle of the same directory while the state of the earlier listing is
still stored. Without it (`ReopenSame = TRUE`) TLC finds `ListingIsExact` violated, since
the registry cannot tell the two listings apart; this is the hazard at `enum_state.rs:24`.

In the table a theorem whose property some run checks too names that property
alone; the others are invariants that only the proofs state, or that a run checks as
a part of its `TypeOK`.

| Module | Theorem | States |
| --- | --- | --- |
| `FolderSectionProofs` | `TypeCorrect` | `[]TypeOK` |
| | `Quiescence` | `[]QuiescentIsPublished` |
| | `ExactSnapshots` | `SnapshotIsExact` |
| | `MonotoneReaders` | `ReadersMonotone` |
| | `SectionIsAtomic` | `ImplementsAtomicSection`: the seqlock refines `AtomicSection` |
| `FailoverProofs` | `TypeCorrect` | `[]TypeOK` |
| | `BrokerPublished` | `[]BrokerIsPublished` |
| | `DeadWatched` | `[]DeadAreWatched` |
| | `OneWriter` | `SingleWriter` |
| | `GuestsKeepTheirBroker` | `[]GuestsFollowTheBroker`, if `FreshYields` |
| `OverlayProofs` | `TypeCorrect` | `[]TypeOK` |
| | `Contains` | `Containment` |
| | `OnePrivateView` | `[]PrivateView`, if `ReadsPassThrough` |
| | `ListingsAgree` | `[]ListingAgrees`, if `ReadsPassThrough` |
| `LaunchProofs` | `TypeCorrect` | `[]TypeOK` |
| | `AllContained` | `[]Contained` |
| | `NothingSurvives` | `[]NothingRunsOn` |
| | `OnlyHookedReported` | `[]ReportedIsHooked` |
| | `OnlyScannedRuns` | `[]ScannedRuns` |
| | `DrainComplete` | `[]DrainedIsOver` |
| `BrokerProofs` | `NoLostWakeUp` | `[]ParkedDoesNotFit` |
| | `StoreTypesHold` | `[]StoreTypeOK` |
| | `StoreCurrent` | `[]QuietIsCurrent` |
| | `NetTagExact` | `[]NetTagIsExact` |
| | `ImmediateWritten` | `[]ImmediateIsWritten` |
| | `NoLineLost` | `[]LogTypeOK` |
| | `MigrationTypes` | `[]MigrationTypeOK` |
| | `ViewKept` | `[]MigrationKeepsView` |
| | `RefusalHasReason` | `[]RefusedForAReason` |
| | `BytesAreHeld` | `[]BudgetTypeOK` |
| | `ServerTypes` | `[]ServerTypeOK` |
| | `DepthZeroRoots` | `[]DepthZeroIsRoot` |
| | `OwnContext` | `[]ContextIsOwn`, if the image can be asked |
| | `OwnersContext` | `[]ContextIsOfOwner` |
| `PolicyProofs` | `ScanFindsMatches` | `[](ScanTypeOK /\ ScanMeansMatch)` |
| | `ScanGoesOn` | `[][ScanAdvances]`: each turn of a scan is progress |
| | `PolicyMeansWhatItSays` | `[]RulesMeanWhatTheySay` |
| | `AliasTypes` | `[]AliasTypeOK` |
| | `InsideStaysInside` | `[]InRootStaysInside` |
| `RegistryProofs` | `RegTypes` | `[]RegTypeOK` |
| | `AnsweredDurable` | `[]AnsweredIsDurable` |
| | `HostIsGuarded` | `HostGuarded` |
| | `ListingTypes` | `[]ListingTypeOK`, if `~ReopenSame` |
| | `ListingStaysExact` | `[]ListingIsExact`, if `~ReopenSame` |
| | `PagesShowVisible` | `[]ChainShowsVisible` |
| | `PagesTypeOK` | `[]PageTypeOK` |
| `GuestProofs` | `ProcTypeCorrect` | `[]ProcTypeOK` |
| | `ForeignsUntouched` | `[]ForeignUntouched` |
| | `MemTypeCorrect` | `[]MemTypeOK` |
| | `ExecutablesAreScanned` | `[]ExecutableIsScanned` |
| | `HookTypeCorrect` | `[]HookTypeOK` |
| | `OwnSurvives` | `[]OwnNeverKilled` |
| | `AckTrue` | `[]AckTellsTheHooks` |
| | `CallsDecided` | `[]GuestCallsAreDecided` |
| | `IpcTypeCorrect` | `[]IpcTypeOK` |
| | `AnswersAreMine` | `[]AnswerIsMine` |
| | `ServersAreTrusted` | `[]ServerIsTrusted` |

*FolderSection.* That a quiescent section is the published one is not inductive:
a write in progress has changed some cells and not others, and a reader has copied
some cells before it and some after. The invariant adds that the stores still to
be made turn the present cells into the register the write will publish, and, for
a reader whose first load of the generation still equals the generation, that the
cells it has copied are the present ones. `LoadG2` then has either a changed
generation, and retries, or a copy of the published cells. A rebuild over a dead
broker's half-written cells is covered because it stores every field.

The refinement needs more: `AtomicSection` allows a write only in certain states of
the register, and the code checks them when it begins the write, not when it ends.
`StepInProgress` carries them along: what is about to be published is the register
with one launcher added where there was room (`Joins`), or removed (`Leaves`), or
that of a new broker (`TakesOver`). The list in the cells is as long as the set it
represents (`MembersCounted`), which turns the code's check of the length into the
abstract one. All stores but the last are stutters, as is a broker's death.

*Failover.* `IInv` adds to the types: a launcher in a writing role has the
database's lock (`Holder`); whoever has attached or set up its folder has handles
(`Folders`), and a connection leads to a process that serves or did (`Servers`);
a broker's section and, once written, `broker.json` name it (`Published`); and
each trusted launcher is the broker itself, has an exit watch, or is in an Attach
that is not finished (`Trusted`). `SingleWriter` follows from `Holder`, action by
action. That guests follow the broker adds `FolderInv`: whoever has joined a folder
keeps its handles and its guest's job (`JoinedOnce`, `HasGuest`), all who are in a
folder are in the same one (`OneFolder`), and a launcher sets a folder up only while
nobody else is in one (`SetupAlone`), which is where `FreshYields` enters.

*Overlay.* A decision may be stale when it is used, so the invariant cannot say
that it is what `compute` would answer now. It says that every decision, in the
broker's cache, in a process's cache or held by a call, is `Sound`: Passthrough
for a write only where real files may change, Cow only outside the project and
for a write only under a Cow rule. `compute` gives sound decisions
(`ComputeSound`), the caches only copy them, and the rules do not change during a
run. A handle remembers the layer it was opened on, by a sound decision.
`Containment` follows for each of the six actions that change files.

The private view needs to know which stale decisions do no harm. `VInv` speaks of
the paths that are `Calm`, whose view is not excused for a race or a fault. Such a
path that no call is changing is `Steady`: its two files, the index, the whiteout and
the view fit together (`Shape`); what the broker has cached is what it would compute,
but for a read cached before a copy up that the process has published (`ServesWell`);
a process that has cached Cow misses no file it would have to copy (`HookCow`); and an
overlay file with nothing below is in the index (`Indexed`), which is what the listing
rests on. For a path that a call is changing, `Mid` says at each point of the call how
far the path is from that: looked up, copied, opened, deleted, about to be hidden,
about to leave or to arrive by a rename. `Alone` says that nobody else is on it
(otherwise it would not be calm), so that only the caches and other paths change
meanwhile; `HookKnows` and `OnlyCow` are what no call disturbs. An action that starts
or ends a call gains or loses `Mid`; the lemmas `Ending`, `GoingOn`, `Later` and
`OneThread` do this once for all of them, and each action has a lemma for its own path.

*Launch.* That nothing survives the launcher rests on who is in the session job, and that
on where the launcher was when it ended. `IInv` says how far the target is at each place
of `run_target_session` (`Progress`); that a process created inside is in both jobs from
the start, because its creator was running (`Members`); that a creator is hooked or dead
(`Creators`); and of a call in progress that its child is its own, and hooked when
reported (`Calls`). An image that had to be scanned is clean unless its process is dead,
loose or still in its scan (`Passed`, kept by `Scans`), and whatever a call is about to
record is clean (`Keys`): the second is needed because the child may be dead by then. The
actions fall into five kinds, with a lemma each: processes end (`Deaths`), the launcher
moves (`LauncherMoves`), one process comes further (`Advances`), one is created
(`Births`), a call moves (`CallMoves`).

*ByteBudget.* `BudgetTypes` bounds what is in use and says that a handler holds bytes
only while it reads or handles a request. A release that makes room for a parked
handler is still to notify, and a notification wakes all: hence `ParkedDoesNotFit` is
inductive with it. That `in_use` is the sum of what the handlers hold is stated without a
sum: the bytes held are pairs of a handler and a number below its amount (`Bytes`), and
`in_use` is how many there are (`BytesCounted`).

*PolicyStore.* A snapshot, a row about to be stored and a cached decision may differ
from the database, if a mutation that will replace them is behind (`Behind`): the one
that is `Fresh`, past its commit and before its load, or with the present row in
hand; and, for decisions, one that has not yet cleared the cache. When no mutation of
the domain is left, nothing differs. Each of the four races of `raced` is a step at
which `Behind` would fail. `Defaults` is the same for the read-modify-write of the
default rule, `NetTags` for the tag of the network rules.

*EventLog.* The file, the lines in a flusher's hand and the buffer go on from each
other in the order of the pushes (`Ordered`); only the holder of the flush lock has
lines in hand (`FlushLock`); no line is lost but by a file that cannot be opened or written
(`EventsKept`); and the line of a call that must not wait is past the buffer once the
call has taken it (`Promises`).

*Migration.* An entry under the old root is as the old build left it, one under the
new root is what was written (`Rows`); the rows and the marker change in one commit
(`Marker`); and the entries before the one at hand have arrived under the new root
(`Copies`), which a broker that starts over re-establishes, since it begins at the
first entry and finds what its predecessor linked.

*Registry.* The caller inside the mutex has its entry in the map, and after its flush on
the disk, in the file of its key's directory (`Holder`). A key with its directory to
itself (`OwnDirectory`) is flushed and loaded without another key's entries between; one
that has not keeps its entry in the map until a broker loads the disk. What parses again
after `to_json` is what was stored (`CodecKeeps`), so a broker that loads the disk has
the same entries. `HostGuarded` is an action property: each hooked call is one step, and
the lemma `GuardedStep` says what the steps that reach the hive may do.

*DirListing.* Call a name steady while it has been visible since the pass began. The
invariant follows the steady names through the two streams: those of the disk that the
kernel's position has passed were seen or are in the page at hand (`OpenPass`), and a
state that belongs to the directory, stored or taken by the query, counts no steady name
as delivered that was not seen, ends the real stream only when those of the disk were
listed, and misses no other among the children that are left (`Continues`). So whichever
query ends the pass, a query continued after an eviction, an error or an unanswered
request included, has nothing left to show (`QueryState`). `QueryShape` and `QueryAnswer`
say what a query holds at each point. That no child is appended twice needs a state that
counts everything seen (`PassOK`), which is why the property asks for a kept one. The
lemmas on `Fitting` give the merge: what fits is a front of what is wanted, and an empty
buffer takes at least one name unless the first is larger than the buffer (`Cramped`).
Other handles and other guests leave a pass alone but for steady names that are deleted
(`PassKept`, `QueryKept`).

*PipeServer.* Processes of one PID are told apart by their creation times, all of
them past (`Times`), so an entry made for an earlier process does not match the
present one. `RootEntries` says of every entry of depth 0 and of every copy of it kept
for a take-over that it was made for a target; `OwnEntry` that the entry of a
connection that has said Hello was made for its client, as long as the client lives.

*Rules.* A scan that keeps one place to go back to may forget every star but the last,
because no match lies before it: `ScanInv` says that the tokens so far are laid along
the text up to the cursors (`LaidSoFar`), and that every alignment of the whole pattern
has its last star where the scan has it or further on (`NotPassed`). Each of the six
steps has a lemma, and an end is an answer. That the trie returns every rule that covers
a path, literal or with wildcards, is `CandidatesAreHits`, from what the trie's nodes
mean (`TrieWalk`) and what a literal pattern matches (`LiteralPath`). The loop over the
candidates keeps the best of those it has seen (`RuleInv` with `BestOf`), in whatever
order they come, and so do the loops of the network rules (`NetInv`) and of `why`
(`TraceInv`); `TraceTells` goes through the cases of `decide_traced` beside those of
`compute`. A host is compared by its kind of pattern, and `HostIsMeant` shows that each
kind means what the pattern says.

*PathAliases.* `AliasInv`: nothing was found below the place the loop is at
(`MissingBelow`), so what is written behind a missing name cannot go anywhere
(`NothingWritten`), and an answer, once given, is right. The answer for a new file rests
on the deepest ancestor that exists, which is followed.

*DirRecords.* `PagesInv` says for each loop where it is and what the buffer holds. Of
`filter_entries`: the records from the one at hand on are the kernel's, all moved by the
same distance (`Moved`), and the names kept so far lead to each other and the last of
them to the record at hand (`Sifted`); hence a hidden record, moved over or stepped
over, leaves the rest as it was. When the loop ends, what is left is a chain of the
names not hidden (`IsChain`): each leads to its neighbour in the order of the names,
none reaches into another, and the last ends the live data (`FilterDone`). Case and
length leave the chain alone; a name of the overlay goes behind its end at the next
boundary (`ChainGrows`), and what was due and not appended is due still and does not
fit (`Extended`, `Full`). The caller, who is at one name of the chain and has read those
before it (`Reading`), therefore reads all of them.

*ProcGuard.* A process that calls may go through to is `Reachable`: a child, or one of
the exceptions of the property. A held handle pins its process (`HeldPin`), and what
lives was created (`LiveIsNumbered`). Every check can be overtaken, of a PID and of a
handle, which is why a call in progress carries what it has read (`CallHolds`): what it
still holds when the original runs is reachable, or took the place of what was checked
and is then recorded as `crossed`. Entries without a creation time are a case of their
own (`UnknownIsReachable`). A handle with rights to change a process leads to a reachable
one (`HandlesReach`).

*MemoryGuard.* Of a scan in progress, what it will not read again is clean, or was
stored to after it was read (`Cleared`, `Viewed`), a chunk whose scan was skipped
because the cache has its key included (`CacheClean`). A region that became executable
is therefore `Admitted`, or `Exempt` because a call made it executable without a look.
What a call scanned need not be the region it changes: the step of the original compares
them, and only the region that was scanned is admitted by it.

*HookRuntime.* The steps of the installation are done in order (`StepOrder`): a guard
whose step is past has its hooks in, or what is missing has been reported
(`EnabledAreIn`, `MissingIsKnown`), so the acknowledgement is true (`AckIsHonest`). Of
the calls of a thread only the newest is not waiting in a callback (`Stack`), and the
anti-recursion window is open just while it decides or runs an original that calls
nobody back (`Guarded`), so a call that enters with the window open is not the guest's.
That a decision to pass keeps the guard's promise is proved guard by guard
(`Keeps`), over all classes of arguments.

*GuestIpc.* Frames carry no number, so that an answer belongs to a request rests on
the connection: a thread that waits has exactly its own request, or the answer to it,
on the line (`Streams`), and one that gave up has no line any more. The other end of a
connection past its verification is a launcher (`Linked`). A thread that flushes the
messages of all threads runs a second request inside its own (`Flushing`), whose
result must not be taken for the outer one's (`Results`).

Model-checked only:

* liveness (`ServedAgain`, `ReAttached`, `DeadAreForgotten`, `SessionEnds`,
  `UnhookedIsKilled`), which is out of the prover's reach;
* that the loops of the policy and of a page end. `ScanGoesOn` shows for a scan that each
  turn is progress; that progress must stop is an induction, and the others shrink a set
  or pass a record with each turn;
* `fold_dos_dots` is a recursive function, and no theorem says what it computes: they
  hold whatever its results are, since `InRootStaysInside` is about folded paths;
* `OverlayFilesApart`, which the code does not keep (`drives_share_overlay`);
* the `TypeOK` of `MCParts` and of `MCGuards`, each a choice between the types of the
  components; the types of the components are theorems, with
  `~ReopenSame` for the listings, which is how the run has it.

## What is not modelled

`PROJECT.json` gives the reason for each component. In short:

* path resolution, the denylist, device and alias names: conversions of names with no
  state, which other modules take as model values (`PathAliases` has the links that
  decide containment; dots, drive-relative and NT forms are left out);
* the command line, the layout guard, the npm package: no property depends on them;
* logging but for the event log, counters, hot statistics, ETW;
* the filters of the Windows firewall: only that installing them may fail (`Launch`);
* directories, hard links and mocks in `Overlay`; directories and links in `Migration`;
* a live change of the rules in `Overlay`: the code clears the broker's cache then
  (`PolicyStore` has that side), but a guest keeps the Cow and Deny decisions it has
  cached;
* Windows itself (dispositions, renames, locks, pipes, death of a process) is modelled
  from how the code uses it, and marked external in the map.

## Plan

The parts of the original plan are built: the folder section, failover, the file view, the
session, the pipe server with its budget, the guest's IPC, listings, the registry, the
guards, the migration, the log, the loops of the policy and the pages of a listing. What a
next step would add, in this order:

1. Directories in `Overlay`, then mocks, with the merged listing of `DirListing` as
   its listing.
2. A live change of the rules in `Overlay`, composed with `PolicyStore`: what a guest's
   cache may keep, and for how long.
3. The two hazards without a property: the job handle closed between its copy and its
   use, and the count of failures shared by a guest's threads.
