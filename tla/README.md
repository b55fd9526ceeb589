# Verification of file_system_backup

TLA+ specifications of `file_system_backup`, a Rust program that records the names, sizes and
dates of all files of a disk in a compressed file, and opens such records again in other tools.
`PROJECT.json` maps every definition to the lines it models; paths below are relative to
`src/src/`.

## 1. Inventory

| Component | State | Operations | Hard behaviour | What makes it correct |
|---|---|---|---|---|
| Cancel signals, `cancellation.rs` | per signal, behind a mutex: flag, reason, table of wakers, handles in its parents; an atomic copy of the flag; a condition variable | `cancel`, `cancel_with_reason`, `check`, `wait_timeout`, `add_parent_signal`, futures (`poll`, `set_waker`, `drop`, `forget`), `CancelOnDrop` | wakers run outside of the mutex and cancel other signals; slots are reused by index; a flag read without the lock; cycles of links | no lost and no stray wake-up, one owner per slot, no leaked link, one reason, no deadlock |
| Cleanup process, `cleanup.rs` | in the program: a mutex around the child's stdin, guard values; in the child: remembered paths | `spawn`, `guard_temp_file`, `guard_temp_dir`, `always`, drops, `handle_cleanup`, `preform_cleanup` | several writes for one message, a full pipe, death of either process anywhere, files that stay open for a while | a live guard value means a crash gets the path removed; nothing else is removed; no writer blocks for ever |
| `wiz-tree-backup`, `wiztree_backup.rs`, `utils.rs`, `main.rs` | position in the run, temporary path, job object, WizTree and its second instance, progress thread, output | `run`, `run_wiz_tree`, Ctrl-C handler, job, drops | cancellation in each phase, an early exit of WizTree, drop order, crash while WizTree holds the export file | success means a complete output; no temporary path is left; the run ends |
| `wiz-tree-open`, `wiztree_open.rs`; `q-dir-stat-open`, `qdirstat_open.rs` | temporary copy, child process | `run` | the order of creation, guard, conversion and drops; a viewer that starts an instance of itself; the second has no cleanup process | the viewer sees a complete file, which is not removed under it; the temporary file is removed in the end; a cancel request ends viewer and command |
| WinFsp memory file system, `winfsp_memfs.rs` | nodes with data, attributes, children by name, open counts, a delete flag | the `FileSystemContext` callbacks: create, open, overwrite, read, write, rename, cleanup, close | callbacks of several clients in any order, rename over a target or within a directory, delete while open | tree shape, no lost names, data lives as long as a handle |
| WebDAV memory file system, `webdav_memfs.rs`, `webdav_memfs/tree.rs` | tree of nodes with ids, open files | `open`, `create_dir`, `remove_*`, `rename`, `copy`, reads and writes | requests that move, replace, truncate or remove files that others have open; two links for each node, changed in steps | one tree, no `unwrap` fails, a write ends up in the file that was opened |
| File index, `fs_index.rs` | buffer of metadata records and names, stack of open folders while building, cursors | `from_csv_records`, `update_metadata`, `set_metadata_id`, navigation, CSV and QDirStat output | folders finished in bulk, one cache and one path for all open folders, look-ups from any position, in-place updates | what is read comes out again; look-ups do not depend on where the cursor was |
| Diff, `diff.rs` | two cursors, a stack of folders | `run`, filters | sizes and counts computed again from children that were deleted or changed meanwhile | what is left is what the filter asks for, folders add up to it, and no update in place needs more room than there is |
| `backup` and MFT, `backup.rs`, `backup/mft.rs`, `backup/sector_reader.rs` | attempt, map of records, table of children, stack of the listing, output; positions of volume, sector reader and buffer, cache | scan with retries, merging of duplicates, listing, walk with jwalk, output; reads and seeks | cancellation ending iterators silently, duplicates, unreadable folders, four positions in one stream | a success lists everything, nothing is listed twice, no panic but known ones; reads return the bytes at the position |
| Mount, `mount.rs`, `mount/web_dav_mount.rs` | index or compressed records, the other one weakly; link, drive, server | `run`, requests for the index, compression | the index goes away between requests; order of the drops | one index in memory; link and drive are removed |
| Embedded eDirStat backup, `embedded_edirstat_backup.rs`, `edirstat_snapshot.rs` | snapshot of a library, stack of cursors | scan, conversion | a traversal that ends early, names that are blank | a canceled scan is no backup; nesting is kept; a name with a separator is refused |
| WizTree CSV, logging, command line, build script | none or terminal only | parsing, printing | none with state | left out |

How they interact: `main` creates one signal and hands it to the command; Ctrl-C cancels it, and a
second Ctrl-C exits. The command starts the cleanup process with that signal, so that the death of
the child cancels the run. The run guards its temporary paths there, starts WizTree in a job
object, polls it with `wait_timeout` of the signal, gives the progress thread a child signal, and
copies the export through `wrap_io`, which checks the signal at each read and write. The memory file
systems sit behind WizTree's export file. `mount` serves an index through WebDAV and uses the same
signal and cleanup process.

The hazards that follow from this are in `PROJECT.json`, each with its line and the properties that
look for it.

## 2. Plan

1. `CancelTree`, `CancelSignal`: signals (done, safety and refinement proved).
2. `TempFileGuard`, `CleanupProcess`: the cleanup process (done, safety proved).
3. `WizTreeBackup`: the main command, composed of the promises of 1 and 2 (done, safety proved).
4. `WinFspMemFs`: files, names, handles, rename and replace (done but for the content of files, safety
   proved).
5. `FsIndex`, `FsCursor`: the index of a listing, navigation and output (done, safety proved).
6. `DiffFilter` on 5: two indexes and cursors, deletion of names and updates in place (done, safety of the
   unwraps proved).
7. `PathFiles`, `WebDavMemFs`: what clients see, and the tree of nodes that implements it (done, safety and
   refinement proved).
8. `BackupCommand` on the builder of 5, `ReadStream` and `MftReader`: the scans, the listing, and the
   stream below them (done, safety and the refinement of the stream proved).
9. `ViewCommands` on the promise of 2, `IndexCache`: the three commands that show a backup (done, safety proved).

Left, in this order: the proof of what 6 keeps; the content of files in 4 and the bytes of a metadata record.

## 3. Modules

**CancelTree** is what users of signals rely on: a set of canceled signals, a reason for each, and
links from children to parents. A signal becomes canceled by a call or with the reason of a canceled
parent it is linked to; links are lost only by the cancellation of the child.

**CancelSignal** has one action per critical section or lock-free access. `canceled`, `reason`,
`slots`, `parents` are the fields of `CancelSignalState`, `quick` the atomic copy, `lock` shows the
one critical section with a lock-free effect in the middle (the store to `quick` before the unlock).
A cancel call is `CallCancel`, `EnterCancel` or `EnterCanceled`, `Publish`, `NotifyAll`,
`DropParent` for each taken handle, `WakeNext` for each waker, `EndCancel`. A child's waker calls
cancel on the child from inside `WakeNext`; since `_cancel_with_reason` gets past its early return
once per signal, the call stack is one frame per signal (`caller`, `toDrop`, `toWake`).
`add_parent_signal` is `CallAddParent`, `Register`, `Store`, `Unlink` or `Inherit`.
Futures owned by other code are `SetWaker`, `DropFuture`, `Forget`.
Left out: poisoned mutexes, panicking wakers, a future polled again with an equal waker (it
changes nothing), and `check`, which only reads.

**TempFileGuard** is the promise of `cleanup.rs`: paths are guarded, files come and go, and after a
crash only guarded paths are cleaned.

**CleanupProcess** has both processes and the pipe. A message is a command and a path, written by two
actions with the mutex held between them (`WriteCommand`, `WriteBody`); the child reads token by
token (`ReadCommand`, `ReadBody`) and an end of the pipe inside or between messages starts
`TryRemove`/`EndPass` rounds until everything is gone or `TimeUp`. `FailWrite` is a write to a child
that is gone: its warning, and the guard value with an empty path. `Crash` and `KillChild` may happen
at any time; `WaitChild` is the thread that cancels the program's signal. `Hold` and `Unhold` are
other processes that keep a file open. Length and bytes of a path are one token, because a pipe
that ends in either gives the same error.

**WizTreeBackup** follows `WizTreeBackupOpts::run` and `run_wiz_tree` with one label for each phase,
INSTANCEs `CancelTree` (signals `run` and `progress`) and `TempFileGuard`, and adds WizTree, the
instance it may start (`worker`), the job, and both Ctrl-C presses. The three places an export can
be (a temporary file, WebDAV behind a symbolic link, WinFsp) are the three values of `mode`. `Fail`
is any `?` that unwinds. The loop over the places where WizTree may be is `Spawn`, `SpawnFails`, `Peek` and
`Check`: after a place that fails, `peek()` starts the next one before the loop looks at the signal, and a cancel request
then drops that process alive (`utils.rs:277`, 292). `Unwind`, `DropPath`, `Quit` are the drops in their order. Assumptions about
the outside, visible as actions: an instance of WizTree that exits with success has finished its
export or has started a second one; WizTree opens its export without sharing; a killed process
holds its files for a while. A guard call is one step, which `HoldersGuarded` of `CleanupProcess`
justifies. Left out: where executables are searched, priorities, compression, and the contents of the
memory file systems.

**WinFspMemFs** has the maps of `WinFspMemFsContextState` as functions of file ids and one action for each
callback that changes them: `Create`, `Open`, `Close`, and `rename` as `Rename` (free name) and
`Replace` (name of a file or empty directory). A callback holds the mutex throughout and is atomic. A path is the
directory it leads to and a last name; names that differ in case are different names, as in the
code. Callbacks that return an error change nothing. The file system relies on what WinFsp and Windows check first, modelled
as `MayCreate` and `MayRename`: a new file goes into an existing directory; open files are not
replaced, directories with open files in them are not renamed, and no directory moves into itself.
`set_delete` refuses and `cleanup` does nothing, so no file is deleted except by a replace.
The content of files is left out.

**FsIndex** is `from_csv_records_with_root`. `Read` takes the next record of the listing (or `Panic`s, where
the code does), `FinishFolder` is one round of the loop in `add_parents`, `AddFolder` and `AddFile` are the
rest of the main loop. `pc` and `item` force that order: nothing is read while folders wait to be
finished. The three boolean options of the builder are chosen at the start. The buffer is a sequence
of records, each with the children that follow it.

**FsCursor** adds the cursor and what uses it once the index is built: `CsvNext` (`FsIndexToCsv`), `QDirStatFile` and
`QDirStatFolder` (one round of the loop in `FsIndexToQDirStat`), and `Navigate`, any sequence of `advance`,
`current_folder_children`, `select_child_by_name`, `go_to_parent_at_index` and `go_to_path`. The loop in
`advance` is its result: the innermost folder with a child left. Names that are searched may differ
in case from those in the listing (`Wanted`, `Fold`). Left out of both: bytes, dates, drive
information, the dot that is appended to file names without an extension (`backup.rs:250`, `embedded_edirstat_backup.rs:264`, and
as an option `diff.rs:418-421`), a listing that ends with an error (the index is then dropped), paths
outside of the root, and `FsFolderWriter`, which nothing uses.

**DiffFilter** EXTENDS `FsIndex`, whose builder makes the old index, then the new one (`Build`, `LoadNew`), and
INSTANCEs `FsCursor` twice, for the cursor that walks and the one that looks up. Each round of the
loop is `VisitFile` or `EnterFolder`; before a folder is entered, and at the end, `Leave` and `LeaveAtEnd` are the
rounds of `update_parents`, which compute a folder from what is left in it (`Contents`), limit that to what it
had (`Limited`) and store it in the bytes that are there (`Fits`), or remove the folder (`Droppable`). A panic of the
code is the phase `panicked`. A size stands for all metadata of a file (size, allocated, date,
attributes). For a folder, whose sums change, `redated` says whether its date or attributes differ from the old ones, which
only "new-or-changed" looks at; any of the folders in both listings may be in it. Of the four widths of a stored number there are two, `OneByte` and more; names that
differ in case are left to `FsCursor`. Both options of the builder that `load_backup_file` uses are chosen freely.

**PathFiles** is what clients of the WebDAV file system see: directories and files by path, and open files
that follow theirs. **WebDavMemFs** has the tree of `tree.rs`: nodes by id, each with its parent and its children
by name, and handles with an id, a position and the append flag. An operation holds the mutex throughout and is one
action; a request of a client is several. `Put` is `BTreeMap::insert`. What `dav-server` checks first (`MayMove`: nothing
is moved onto or into itself, and nothing happens at the root) is external. A segment after a file leads to that file
(`Follow`), as in `lookup_segs`. Left out: properties and times of nodes.

**BackupCommand** EXTENDS `FsIndex` too: the builder takes records from one of three sources. `StartAttempt`, `Gather`
and `AttemptFailed` are the attempts to read the MFT; `FixDuplicates` merges namesakes in any order of the hash map;
`ListChild`, `SkipRemoved` and `LeaveOpen` are the rounds of the iterator over the records. The walk with jwalk begins with the
record of the folder walked through (`WalkRoot`), which may be a file's; or that record is left out like any other, as after a
request to cancel, for a path that is not there or metadata that cannot be read (`LeaveOutRoot`). Then the
builder panics (`NoRecord`) or takes the first entry that comes for the root (`ListFirst`), whose length it cuts off all
other paths (`RestsOf`); `misrooted` remembers this. `ListEntry` and
`SkipEntry` are the entries after the root's. `Traverse` and `ListNode` are the snapshot of eDirStat, with the panic at a separator in
a name. Paths are strings that the builder splits at `/` and `\`: `Split` says what that makes of each name, and `Cut`
of a path, so that a name may come out as several, as none, or as that of a folder (`Closed`). The record of an MFT says any
name, any parent (itself and unused numbers included) and whether it is a folder. `Hand` and `HandWrong` are the
builder's answer: it takes a record or panics. `WriteSome`, `WriteFails` and `WriteRest` write the index. `result` says
how the command ended, panics included. Metadata is left out, since no guard of the control flow depends
on it.

**ReadStream** is the promise of `Read` and `Seek`. **MftReader** implements it with the volume (`raw`), the
`SectorReader` (`stream`), the buffer of a `BufReader` (external) and the cache of `MftCache`. A byte is its
position, so that a read from a wrong place is seen. A read that fails leaves the volume anywhere, which
`read_exact` allows.

**ViewCommands** has one label for each phase of `wiz-tree-open`, `q-dir-stat-open` and `mount`, as `WizTreeBackup` has, and uses
`TempFileGuard` for the cleanup process. The candidate loop of `run_wiz_tree` is the one of `WizTreeBackup`, without the number of places. A drive is `mounted`,
`stuck` when `net use /delete` fails, or `unowned` when `net use` succeeded with an output that is not understood, so that no `MountedDrive`
exists. The three commands share the actions where their code has the same
steps, `command` picks where they differ: the order of the drops (`FirstDrop`), whether a job ends the viewer (`KillingJob`), and whether a
cancel request ends a read (`MayRead`). Viewers are external: they open and close their file as they like, and WizTree may
start an instance of itself.

**IndexCache** is `AutoCompressedFsIndex` with its `CompressibleFsIndex`: requests take the index under the mutex (`Acquire`) and keep it until they return
(`Release`). `Compress` is the public `compress`, which nothing in this program calls: the server only acquires and releases.

**CancelSignalProofs, WizTreeBackupProofs, ViewCommandsProofs, BackupCommandProofs, WebDavMemFsProofs, FsCursorProofs,
FsOutputProofs, DiffFilterProofs** hold the theorems; `WizTreeBackupProofs` has those about `CleanupProcess` too, `ViewCommandsProofs` those about
`IndexCache` and `WinFspMemFs`, `BackupCommandProofs` those about `MftReader`, `FsCursorProofs` those about `FsIndex`, and
`FsOutputProofs` those about the output of `FsCursor`. The **MC**
modules hold symmetry sets, reasons and orders of names, and what TLC needs: **MCBackupCommand** runs the command or the
reader below it, which share nothing but bytes; **MCViewCommands** lets requests run while `mount` serves;
**MCWebDavMemFs** keeps the view of the clients in a variable and states the refinement of `PathFiles`.

## 4. Runs

| Run | Instance | States | What it shows |
|---|---|---|---|
| `cancel_safety` | 2 signals, 2 threads, 3 futures, 3 slots, a waker replaced once | 564 160 | each slot has one owner (`SlotsOwned`), canceled children leave their parents (`NoLeakedLink`), no registration is lost in the race with a cancel call (`NoLostWakeup`), none is woken that was replaced or dropped in time (`WokenWakers`) |
| `cancel_refines` | 3 signals, 2 threads, 2 links, different reasons | 1 047 990 | `CancelSignal` implements `CancelTree`: chains, two parents, cycles |
| `cancel_live` | 2 signals, 2 threads, 2 futures | 168 256 | cancellation reaches linked children, each call returns, sleeping threads wake up |
| `cleanup` | 2 threads, a file and a directory, pipe of 2 tokens | 442 208 | messages stay whole, a live guard value is a guard, `TempFileGuard` is implemented; guarded files go away after a crash, the death of the child cancels, writers leave the mutex |
| `wiztree_backup` | all modes, up to 3 candidate executables | 305 921 | success is complete, paths are guarded while they exist, Quit comes last, and the run ends in each phase |
| `winfsp_safety` | 2 handles, 2 names, 4 ids | 49 039 | names and parents agree, unwraps succeed, a replaced file goes away |
| `winfsp_rename` | as above | - | the finding of section 7 |
| `fs_index` | any listing of up to 4 entries, 2 names, 3 levels; all options | 114 234 | the listing comes out again as CSV and QDirStat lines, counted, summed and sorted as asked; cache and path of a cursor are right after any moves, and each path is found from anywhere |
| `diff` | an old listing of up to 2 and a new one of up to 3 entries below the root, 2 names, 2 levels, 2 sizes, of which old folders have the smaller; both filters, both kinds of input, any folders with another date | 1 602 970 | the right files are left with the right sizes, folders add up to them or go if they are empty as before, neither panic of the filter is reached |
| `webdav` | 2 handles, 2 names, 2 levels, nodes and bytes together at most 5, files of 2 bytes | 54 299 | the tree stays one tree (`TreeShape`), and it implements `PathFiles` |
| `backup` | 4 records of the MFT or 3 entries of a walk, 2 names and a third that splits into these and a separator, 2 levels; sectors of 2 bytes in a volume of 8, reads of up to 3 bytes, 2 cached reads | 1 906 214 | a success lists everything, nothing twice; panics only where `PanicsOnlyThere` says; the reader implements `ReadStream` |
| `commands` | all three commands, 3 requests, 3 indexes | 10 076 | viewers see the whole file and keep it while they run, only listed cases leave something behind, a cancel request ends the command and WizTree, one index is in memory |

Why the bounds are enough. Two threads are enough for each race of two calls; the calls nest over up
to three signals, so a chain, a diamond's half and a cycle occur. Three futures in three slots let a
slot be freed, reused and freed again while a link is in the same table. `MaxGen = 1` is one replacement of
a waker. A pipe of two tokens holds one message, so writers block in the middle of
one, and the child can die there. In `WizTreeBackup` only the number of candidates is
unbounded in the code, and three make a failure followed by a peeked success, by a peeked failure with a place after it, and by
the last failure.
Four ids are the root and three files: a directory, a file in it and a replaced one, with a name
free and a name taken in each; two handles are one that renames and one that stays open.
Four entries below the root on three levels let a record leave two folders at once and go on outside of them,
and let a cursor be two folders deep next to a folder it has to change to.
In `diff` three entries are a folder with two files, two folders that are siblings, or a folder in a folder, of
which the old listing has any two with the same or another kind and size; `OneByte` lies between the two sizes, so that a number
can shrink and grow over it. `RootSize` only fixes the root's own size, and `OldFoldersSmall` that of the old folders,
which is compared with the size of a new file of that name only.
In `webdav` five nodes and bytes are two directories with a file of two bytes, or files in both; one handle writes while
the other request moves, copies or deletes. `MaxTotal` bounds nodes and bytes together, `MaxId` and `MaxLen` each of them.
In `backup` four records are the root and three others: two namesakes with a child of one of them, a cycle outside of the root, or
a chain of three. The name `c` splits into the other two and ends with a separator, so that it lies inside of `a`, is a folder although
it is a file, and meets paths that are there. A volume of four sectors with reads of up to one and a half of them has reads inside of the buffer, past it, across a boundary
and beyond the end. `Sizes` and `Counts` are one value there, since metadata is left out.
Three requests in `commands` are one that holds an old index, one that waits for a new one, and one more.
`MaxSlots`, `MaxGen`, `MaxPipe`, `MaxCandidates`, `MaxId`, `MaxRecords`, `MaxOld`, `MaxDepth`, `MaxLen`, `MaxTotal`, `Total`, `MaxTree`, `Size`, `MaxRead`,
`MaxCached`, `MaxBuilt`, `RootSize`, `OldFoldersSmall` and the sets `Sizes`, `Counts`, `Names`, `Bytes` are all the bounds; a `Vec` that would grow
past `MaxSlots` is a disabled action, which the instances reach only with more futures than slots.

Deadlock is checked in the runs of `CancelSignal`, `WinFspMemFs` and `BackupCommand` (where the end of the command is a step of
its own). The others stop on purpose: when both
processes have ended, an iterator or the filter is done, the builder has panicked, or no more nodes may be created and none
is left to remove.

## 5. Fairness

`CancelSignal`: each thread inside a call takes its next step if that stays possible (the scheduler);
no thread must make a call, and no timeout must expire, since a duration may be days.
`CleanupProcess`: each thread with a write that stays possible, the child, its clock, and the thread
that waits for the child; no file must be closed and no process must die. Weak fairness is enough for
the mutex because a thread inside it always leaves. `WizTreeBackup`: the run thread, the propagation
of a cancellation (which `cancel_live` shows of `CancelSignal`), the progress thread, the death of
killed processes and of those of a closed job, and the cleanup process. WizTree itself is never
assumed to end, and neither is a user's Ctrl-C. `ViewCommands`: the run thread, the death of killed processes and of those of a closed job,
and the cleanup process; an input may end at any time but need not be short (`CopySome` repeats for as long as it likes, so `ViewEnds` only speaks of what follows a cancel
request or a crash), viewers stay open as long as their user wants. `FsIndex`, `DiffFilter`, `WebDavMemFs`, `WinFspMemFs`, `BackupCommand`, `MftReader` and `IndexCache` have
safety properties only and no fairness.

## 6. Proofs

Checked by TLAPS for every value of the constants that meets the named assumptions: special values are distinct
(`ConstantsAssumption`), bounds are natural numbers (`CandidatesAssumption`, `CacheAssumption`, `WebDavAssumption`,
`IndexAssumption`), a sector is not empty and there are finitely many handles (`ReaderAssumption`), an MFT is read at
least once, as the caller asks for two attempts (`BackupAssumption`; `backup.rs:213`), splitting a name gives at least one
piece and leaves a blank one as it is (`SplitAssumption`), and the root is named
like nothing that is in it (it has no name of its own).

* `CancelSignalProofs`: `TypeCorrect`; `SlotsCorrect` (`SlotsOwned`), `LinksCorrect` (`NoLeakedLink`), `WakeupsCorrect`
  (`NoLostWakeup`) and `WokenCorrect` (`WokenWakers`), for any number of signals, threads, futures and slots. None of
  them is inductive: that a slot is not overwritten depends on who else can have its index. `SlotInv` says for each future
  which of its states fit which slot or which entry of the taken wakers (`FutureInv`), that a handle not stored yet
  belongs to one call (`OwnersInv`), that linked handles and the tables of their children agree
  (`LinksInv`), and that tables are taken once, by the cancellation (`TablesInv`). There is one lemma for each
  action and one for each kind of change to a table. `SignalsImplementTree` is the refinement of `CancelTree`
  (`ImplementsTree`): `TreeInv` adds what a call carries (`CallsInv`), the reason of a parent that is canceled, and
  `SlotsGiveMeaning` says what a link of the abstract state is for a child that is not canceled: a handle with a slot, or
  a call on its way. Each step then is a cancel call, an inherited cancellation, a change of links, or nothing.
* `WizTreeBackupProofs`, on `CleanupProcess`: `CleanupTypeCorrect`; `FramingCorrect` (`MessagesFramed`), for any number of
  threads and any pipe; `HoldersCorrect` (`HoldersGuarded`); `PromiseKept`, that the two processes
  implement `TempFileGuard`. Framing alone is not inductive: it needs that the thread at `body` is
  the one that holds the mutex and that a thread at `quit` is alone, with no owner and no guard value
  left; so the invariant has these facts about who may still write. The refinement goes action by
  action: the write of a path is the abstract guard or forget step, every read by the child leaves
  `Guarded` unchanged.
* `WizTreeBackupProofs`, on the command: `TypeCorrect`, `SuccessCorrect`, `GuardCorrect`, `QuitCorrect`, all from one
  inductive invariant `IInv`: types, which states the two WizTree instances can have at each phase
  (`WizInv`), when the export is complete (`DataInv`), which temporary paths can exist (`FileInv`),
  and `GuardedWhilePresent` itself. For `QuitCorrect` it says that a process which `peek()` has started is out of
  reach only if the run dropped it. `SuccessIsComplete` is not inductive: that the output is complete
  at `close` depends on what WizTree was when the loop over its processes ended.
* `ViewCommandsProofs`, on `WinFspMemFs`: `MemTypeCorrect`, `NamesCorrect`, `UnwrapsCorrect`, `ReplacedCorrect`, for trees of any
  size and depth. The invariant adds that ids above `prevId` are unused, that a count never
  exceeds the number of handles of its file, and that each file but the root has a parent. The
  argument about paths is in `ReachableParent`, the one about `rename` in `RenamedNames`, which
  says what the directories contain afterwards (and shows the lost name of the finding).
* `ViewCommandsProofs`, on the commands: `ViewersCorrect` (`ViewersSeeAll`) and `LeftCorrect` (`OnlyTheseAreLeft`). `ViewInv` says which
  phases each command has (`FlowInv`), which stage of `TempFileGuard` goes with them (`StageInv`), that the cleanup process
  knows the one path that can exist (`GuardInv`), when the file is complete (`FileInv`), when a viewer may run
  (`ViewerInv`), and what is left after each drop (`DropInv`). `ViewersSeeAll` needs in addition that whoever still looks at the file
  (`LookingInv`) is one that the run is watching, has been lost, or is the second instance; a removal then finds no reader
  (`NobodyReads`), and every removal, by the run or by the cleanup process, keeps the property (`DropPathSeen`). `CacheTypeCorrect`, `OneIndexCorrect`: at most one index in memory, for
  any number of requests. A request that finds no index is alone, since whoever had one would have kept it alive for the `Weak`.
* `BackupCommandProofs`: `BackupComplete` (`SuccessListsEverything`), `ListedOnce` (`NothingListedTwice`) and
  `KnownPanicsOnly` (`PanicsOnlyThere`), for an MFT with any number of records and any parents, cycles included, and for any tree
  and order of jwalk. The argument has three parts. `LookedUp` says what the table of children holds for whichever order
  the hash map is read in, and `OneRemains` that of namesakes one is kept. `BuilderInv` says which folders the builder has open,
  and `Target` that the iterator and the builder agree about them; for the iterator over records `ListingInv` follows
  a chain of ids with different numbers for each path (`Reached`), which is why a cycle is never entered, and `ListingComplete`
  says that in the end each record with a chain to the root is listed. `Listed` is what the paths handed over split into (`Cuts`); with names that are whole and the right root
  (`Sound`) no path is cut, the builder refuses none and none comes twice. For the walks `VisitedListed` says that only visited
  entries are listed, `RootlessInv` what holds before there is a root, and `AboveEntry` and `AboveNode`
  that what is above the next entry is open, or was skipped. `BackupInv` says which of these hold in which phase.
  `ReaderImplementsStream` (`ImplementsStream`) is for any size of sector, volume, read and cache: `ReaderInv`
  says that the buffer holds the bytes right before the position of the `SectorReader`, and each cached read
  the bytes of the place it was read at; the arithmetic of the alignment is in `AlignBounds`.
* `WebDavMemFsProofs`: `TreeCorrect` (`TreeShape`) and `PathsImplemented` (`ImplementsPaths`, the refinement of
  `PathFiles`), for trees of any size and depth. `TreeShape` speaks of a parent and its children; what makes it inductive
  is that there is a path for each node (`Tree`), which no cycle of parents has. `LookupPath` and `LookupNode` say that a look-up
  by segments leads to the node with that path and to no other. `Adding`, `Unnaming`, `Removing`, `Refilling` and `Moving` are
  the changes to a tree and to its paths, `CreatedTree`, `DeletedTree`, `RenamedTree`, `OpenedTree`, `CopiedTree` and `WrittenTree` the
  operations that use them. For the refinement the paths give the files (`FilesAre`) and the place of an open file (`SeenIn`), also of
  one that was removed or replaced while it was open.

* `FsCursorProofs`: `CursorCorrect` (`CursorConsistent`) and `PathsFound` (`GoToPathFindsEntry`), for any listing, names, order
  and fold of names. `BuildInv` is what the builder makes of the records so far: each metadata record has a path (`Indexed`)
  which the children of its folder agree with (`Attached`), no two have the same (`OnePath`), each is in some folder (`Owned`), and
  the paths are those of the listing (`Recorded`). `FolderStored`, `FileStored` and `FolderOpened` are its three changes, and
  `SortedMoves` says that the sort only moves children. `Positioned` is what a cursor keeps: its folders are a chain
  from the root (`Trail`) and the cache is cut in the right places (`Cached`); `Raised`, `NextChanged`, `ChildSelected` and `CacheFilled` are
  the parts that its moves are made of. `GoStepFinds` is one name of a search: it fails only if nothing folds to the names so far.

  The rest of the module is for `DiffFilterProofs`: a walk through an index from which names are removed as they are visited
  (`WalkStarts`, `NextStep`, `OnWalkKept`), which needs of each name only that it is there until the walk has passed it.
* `FsOutputProofs`: `CsvCorrect` (`CsvGivesListing`) and `QDirStatCorrect` (`QDirStatComplete`), for any listing, options and sizes. It
  says first how a listing is ordered, folder by folder (`ListingInv`, `InOrder`), and then what the builder keeps of it
  (`Faithful`): each record with its size, children in the order of the listing or of the sort (`AsListed`, `AsSorted`), and the counts
  and sums of each folder, of the open ones as far as the listing has come. Neither output is inductive by itself, since it is written by
  a walk. `Passed` says which entries come before the cursor's; a walk passes each once, a folder before what is in it, all of a
  folder without interruption (`Together`) and its children in their order (`Siblings`, `Following`). `WalkInv` says that the lines so far are those
  of the entries passed (`CsvAt`), `QDirStatInv` which lines are due at the position of the cursor and the next file (`Due`,
  `QAt`) and which have been printed (`Printed`, `InLine`); at the end of the walk that is all of them.
* `DiffFilterProofs`: `FilterNeverPanics` (`DiffNeverPanics`), for any two listings, names, folds and sizes. `FilterInv` says
  where each cursor is in each phase: the walk over the new index has passed what was removed and nothing else (`Walks`), the
  folders that are not left yet are those around it (`Opened`, `Alongside`), and the cursor on the
  old index is somewhere in it, so that each look-up finds its path (`LooksUpIn`). Open folders lie in one another,
  so that a folder is finished after everything below it (`FolderEntered`, `FileVisited`, `FolderLeft`). The totals are
  sums of numbers (`SumIsNumber`), and what the code writes over the old total is limited by it (`LimitedIs`), so the encoding is
  never longer than the one it replaces; this is why the update in place cannot fail.

Some of these follow a path, a chain of parents, or a list to its end, which takes an induction. `Induction` of
`BackupCommandProofs`, `WebDavMemFsProofs` and `FsCursorProofs` is one over natural numbers, proved from the least number of a set (`LeastNumber`)
and used with a set of numbers for which the claim holds, since the prover cannot instantiate an operator. What is
followed is a recursive function, which each proof first shows to exist.

One translation of this version of the prover must be avoided: it takes `S \cap {"a"}` to be empty for some sets `S` that are written as
an enumeration. Where a set of two processes meets a set of states, the definitions say `\E` (`Held`, `ExportHeld`), and no proof
depends on such an intersection.

Only model-checked: what the filter leaves (`FilesDiffer`, `FoldersAddUp`), which relates the folders of two indexes, one of
them being changed, to the whole of both listings, and every
liveness property (fairness and ENABLED are outside of the prover).

## 7. Findings

`winfsp_rename`: `rename` says "Update new parent to point to child" (`winfsp_memfs.rs:638`), then
removes all names of the file from its old parent (649). If that is the same directory, the
new name is removed as well: the call succeeds and the file is lost from the directory. A
later rename of the same open handle into another directory brings it back. WizTree does not
rename its export, so backups are not affected.

### Seen in the code and not checked by a run of their own

Cancellation:

* `wait_future` says "The callback will be canceled if the future is dropped." (`cancellation.rs:384-385`). A drop
  after the signal was canceled returns at once (165-168), while the canceling thread may still hold the taken waker
  and call it later (226-229). The callers in this program tolerate it; `WokenWakers` states the exact exception.
* `wiz-tree-backup` promises to end WizTree and remove temporary files on cancellation (`lib.rs:76-77`, line 34 of the
  repository's README). If WizTree handed its work to a second instance, only the first one is killed
  (`utils.rs:315`); the run leaves the loop at `utils.rs:416-419` while the other still holds the export file,
  the removal fails unseen, and the cleanup process is told that nothing is left. The file stays.
  `QuitMeansClean` states the exact exception and is proved.
* `wiz-tree-open` leaves its file in the same way while the second instance has it open, and removes it under a second instance that
  has not opened it yet.
* When the first place where WizTree may be fails, `peek()` starts it from the second one (`utils.rs:277`); a cancel request at that moment
  returns at 292 and drops the running process without ending it or waiting for it. It may hold the file that is then to be
  removed. `QuitMeansClean`, `ViewersSeeAll` and `OnlyTheseAreLeft` have this exception.
* `wiz-tree-open` promises the removal of its file on cancellation (`lib.rs:125-126`); the exceptions are those of `OnlyTheseAreLeft`.
* A walk that is canceled before its first entry has no root record, which the builder expects (`fs_index.rs:1002-1009`): a panic.

Scans:

* The retry loop (`backup/mft.rs:38-67`) gives up at `attempt + 1 == retries`: two retries are two attempts, and none
  would end in `unreachable!`.
* An MFT without a root record panics (`backup/mft.rs:454`). The children of a folder that is removed as the duplicate of
  another are not listed (422-444).
* "Gracefully skip unreadable/permission-denied paths" (`backup.rs:307`): when the entry of a folder is skipped and its
  children are listed, the builder panics. A path that is not there has no records, also a panic (`fs_index.rs:1007`), and so
  has one that is a file (1126). When only the metadata of the folder walked through cannot be read, the first entry
  in it is taken for the root, the paths of its siblings lose as many characters as it has, and the backup may
  report success. `SuccessListsEverything` leaves this case out, and `PanicsOnlyThere` names the panics.
* On Linux a name may contain `\`, at which the builder splits (`fs_index.rs:1146`): the file is listed at a path that does not exist, or
  the builder panics because the folders of that path were not listed. What ends with `\` becomes a folder (133).
* A blank name in a snapshot becomes one more segment of its path (`edirstat_snapshot.rs:81-88`), so that the builder panics
  at what is inside of such a folder. A name with a separator is a panic of its own (92-98).
* `align_up_to_sector_size` adds a sector to what is aligned already (`backup/sector_reader.rs:53`), so that a read up to the end of
  the last sector fails.

Index and diff:

* `recount_children` "discards child counts that are provided to the builder" (`fs_index.rs:787-788`). They are discarded
  without it too, for each folder but the root (1210), and then nothing counts again. `diff` reads CSV files without
  the option and limits the counts it writes to those in the index (`diff.rs:366-367`), so the folders in its output have
  no files.
* "new-or-changed" removes entries "that exactly match existing entries" (`diff.rs:58-60`), but a folder that matches, and whose children
  all match, is removed only if it was empty before; any other stays, as an empty folder of size 0. `FoldersAddUp` states
  what the code does: an empty folder goes if it was empty with the same date and attributes before.
* A root path of separators alone has no line in the QDirStat output and neither have the files right in the
  root (`fs_index.rs:1821`), which `QDirStatComplete` states as an exception; `go_to_path` through a file ends at that file,
  not at the closest folder as documented (1573-1574); `MAX_BINARY_SIZE` (235) counts 9 bytes for each number of a drive's
  information where a flag and a number of variable length can take 10.

Outputs:

* With `--overwrite` the old backup is truncated before the scan (`backup.rs:179`, `wiztree_backup.rs:395`), so an interrupted
  run loses it. A temporary file exists for a moment before it is guarded (`wiztree_backup.rs:370`), which
  `GuardedWhilePresent` allows for.
* The gzip encoder is dropped and not finished (`backup.rs:237`, `diff.rs:272`, `embedded_edirstat_backup.rs:251`;
  `wiztree_backup.rs:645` finishes it), so that an error of the last write is not reported (`WriteRest`).

Memory file systems and `mount`:

* WebDAV: a path through a file leads to that file, copying a directory makes a directory without children.
* WinFsp: `write` past the end of a file appends at the end, where its parameter says "Start write at" (`winfsp_memfs.rs:722`),
  and `overwrite` (549) keeps the old data.
* `mount`: Quit is sent before the symbolic link is removed (`mount.rs:413`), and the cleanup process is not told of the drive
  (582, a TODO). The drive stays if `net use /delete` fails, which is only logged (612-618), and if `net use` succeeds with an output
  that is not understood (659-670), as in a Windows that does not speak English. `q-dir-stat-open` has no cleanup process.

## 8. Not modelled

The content of WinFsp files, since reads and writes there do not depend on anything but offset and length; the bytes of a
metadata record beyond the width of its numbers, and `FsFolderWriter`, which nothing uses; properties and
times of WebDAV nodes; how metadata is found in the attributes of an MFT record; the scan of the eDirStat library;
how drive letters, volumes and executables are chosen. WizTree's CSV format, logging, the
command line and the build script have no behaviour over time. The calls of the operating system appear by what
they can do to the modelled state.
