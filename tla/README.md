# TLA+ models of SQLiteMemfs

SQLiteMemfs is a VFS for SQLite that keeps database files in memory: a DLL of C
code behind the `sqlite3_vfs` and `sqlite3_io_methods` tables, a small native
API beside it (`memfs_readdata` and its kin) and a .NET facade with a stream.
This directory has its TLA+ models, the TLC configurations that check them and
machine-checked proofs. Paths below are relative to `src/SQLiteMemfs/` unless
they begin with `src/`.

## The system

| Component | State | Operations | Talks to |
|---|---|---|---|
| File lock (`memfs_file_io.cpp`) | `nLock` of each `file_object` | xLock, xUnlock, xCheckReservedLock | reads every handle in `pRefs` of the file |
| File contents (`memfs_file_io.cpp`) | `pChunks`, `nSize` | xRead, xWrite, xTruncate, xFileSize | malloc |
| Files of the VFS (`memfs_vfs.cpp`, `memfs_file_data.cpp`) | the list of files, `nRef`, `pRefs`, each handle's `pData`, `pMethods` | xOpen, xClose, xDelete, xAccess | the lists, malloc |
| Linked lists (`file_list_item.cpp`) | circular list with a critical section in its head | create, add, delete, destroy | critical sections |
| Native API (`memfs.cpp`, `vfs_object.cpp`) | `refCount`, the VFS object | init, destroy, getsize, setsize, readdata, writedata, delfile | xOpen, xLock, xRead, xWrite, xTruncate, xUnlock, xClose |
| `MemfsStream` | position, filename, disposed | Read, Write, Seek, SetLength, Length | the native API |
| `Memfs` (`SQLiteMemfs.cpp`) | disposed | GetStream, Delete, Destroy | memfs_init, memfs_destroy, memfs_delfile |
| Critical sections, `DllMain` | one global mutex | enter, leave | Win32 |

SQLite calls the VFS from any number of threads, one call at a time on one
connection's handle. The mutexes cover little: a link put into or taken out of
a list, and the creation of a file. The searches of the lists, `nRef`, the lock
levels and the contents are shared without one. What is hard is therefore the
order of calls on different handles (locks, reference counts, creation against
deletion), malloc failing half-way, and the arithmetic at the ends of chunks and
of files. Nothing is persisted: there is no crash recovery. `PROJECT.json` has
the hazards one by one, at their lines.

What makes each component correct:

* lock: no two handles own conflicting levels; a RESERVED lock lets readers drain;
  xCheckReservedLock misses no writer;
* contents: a file is the bytes last written to it, and a failed call harms nothing;
* files: one file to a name, shared by all who open it; none lost, none used after
  it is freed; a count that is right;
* API, stream, lifecycle: calls end, positions and counts agree with the file,
  files last exactly from `memfs_init` to `memfs_destroy`.

## The modules

| Module | What it is |
|---|---|
| `LockLevels` | the five levels and `max_lock`; `Conflict`, what no two handles may hold |
| `LockTable` | abstract: a request is granted in one step if the table admits it |
| `MemfsLock` | the calls on the lock, every visit of a list item a step |
| `ByteFile` | abstract: a file is a sequence of bytes |
| `MemfsFile` | the chunk list and `nSize`, one action per way through each call |
| `MemfsVfs` | creation, references, deletion and unload of files under several threads |
| `ObjectList` | abstract: a sequence of objects that are appended and taken out |
| `FileList` | the list of files pointer by pointer, walked without its mutex |
| `MemfsLifecycle` | extends `FileList`: init, destroy, the count of users, the teardown |
| `MemfsApi` | readdata, writedata and setsize as programs, handles coming and going |
| `MemfsStream` | extends `MemfsFile`: the stream's position against what calls return |
| `MemfsLockProofs`, `MemfsFileProofs`, `MemfsVfsProofs`, `MemfsLifecycleProofs`, `FileListProofs`, `MemfsApiProofs`, `MemfsStreamProofs` | theorems about the module named; `FileListProofs` about the list and its teardown, of `MemfsLifecycle` |
| `MemfsLemmas` | lemmas about levels, lists and induction that several of them use |
| `MCMemfsLock`, `MCMemfsFile`, ... | values of the constants for TLC |

Composition: `MemfsApi` is an implementation of `LockTable` as `MemfsLock` is, with the
handles of `MemfsVfs`'s xOpen and xClose in place of fixed ones. `MemfsLifecycle` runs
init and destroy beside the calls of `FileList` on one list. `MemfsStream` runs the
stream on the file of `MemfsFile`, beside the calls of others.

Definitions called `...Unchecked`, `...KeepsFile` and the like, marked *mutant*, are
plausible errors. They are no part of the specifications; `PROJECT.json` says
which property notices which of them.

### Lock

`op`, `want`, `ptr` and `pResOut` are the call running on each handle and its
locals; `nLock` is the field of `file_object`. `LockBegin` is the test "already
held" and the start of the `for` loop, `LockScan`/`LockBusy` one round of it,
`LockGrant` the store. `Unlock` is a single store. Handles stay open throughout.
Two history variables record which calls overlapped: `raced` (pairs of xLock calls,
until one of the two handles is back at NONE) and `missed` (the handles that were
inside xLock during a running xCheckReservedLock).

xLock checks and then stores with no mutex. The promise the comment "no conflict;
execute" makes is therefore false (run `lock_race`), and every other property
says what is left: conflicts arise between calls that overlapped and no others.
`LockTable` has the same exception, so the implementation is a refinement of it for
any number of threads; with one thread `raced` stays empty and the table is an
ordinary one.

### Contents

`chunks` is the list of buffers, byte by byte; a byte that malloc returned and
nobody stored to is `Uninit`. `ReachAndStore` is the loop of `memfs_io_Write`: the
number `n` of chunks it ends with is the smallest that fits the range, or any smaller
number when malloc fails (malloc may fail anywhere, and always does beyond
`MaxChunks`). `Zeroed` is the loop without a buffer, which xTruncate uses to grow.
`ret` records the last call's arguments and results, so that `ByteFile` can say what
a call may return and do. `iDeleted` is left out: nothing ever sets it to 1.

`PagerSpec` is how SQLite's pager uses a file: it truncates only to shrink.
`Spec` adds what `MemfsStream::SetLength` can do: any size, negative ones too. A file
given size -1 keeps it through a resize to 0 (a write of no bytes); `ResizeExact`
excepts it. `ByteFile` promises nothing about the gap a write leaves beyond the old
end, nor about the bytes beyond the end that a read starting inside the file
returns: xRead copies what the chunk holds there, also after a truncation, and
reports SQLITE_OK when the chunk is long enough. The second is against SQLite's rules
when it reports a short read (run `file_short`).

The calls on a file are one at a time in this model. In the program xWrite and
xTruncate run under the EXCLUSIVE lock, which holds as far as `MemfsLock` and
`MemfsApi` say.

### Files of the VFS

A step is what a thread does to shared memory at one point: a search of the list, the
mutex, the load or the store of `nRef`, a link. `call` has each thread's place and
locals. xOpen's double-checked creation is `OpenSearch`, `OpenEnter`, `OpenRecheck`,
then malloc (`OpenAlloc`, `OpenAllocFails`) and `init_file_data` with `add_link`
(`OpenInit`, or `OpenInitFails`, which frees what was made and leaves the handle's `pData`
as it is); `nRef += 1` is `OpenReadRef`, `OpenWriteRef`; the handle's link is `OpenLink`, or
`OpenLinkFails` and `OpenUndo` when there is no memory for it. `DeleteSearch` to
`DeleteDestroy` are xDelete, `UnloadBegin` to `UnloadEnd` the loop of `memfs_destroy` over the
files; both look at `nRef` before they free one (`UnusedOrStop`). A use of a freed file
makes the status "undefined", a failed assertion "assert" (a debug build; the step of a
release build, which goes on, is there too), and the program stops.

History variables: `lost`, the files a store of `nRef` has overwritten another's
update of, and `unsafe`. The latter is set when an xDelete meets a call on its name or
the unload any call, whichever comes first; when a build without assertions goes on to
delete a file in use, or a lost update hides that it is in use; and when
`OpenLinkFails` happens. To *try* to delete or unload a file that has open handles is
not unsafe: the assertion stops it, and `OpenIsListed` and `NoUseAfterFree` say that no
harm is done by then. The properties that begin with `~unsafe` are therefore about
programs that do not call xDelete in the middle of another call on the name: SQLite
deletes a journal after closing it, under the database's EXCLUSIVE lock; `memfs_delfile`
and `memfs_destroy` leave the rule to their callers. Without it the code has no defence
(no mutex), and the hazards say so. `UniqueNames`, `NoLeak` and `MutexOwner` need no
such rule.

xAccess and the calls delegated to `pNext` change nothing. xOpen without a name
fails at once. A search and a link are single steps here, which is more than
the code gives: `NoUseAfterFree` is about the files. That a walk may stand on the
*link* of another name when that is freed is seen in `FileList`.

### The list, pointer by pointer

`FileList` has the memory of `file_list_item`: `prev`, `next`, `obj` of each address,
`alloc`, and the `files` that are allocated. `add_link` and `del_link` are a step for each
store to a link (`LinkNext`, `LinkPrev`, `UnlinkNext`, `UnlinkPrev`, `Free`, `GoOn`), a walk is a
step for each link. `owner` is the critical section in each head; it is entered again by
`add_link` inside xOpen's. `get_vfs_object` makes the list on first use, with no
mutex (`MakeList`, `MakeListFails`). Freeing a link turns each pointer to it into
`Freed`; `Fault` is the step through such a pointer, through NULL, or to a file that has
been freed.

A file is an address (`zName` is the name of the file that malloc will put there; one name
has several). A search compares names, `del_link` compares the address that its xDelete
found, so that a file made anew under the name in the meantime is passed (`DelPasses`)
and the old one is freed again. `Destroy` is `destroy_file`, of xDelete and of the teardown.

Histories: `overlap` is set when a call that takes links out, or makes the list, runs
at the same time as any other call. `broken` is set when a step does harm: memory
(of a link or of a file) freed under a pointer of the list or of a thread, a link taken
out twice, the teardown inside the stores with another thread (`Meddles`; it alone takes
no mutex), a list made in place of another. `seen` says of every search whether its file
has been in the list, and out of it, since the search began.

What the properties say together: the critical section is enough for the writers
(`RingWhole`), the list is a sequence for whoever uses it (`ListSpec`), a search without
the mutex tells the truth of some moment of its run (`SearchIsHonest`), and harm
comes from removals beside other calls only (`OnlyOverlapBreaks`): additions beside
searches, which is what SQLite does most, need no mutex. The harm is real: an xDelete
of one name beside a search for another may free the link the search stands on. It
is listed as a hazard; no sentence of the repository promises otherwise.

### Init, destroy and the facade

`memfs_init` is `InitCount`, making the list, `InitRegister`; `memfs_destroy` is
`DestroyCount`, `Unregister` and the loop `TearBegin` ... `Free`, `Destroy`, `GoOn`, `TearEnd`,
which takes links out as `del_link` does and frees each one's file, under the global
mutex `sync` but not under the list's. The assertion about the file's count in that
loop is in `MemfsVfs`, which has the counts.
`Dispose` of a facade object is two steps, the test of the flag (`DisposeTest`) and its
setting (`DisposeSet`); `twice` records that two threads got through the test. Files
are used by anybody at any time, facade or not.

### Transfers of the API

`pc` is where a thread is in `memfs_readdata`, `memfs_writedata` or `memfs_setsize`, or in a
transaction of SQLite on the same file: open (the new handle is linked), ask for
SHARED and spin, ask for more and spin, transfer, go back to SHARED (`Downgrade`) and
to NONE (`Release`), close (the handle is taken out). xLock's walk is a step for each
link of a list that changes under it; a walk that stands on a closed handle's link
is undefined behaviour when it goes on (`LockFreed`). So is a transfer whose open failed,
since nobody looks at its result (`OpenIgnored`). No property says that these do not
happen, because they do; all say what holds up to there. `raced` is as in
`MemfsLock`.

### The stream

The position is moved by whatever the native calls return: a count, a difference of
sizes cut to an int, or an error code. `ReadReturns` and `WriteReturns` are those
results, `Signed` the cut. `Others` are SQLite and other streams, which write, resize
and delete the file between the stream's calls.

What the checks showed about reads: one that begins inside the file and ends in the
tail of the last chunk returns its full count, with bytes from beyond the end. The
position is then past `Length`, and the next read returns a negative count, which takes
the position back to the end; only the read after that returns 0. A loop "until 0"
ends (`ReadsReachEnd`), with bytes too many if it trusts the counts; so does a loop that
stops at the first count below 1. Beyond the end by more than an int holds,
the cut count moves the position anywhere; `PositionStaysInMemory` excepts it.

## The runs

| Run | Bounds | Shows |
|---|---|---|
| `lock_calls` | 3 handles, 3 threads | `TypeOK`; `ExclusionUnlessRaced`, `ReservedClosesDoor`, `NoWriterMissed`; `TableSpec`: `MemfsLock` implements `LockTable` |
| `lock_race` | 2 handles, 2 threads | `NoConflictExecute` is violated: finding at `memfs_file_io.cpp:150` |
| `file_pager` | chunks of 1, 2 and 2 bytes, all offsets, reads of 0 to 4 and writes of 0 to 3 bytes | `TypeOK` with the sizes of chunks; `Covered`; `FileSpec`: `MemfsFile` implements `ByteFile` |
| `file_short` | as `file_pager` | `ShortReadZeroFill` is violated: finding at `memfs_file_io.cpp:53` |
| `file_grow` | two chunks of 3 bytes, `SMALL_SIZE` 0, sizes -1 to 7 | `GrowKeepsData` is violated: finding at `memfs_file_io.cpp:80` |
| `vfs_calls` | 2 threads, 3 handles, 2 names, 2 addresses | `TypeOK`, `MutexOwner`, `UniqueNames`, `NoLeak`, `OpenIsListed`, `NoUseAfterFree`, `RefsCounted`, `RefsDieEmpty` |
| `vfs_lost` | 2 threads, 2 handles, 1 name | `UnusedHasNoRefs` is violated: finding at `memfs_vfs.cpp:56` |
| `vfs_nomem` | 1 thread, 1 handle | `FailedOpenCloses` is violated: finding at `memfs_vfs.cpp:59` |
| `lifecycle_calls` | 2 threads, 2 names, 3 addresses of files, 4 of links, 2 facade objects; no step beyond the one that breaks the list | `TypeOK`, `RingWhole`, `OnlyOverlapBreaks`, `SearchIsHonest`, `ListSpec`: `FileList` implements `ObjectList`; `CountsUsers`, `FilesStay`, `UnloadEmpties` |
| `api_calls` | a reader, a writer that also resizes, a transaction | `TypeOK`, `TransfersExclude`; `TableSpec`: the lock is a table with changing handles, too; `CallsEnd` |
| `api_writers` | a writer and a resizer | `CallsEnd` is violated: finding at `memfs.cpp:92` |
| `stream_calls` | chunks of 2 and 4 bytes, `INT_MAX` 3, `LLONG_MAX` 8, positions -9 to 8 | `StreamTypeOK`, `Covered`, `ResizeExact`, `ShortOnlyAtEnd`, `PositionStaysInMemory`, `ReadsReachEnd` |

Why the bounds are enough. Locks: every rule is about two handles, a third makes a
walk pass one item before the other and leaves one to disturb from; the
proofs cover the rest. Contents: the code tells apart inside a chunk, across one
boundary and over several, at, below and above the end, below and above the largest
chunk; three chunks of 1, 2, 2 bytes have all of these, and `LLONG_MAX` is one more
than they hold, so that the overflow test and the failing malloc are both met.
`SMALL_SIZE` is below `CHUNK_BASE` as 10 is below 8192; in `file_grow` it is 0, so that
every growth is the write of one byte at the new end (line 111) and what the run
shows is the memset's. (A growth to a small size writes that many zeros from offset 0,
line 112, and overwrites what the file had in its own way.) Files: two threads make
every race of the code (each is between two calls), three handles make the list of
references longer than `clear_file`'s assertion notices, and two names against two
addresses make files be freed and addresses reused. `RefBound` stops a count that lost
updates from drifting for ever; `Files` that are freed while still linked are not handed
out again. List: two files, a head and a head made in its place are four addresses;
a list of two links has a first, a last and neighbours; walks, additions and
removals meet in pairs. One name has two addresses for its file, so that it is made
anew while a pointer to the old file is left. The properties that are about the list promise something
only until it is broken, so that the run stops there (`Unbroken`); `TypeOK` and
`CountsUsers`, which promise more, are proved for broken lists, too. `Lowest` is how far below 0 a count may be taken by
disposing twice: at -1 an init that does not register is within reach. API: one
thread of each kind; two of them that both want EXCLUSIVE are `api_writers`'
subject. Stream: `INT_MAX` below the capacity makes the cut of a difference go
either way, the error codes are small enough to be taken for counts of bytes in the
file, and one value of a byte is enough, as no property of the stream looks at
bytes (`Covered` and `ResizeExact` are about sizes).

Threads, handles, names and addresses are alike, and symmetry is used
for safety properties only. `CHECK_DEADLOCK FALSE` is said of the runs of `MemfsVfs`,
`MemfsLifecycle`, `MemfsApi` and `MemfsStream` because those programs stop at a failed
assertion or at undefined behaviour.

## Fairness

Two properties say that something happens.

* `CallsEnd` (`MemfsApi`): weak fairness of every thread's steps. The loops of
  `memfs.cpp` sleep and ask again, so a thread in a call always has a step, and the
  operating system schedules it. Strong fairness of `GiveUp`: the number of times
  SQLite's busy handler lets a transaction ask is finite, so one that is refused for
  ever gives up. No more is assumed, in particular not that a lock that is free now
  and then is met free: `CallsEnd` is therefore about what happens once no new calls
  are made. It fails for two writers with nobody's help.
* `ReadsReachEnd` (`MemfsStream`): weak fairness of `Reading`: the caller that reads in a
  loop is scheduled. The property's premise, `OnlyReads`, is that nothing else goes on
  any more and that the file has a size of 0 or more.

## The proofs

Every safety property that a passing run checks is also a theorem, for every value of
the constants that the modules' assumptions allow. `PROJECT.json` lists them; this
is how they are argued. An `IInv` is an inductive invariant: it holds initially, every
step keeps it, and it implies the property.

### Lock (`MemfsLockProofs`)

For every number of handles and threads and every set of requests `LockAssumption`
allows (no request names PENDING; unlocking goes to SHARED or NONE).
`ExclusionUnlessRaced` is not inductive: when a level is stored, the walk that
allowed it is over. `IInv` adds what a walk under way has established
(`ScanSound`: each item behind it tolerates the request or belongs to a call that
overlapped; `CheckSound` likewise), that overlapping calls are on record
(`BothLocking`, `CheckOverlap`, `RacedSymmetric`) and that a request is one of those
allowed (`WantRequested`). The two facts about levels it rests on are lemmas: what a
request tolerates does not conflict with it, and lowering a level creates no
conflict. The action property and the refinement `TableTheorem` follow from `IInv` at
`LockGrant`, the refinement with `LockRises`, an invariant of its own: a running
xLock asks for more than its handle holds.

### Contents (`MemfsFileProofs`)

For any chunk sizes, memory, payloads and arguments `FileAssumption` allows (a small
file fits into the first chunk; the arguments are integers). The list of chunks is
read as one sequence of bytes by `FlattenSeq`, a recursive function. The first part
shows what it computes (`Placed`): byte `i` of chunk `k` is byte `Start(cs, k) + i` of the
file, the start being the sum of the lengths before it, and every byte is one of these. The library's theorems about
induction take an operator and cannot be used with the provers at hand; the lemmas
`Induction` and `InductionTo` (in `MemfsLemmas`) take the *set* of the numbers a statement
holds for instead, and follow from the order of Nat being well-founded.

`IInv` is the types, `Sized` (each chunk has the size the loop of xWrite gives its place in
the list) and `Covered`. From it come `TypeTheorem`, `CoveredTheorem` and `ResizeTheorem`, and for the
pager's use of a file `FileTheorem`: the list implements `ByteFile`, with the contents
of the file as the refinement mapping, the gap before a write and failing
allocations included. Most of it rests on two lemmas: chunks that are appended leave
the bytes before them where they are (`GrownBytes`), and bytes rewritten in chunks that
keep their sizes are the same bytes of the file (`Rewritten`, `Reshaped`).

### Stream (`MemfsStreamProofs`)

`SInv` is the file's `IInv` with the ranges of the stream's variables. The five theorems
are about integers cut to their width, so the assumptions say what fits
(`StreamAssumption`: the error codes and arguments are of type int). `MemoryAssumption`
says that a sqlite3_int64 can count the bytes of all chunks there is memory for; in
the code that is 8 EiB, more than an address space has.

### Files of the VFS (`MemfsVfsProofs`)

For every number of threads, handles, names and addresses (`VfsAssumption`: `None` is none
of these; they need not be finite), whatever the program deletes and whatever
allocation fails. `UniqueNames` is not inductive: between xOpen's second search and its
`add_link` the new name must stay absent. `IInv` has that for the thread in the
critical section (`NameIsFree`), and for it that there is one such thread (`MutexOwner`),
that no two calls are on one handle (`HandlesApart`) and where each call's locals
stand (`PlacesOK`, `HasFile`).

`Safe` is about programs whose deletions meet no call they could harm: as long as nothing
`unsafe` happened, all listed files are allocated and each is listed once
(`ListSafe`), open handles have listed files that know them (`OpenSafe`), so have the
calls on handles (`CallSafe`), the file in the hands of an xDelete has a name
nobody else has (`DeleteSafe`), and the unload is alone (`UnloadSafe`). That a file
about to be freed has no open handle is known only from its count, so that `Safe` and
`Count` are proved together: the set of the handles that count themselves to a file is
finite, a store of `nRef` that follows its own load adds or takes one, and a store that
does not makes the file one of `lost` (`CountOK`); with what open handles and list of
references have to do with each other (`RefsOpen`, `CloseOpen`). They give
`NoUseAfterFreeTheorem`, `OpenIsListedTheorem`, `RefsCountedTheorem` and `RefsDieEmptyTheorem`.
The last is stronger than `clear_file`'s own assertion, which a list of one handle
passes.

### Init and destroy (`MemfsLifecycleProofs`)

For any number of threads, facade objects, files and addresses. While an init or a
destroy is under way, count and users differ. `IInv` says by how
much (`Counted`), who holds the global mutex (`HolderIs`), which counts send a call
on to make or unload the list (`HolderCount`), and that no object is constructed twice
at once (`InitsApart`). That the sets it counts are finite is a part of it.

### The list, pointer by pointer (`FileListProofs`)

For any number of threads, files and facade objects and a finite number of addresses
(`ListAssumption`), which lets `Chain` follow the pointers to their end: it is a
recursive function here too, and `ChainIs` shows by induction that it is the one
sequence of links that leads from the head back to it (`Circle`). The lemmas after it
say what remains of a circle when a link is put in at the end or taken out.

* `RingOK` is what holds until the list is `broken`: the circle (`Linked`), pPrev leading
  back but for the one link a call is about to store to (`Back`), and of each call between
  two stores where the link in its hands stands (`LinkNextOK` ... `FreeOK`). A step is either
  `Quiet`, touching no link, or one of the seven of `Store`, with a lemma each. This is
  `RingWholeTheorem`; `broken` itself is what the other proofs are about.
* `OInv`, while no call that takes links out or makes the list has met another call: such
  a call is alone (`Alone`), and whoever walks is on the circle (`OnRing`). Then no step
  breaks anything: `OnlyOverlapBreaksTheorem`. `Owned` has the critical section, which
  keeps two additions apart.
* `FileInv` is about the files until the list is broken: every link has a file that is
  allocated (`LinksFiles`), so has every call that has one in hand (`CallFile`), and a file
  that no link has is in the hands of a call (`FilesHad`). `GoneInv`
  (no overlap): after `del_link` the file's link is not in the list any more, which follows
  from the walk having passed all of it.
* `Chosen` (an xDelete takes out the link of its own file) for `FilesStayTheorem`, with
  `MemfsLifecycle`'s count for the teardown's removals. `TearsFirst` (the teardown always
  stands at the first link) and `Carried` (an allocated link that is not in the circle is in
  some call's hands), with `FilesHad`, for `UnloadEmptiesTheorem`: neither a link nor a
  file is left.
* `Searched` for the rest. A search follows pointers that others store to, so its way
  cannot be described by the list as it is. `Ahead(p, n)` says of a search at `p` that it
  comes by `n`: every set of links that contains `p` and that pNext does not lead out of
  contains `n`. `NoneAhead(p, o)` says that some such set has no link of file `o`. Both
  survive each store of the others: a link that is taken out keeps its pNext, and leads
  back into the list. With `seen` this is `SearchIsHonestTheorem`. It also shows that a second
  search inside the critical section misses only what is not there, so that each
  name is listed once (`NamesOK`), which is what `ListSpecTheorem`, the refinement of
  `ObjectList`, needs of `Add`; a removal is that of the first, and only, such object.

### Transfers of the API (`MemfsApiProofs`)

For any number of threads. `IInv` is that of `MemfsLockProofs` with one difference: handles
come and go, so "behind the walk" is said of the order of the list (`Before` in
`MemfsLemmas`), which appending and taking out keep for the others. `LevelsAt`
leads from the place of a call to the level of its handle and so from locks to
transfers (`TransfersExcludeTheorem`). `TableTheorem` is the refinement of `LockTable` by a
list that changes.

### What stays with TLC

The two liveness properties, `CallsEnd` and `ReadsReachEnd`, and the six findings, which
are counterexamples. Liveness under fairness and ENABLED are out of this prover's
reach. The inductive invariants were checked by TLC on the bounds above before they were
proved, which a proof makes no use of.

## Not modelled

* The calls delegated to the default VFS, xSync, xFileControl, xSectorSize and
  xDeviceCharacteristics: no state. xFullPathname copies a name.
* `DllMain`, which makes the global critical section as the DLL is loaded and
  destroys it as it is unloaded: outside all calls.
* The argument checks of `MemfsStream`'s buffers; the finalizer that runs during a native
  call (the lifetime of managed objects is the runtime's); the load of a 64-bit size
  in two halves by `memfs_getsize` in a 32-bit build. The last two are listed as hazards.
* The demo, which only uses the library.
* SQLite itself. It appears as the callers' rules above, and its header as the
  reference for what a VFS owes it. The headers under `src/dependencies/` are vendored
  and are 8,080 of the 9,396 lines counted as implementation, so that the models, which
  cover most of the project's own C++ files, cover a small share of the whole.

`PROJECT.json` names each component with its status.

## Plan

Done: every component with state of its own has a module, a run and the properties
above, and every safety property of a passing run is a theorem. Left:

1. A rule for deletions under which `FileList` has no use after free, as `~unsafe` is for
   `MemfsVfs`: a deletion would have to be alone with the whole list, not with its name.
   `OnlyOverlapBreaks` is that rule for one call; a program's own discipline (deletions under
   the database's EXCLUSIVE lock, say) does not give it, as searches for other names
   go on.
2. What is left in the hazards without a property: the fate of a transfer whose open failed,
   the end of file a stream sees when there was no memory, the stream's finalizer.
