# TLA+ models of BRL-CAD's concurrent and persistent parts

BRL-CAD is a large collection of mostly sequential geometry programs. Four of
its parts are not: they share state between processes, or must survive failures.

- The *render farm*: `remrt`, a dispatcher that splits pictures into ranges of
  pixels, and `rtsrv`, the workers that render ranges on other machines. It keeps
  its work in hand-written lists and promises fault tolerance.
- `libpkg`, the message layer between them, and between programs and remote
  framebuffers.
- The *database file*: objects of any length stored, moved and deleted in one
  file, in which free storage is kept as objects too.
- The *object cache*: a directory of prepared objects that ray tracers running at
  the same time share without a lock.

All paths below are relative to the repository.

## 1. Inventory

### remrt, the dispatcher (`src/remrt/remrt.c`)

*State.* `servers[]`, one slot per file descriptor: the connection `sr_pc`, the
state `sr_state` (the table at remrt.c:112), the list `sr_work` of ranges
assigned, the frame `sr_curframe` whose matrix the worker has been sent. The
queue `FrameHead` of unfinished frames, each with its list `fr_todo` of ranges
not yet assigned and its output file. `clients`, the descriptors to select on;
`running`; `work_allocate_method`; the internal input buffer of each connection.

*Operations.* The loop `do_work`: `start_servers`, `check_input` (process
buffered messages, select, accept, read, process again), `schedule` (state
transitions, finished frames, assignments by `task_server`). The handlers of
`pkgswitch`: version, dirbuild reply, gettrees reply, pixels, command. About
thirty commands. `drop_server`, called from nearly everywhere.

*Hard behaviour.* A send may fail, and drop the server, in the middle of any
other operation. Every send also polls for input (`_pkg_checkin`), so messages
of a server already dropped wait in buffers and are handled later. A range is
split, assigned, requeued at the head of its frame's list and split again. The
decision that a frame is done compares three places a pixel may be in.

*Correct when* no pixel is lost, none is in two places, none is rendered again
once stored; a frame is declared done only when its file has no hole; a worker
renders a range with the view of that range's frame; every dropped connection is
closed; `schedule` returns; the job ends if workers outlive the failures.

### rtsrv, the worker (`src/remrt/rtsrv.c`)

*State.* `seen_dirbuild`, `seen_gettrees`, `seen_matrix` and the view in global
variables, the viewing grid computed from it, the list `WorkHead` of messages
read and not yet handled. *Operations.* Handlers run either at once (dirbuild,
restart, loglvl, cd) or, by way of `ph_enqueue`, one per turn of the main loop
(matrix, gettrees, options, lines). *Hard behaviour.* The messages handled at
once overtake the queued ones; what the dispatcher believes of the worker's
globals can be out of date. *Correct when* what it answers is what it was asked,
rendered with the matrix and grid of its frame.

### libpkg (`src/libpkg/pkg.c`)

*State.* Of a connection: the input buffer `pkc_inbuf`, the output queue
`pkc_stream`, and of the message being received the header, the bytes still
missing `pkc_left` and those collected `pkc_buf`. *Operations.* `pkg_send`,
`pkg_2send`, `pkg_stream`, `pkg_flush`; `pkg_process` and `pkg_suckin` for
programs with a loop around select(), `pkg_waitfor` with `pkg_block` for those
that ask and wait. *Hard behaviour.* A message is assembled from reads that end
anywhere. Every send polls for input first, and what it reads is not seen by
select() any more. Handlers send, and so read, while a message is being
dispatched. A write blocks, and while it does that end reads nothing. The room
left in the queue is computed in `size_t`. *Correct when* each message is delivered once, whole and in order until the connection
ends, those read ahead of time are handled too, and a wait ends.

### Checkpoint and restart (`prep_frame`, `create_outputfilename`, `scan_frame_for_finished_pixels`, `list_remove`)

When a dispatcher starts and finds an output file, the non-black pixels in it
are taken off the frame's work list. *Correct when* the list is exactly the
black pixels, as ascending nonempty ranges.

### Host table and starting of workers (`ihost.c`, `start_servers`, `host_helper`)

Which hosts may serve, and when (always, night, hackers' night, passive, load
limited); every 10 minutes those eligible and not in contact are started through
a helper process. *Correct when* a host that is allowed and up gets a worker,
and one that is held or out of hours loses it.

### The database file (`src/librt`: `memalloc.c`, `db_alloc.c`, `db5_alloc.c`, `db5_scan.c`, `db5_io.c`, `db_io.c`)

*State.* The file, a chain of objects each of which begins with its length; free
storage is objects too. In memory, the directory (`d_addr`, `d_len`) and the map
of holes `dbi_freep`, both built by a scan when the file is opened, and the end
of the file `dbi_eof`. *Operations.* Open, put (in place, shrinking, growing,
into a hole, at the end), delete, close. *Hard behaviour.* A put is up to three
writes, between which the file may be no chain; each may fail, and the tables are
changed before some of them; large free objects are written in two pieces.
*Correct when* the tables always say what the file says, no storage has two
owners, a death between two writes loses at most the object being put, and other
objects are never written over.

### The object cache (`src/librt/cache.c`)

*State.* On disk, a file per object, named by a hash of its geometry, temporary
files, and the file "format" with the version of the layout. In memory, per
process, the entries read and one semaphore. *Operations.* Open (create, check,
upgrade), load and store by many threads, close. *Hard behaviour.* Every file
operation interleaves with those of other processes; a store waits for somebody
else's file to be complete; an upgrade deletes what others may be about to read, or
have stored since; processes are killed, writes and deletions fail, and not all
results are looked at. *Correct
when* what is read is whole and of the current layout, what was prepared is in
the cache afterwards, the semaphore is given back and no thread waits for ever.

### Other stateful parts of the repository

| Part | State, hard behaviour | Here |
|---|---|---|
| `rt/worker.c` | pixels handed to threads under a semaphore | planned |
| `libbu` semaphore, parallel | lazy initialisation of semaphores, thread joining | candidate |
| `libbu/mappedfile.c` | reference counted table of files | read, see section 4 |
| `libdm/fb_paged_io.c`, `fbserv` | cache of one page, dirty or clean | read, see section 4 |
| `librt` shoot, tree, bool; geometry, NURBS, NMG | floating point | out of TLC's reach |
| mged, archer, libged, conv, gtools, `misc` | interactive, batch or vendored | left out |

## 2. Modules

| Module | Models | Extends |
|---|---|---|
| `RemrtSpans` | `struct list`, `list_remove`: inclusive pixel ranges | |
| `RemrtScan` | the checkpoint scan, one run of finished pixels per step | `RemrtSpans` |
| `RemrtScan_proofs` | the proofs about it, and that `list_remove` removes exactly a run | `RemrtScan` |
| `RemrtNet` | connections, messages in the kernel and in `pkc_inbuf`, what n successive sends do | |
| `Remrt` | the dispatcher | `RemrtNet`, `RemrtSpans` |
| `Rtsrv` | a worker per connection | `RemrtNet` |
| `RenderJob` | what the user is promised: pixels are stored and stay, a frame is delivered once and whole | |
| `RenderFarm` | dispatcher, workers and environment; types, properties | `Remrt`, `Rtsrv`, instance of `RenderJob` |
| `RenderFarm_proofs` | proofs: types, and no pixel in two places | `RenderFarm` |
| `RenderFarmTalk_proofs` | proofs: what is said on a connection, and what a worker knows | `RenderFarm_proofs` |
| `RenderFarmPixels_proofs` | proofs: nothing lost, nothing done again, the refinement of `RenderJob` | `RenderFarmTalk_proofs` |
| `RenderFarmSlots_proofs` | proofs: one server per frame, dropped is dropped | `RenderFarmTalk_proofs` |
| `MCRenderFarm` | frames to start from, for TLC | `RenderFarm` |
| `PkgConn` | one libpkg connection, byte by byte, and the programs at its ends | instance of `MessageFifo` |
| `MessageFifo` | what a connection promises: messages whole, once, in order | |
| `PkgConn_proofs` | the proofs about them | `PkgConn` |
| `MCPkgConn` | a caller and a poller, for TLC | `PkgConn` |
| `MemMap` | resource maps: `rt_memfree`, `rt_memalloc_nosplit` | |
| `DbFile` | the database file and the processes that write it | `MemMap`, instance of `ObjectTable` |
| `DbFile_proofs` | the proofs about a process's tables, and about the file of a process alone | `DbFile` |
| `ObjectTable` | what users of a database rely on: a table of named objects | |
| `ObjCache` | the object cache, its processes and their threads | |
| `ObjCache_proofs` | the proofs about it | `ObjCache` |
| `MCObjCache` | processes and threads, for TLC | `ObjCache` |

`RemrtNet` has connections as the farm needs them, whole messages that are in
the kernel or in `pkc_inbuf`; that libpkg may be used like that is what
`PkgConn` shows.

### How state and actions correspond to the code: the farm

*The dispatcher is one thread* and runs to its next `select` without waiting,
but the workers and the kernel do not wait for it. `pc` says which loop it is
in (`process1`, `select`, `accept`, `suck`, `process2`, `transitions`,
`frames`, `frame`, `task`, and `cmd` while a command is executed), `cur` and
`fi` where in it. A step is one turn of a loop over servers or frames, so a
connection may break between the drop of one server and the assignment to the
next; within a turn the result of each send is chosen by the state of its
connection (`Sent`, `Send`).

*Handlers.* Each is one action guarded by `Handle(s, type)`: the first message
of the first server, in slot order, that has one in its input buffer. `ph_pixels`
is four: ignored, filed (or answered with a drop), file cannot be opened, file
cannot be written. `ph_cmd` hands over to the steps of its command and ends in
`CmdEnd`, which drops the one-shot client.

*schedule().* `SendDirbuild` and `FinalClose` are the two state transitions,
`FrameIsDone` retires finished frames, `FrameBegin`/`PassEnd`/`FrameScanEnd`
are the nested loops with the `another_pass` and `nxt_frame` locals and the
`goto top` that relaxes the allocation method. `task_server` has one disjunct
per way out of it. `TaskMatrixFails` is the failed send the code does not look
at.

*Data.* A range is a span record; a picture is the set of the positions stored;
a view is the number of the frame it belongs to. `N_SERVER_ASSIGNMENTS` is 1 in
the code, so `sr_work` is one span or `NoWork`. The size `task_server` computes
from its statistics is any member of `Lumps`. That a worker is tardy, or slow,
is a choice allowed by `Faults`.

*Connections.* `link` is `up`, `fin` (peer has closed), `rst` (broken) or
`none`. A write to a `fin` connection is accepted once and may provoke a reset;
a write to a broken one fails, as remrt ignores SIGPIPE. A process that closes
with input unread resets its connection instead (`Hangup`). Messages written by
a process that has died are still delivered, those in a broken network may not.

*Frames at the start.* `Checkpoints` lists what a frame may start from: a file
and the list the scan leaves for it. `CheckpointAssumption` says what `RemrtScan`
checks of it (`RemainderExact`, `TodoAscending`).

### libpkg

*A byte is a pair*: the message it belongs to, by its place in the order of
sending, and its place in it. So that a message is put together from the right
bytes is a statement about data, not an assumption: `Handed` compares what was
collected with what was sent, and anything else is delivered as rubbish.

*Steps.* One end is one thread; a step is a call of libpkg up to where it may
block. A write is a state of its own, in which the end does nothing else and the
system takes as many bytes as it has room for (`WriteSome`); `wback` says where
to go on, `hback` the same for a handler. A read (`checkin`, `pkg_suckin`,
`inget`) takes any number of bytes. `pkg_process`, `pkg_block` and `pkg_waitfor`
are one turn of their loops each.

*The programs.* A poller runs the loop of remrt and rtsrv: handle what is in the
buffer, select, read, handle again. A caller sends a query and waits for the
reply, as the remote framebuffer does; after a wait that failed it goes on. Both
send notes; handlers answer queries.

*The queue.* `Room` is the code's test, modulo `SizeMod` (`2^w` for a `size_t` of
`w` bits): with less than a header left, the difference wraps around and there is
room for anything. `stream` then grows beyond `StreamLen` and `overrun` is set, since
in memory the bytes past `pkc_stream` are `pkc_magic` and then `pkc_strpos`. What
may become of that end: the next call that looks at `pkc_magic` aborts the program
(`PKG_CK`; `pkg_stream` and `pkg_flush` do not look), or what is written next is not
what was queued (`Garbled`, after which no more is said of the connection), or, when
only the magic number was written over, with whatever value, the bytes go out as
queued. On a broken connection `pkg_stream` may also come to its `memcpy` without
room, as it does not look whether `pkg_flush` failed.

### The database file

*The file* is an array of units of 8 bytes. A unit knows the image it was written
as part of, its place in it, and whether its last byte is the magic number that
ends an object: enough to tell which objects a scan finds in a file half
written over, and no more.

*Steps.* A step ends at a write, so that a process may die between any two. The
operation under way is `op`; `pc` names the branch of `db5_realloc`. A failed
write leaves any beginning of what was to be written. Dying in the middle of a
write, or between the two writes of a large free object, leaves the same and is
counted as one.

*`db_dirbuild`* computes the directory and the map from the file with
`rt_memfree`, as `db5_scan` does, and `TablesMatchFile` compares them with the
tables an opened file has come to by its operations. If it finds no `_GLOBAL`
(a new file, or somebody deleted it), `db5_update_ident` puts one, and puts it
again with its attributes: two puts like any other (`Put`, states `ident` and
`update`), which may fail, or be the last thing the process does. The name that
plays `_GLOBAL` is the constant `Global`; with one that is not in `Names` nobody
deletes it and these steps do not occur.

### The object cache

*Files* have a length and a layout. *Processes* (`proc`) open the cache step by
step: each of the system calls of `cache_init`, `cache_format` and the upgrade is
a step, since other processes run between them. *Threads* (`wk`) are in
`rt_cache_prep`: in `cache_read_entry` (`found`, `exists`, `size`, `map`, between
which the file may change) or in `cache_try_store` (`create` to `rename`). A
process that is killed loses its memory and leaves its files; one that was
killed while it held the semaphore takes it along.

*An upgrade* lists the directories under `objects/` (`ListDirs`), then lists the
files of each (`ListFiles`) and deletes them one by one (`Sweep`), with other
processes' steps between: what they store meanwhile in a directory not listed yet is
deleted, too. Any deletion may fail and is not looked at; for an object that is
`stuck`, for the format file that is `FormatKept`.

*History variables* record what went wrong where nobody could know: `torn`
(bytes lost in fclose), `swept` (deleted by an upgrade), `stuck` (an upgrade
could not delete it), `skipped` (could not be stored: the object not prepared or
serialized, a write or the renaming failed). Properties name them as the only excuses.

## 3. Runs

All runs of the farm use pictures of 2 or 3 pixels and lumps of 1 or 2: enough
for a range to be split, a remainder requeued before or behind another one, and
split again. Two slots are enough for two workers at a time plus a caller that
waits; the third call in `farm_exit` reuses the slot of a dead worker.
`MaxCalls`, `MaxCmds` and `MaxFaults` bound how often workers are started,
commands sent, and connections lost.

| Run | Question | Bounds |
|---|---|---|
| `scan` | is the work list after the scan exactly what is missing? | every file of at most 7 pixels: three separate runs and every end case |
| `farm_exit` | no pixel lost or twice while workers die, a dropped server stays dropped; the farm implements `RenderJob` | 2 slots, 1 frame of 3 pixels, fresh or with a hole, 3 calls (other versions too), 2 deaths |
| `farm_commands` | stop, go and drop, a full disk, tardy and slow workers that move between frames: nothing lost; matrix, grid and frame agree | 2 frames of 2 pixels with trees, 2 calls, 1 command, 1 death |
| `farm_broken` | where work does get lost, is any doubled or done again? | 1 frame of 2 pixels, broken link, restart, restart all, load, rdebug, allocate, a file that cannot be opened |
| `farm_live` | schedule returns, connections close, workers are heard, the job ends | 2 slots, 1 death |
| `reset` | is a range lost when a connection breaks in a send? (yes) | 2 slots, one broken link |
| `db_file` | tables match the file, storage is owned once, the file implements `ObjectTable` | one process, two names, one of them `_GLOBAL`, lengths 1 to 3, a file of 8 units, free objects over 2 units in two writes, one failed write or death |
| `db_flush` | does a write that fails in fflush force the file read-only? (no) | lengths 1 and 2, 5 units |
| `pkg` | whole, once, in order, and in the end | headers of 2 bytes, a queue of 4, a `size_t` modulo 64, a system that holds 6, messages of 0 to 2 bytes, a buffer for replies of none, one break |
| `pkg_overrun` | is the queue flushed before it overflows? (no) | the same |
| `obj_cache` | whole files, one layout, nothing prepared is lost, nobody waits for ever | 3 threads of 2 processes on one object, files of 2 bytes, every start of the directory, one fault (a store, a deletion or a process) |
| `cache_start` | do two processes that start on a new directory both use it? (no) | the same, no fault |

*Bounds of `db_file`.* Three lengths make every case of `db5_realloc` happen
(equal, shrink, grow, exact and larger hole, extend); 8 units hold two objects
with a hole below, between and above them, and free objects of 3 units and more
exercise the two-piece write. One fault is a bound on the claim too: with
`MaxHurt = 2` TLC violates `KeepsObjects`. A torn object whose end byte happens
to be right, because `db_alloc` had marked its storage free before, survives as a
stale header, and a second death in a window exposes it.

*Bounds of `pkg`.* Every split of a header of two bytes, and of a payload of two,
happens. The queue has room for two empty messages: behind one of them another
header fits but no byte after it, so that a message of one byte flushes the queue for
want of room; behind more than that the test wraps, and the queue is overrun. `Window` bounds what a program has on its way: one end of the two has
never more than the system holds. `Buf` is 0, so that replies are cut. *Bounds of
`obj_cache`.* Files never share anything but the semaphore and the format, so one
object is enough for the races about it; a process killed is restarted as the
other.

In `DbFile`, `Garbage = {"short"}` is for `db_garbage` of section 4 and used by
no run.

### Properties

Of the farm:

- `NoPixelTwice`: no pixel in two spans, or with two servers, or queued and
  with a server. A wrong remainder or a requeue that forgets to release breaks it.
- `NoPixelLost`: each pixel is stored, queued, or with a server it would be
  requeued from.
- `RendersJob`: refinement. `stored <- file`, `delivered <- Retired` (frames no
  longer queued). A frame delivered with a hole, or written to after delivery,
  breaks it.
- `NoRework`: nothing stored is queued or assigned, late answers notwithstanding.
- `OwnMatrix`, `OwnView`: every answer was rendered after the matrix, and with
  the grid, of its own frame.
- `AnswersMatch`, `OneInFlight`: what a worker has in hand is what its slot says.
- `MovieFrameHasOneServer`: until the method is relaxed, one server per frame.
- `ClosingIsFinal`, `DroppedIsClosed`: a server dropped before a `schedule()`
  pass has its connection closed, and
  nothing else becomes of it.
- `ScheduleReturns`, `ConnectedIsHeard`, `TaskAccomplished`: progress.

Of libpkg:

- `KeepsOrder`: refinement of `MessageFifo`. A queue not sent before a direct
  message, or a message dispatched from the wrong bytes, breaks it. Rubbish from an
  end that has overrun its queue (`FromOverrun`) is excepted; the queue of `pkg` is
  flushed for want of room, and put in one write with a direct message, before that.
- `QueueFits`: what is queued fits into `pkc_stream`. It is what pkg.h says, and what
  `pkg_overrun` refutes.
- `IsHandled`: what was sent to a poller reaches its handler. Forgetting the
  buffered messages before select() breaks it, and so do two blocked writers.
- `WaitEnds`: a caller is not left waiting.
- `ClashOnlyAfterCut`: on a live connection a wait fails on a half-received message
  only after a reply that was cut (see *clash* in section 4).

Of the database file:

- `TablesMatchFile`: between operations the tables are what a fresh scan of the
  file would build, holes merged. Each path of `db5_realloc` changes file, map,
  directory and end of file in its own order; this compares the results.
- `SpaceOwnedOnce`: no unit has two owners in the tables at any step while the
  process may still write. It is what makes "forced read-only" necessary after a
  failed write.
- `OnlyWindowsHurt`: a process may die anywhere but in two windows (after the
  first of the two writes that split an object or a hole) and leave a file that
  can be opened.
- `KeepsObjects`: refinement of `ObjectTable`: only the object being put can be
  lost.

Of the object cache:

- `OnlyWhole`: nobody sees a half-written file under an object's name.
- `OldNeverRead`: no entry of an old layout is read as one of the current, unless
  its file would not be deleted.
- `PreparedIsCached`: whoever stored it, what a process prepared is in the cache
  when it closes it.
- `GivenBack`: the exact conditions under which the semaphore is kept.
- `PrepEnds`: preparing ends, except for those waiting for a semaphore kept.

### Fairness

`FairSpec` assumes weak fairness of three things only. The dispatcher: its loop
never blocks for longer than the 30 seconds of `select`. Each live worker: it
reads, renders and answers. The starting of workers: `start_servers` tries again
every `SERVER_CHECK_INTERVAL`. Nothing is assumed of deaths, breaks, commands or
disks. With at most one death and two calls, one worker survives, which is the
premise of `TaskAccomplished`.

`PkgConn` and `ObjCache` assume weak fairness of each end and of each process: a
program that can take a step does. An end that is in `write()` can only when the
system has room; a program waiting for input can only when there is some; the
waits of `cache_try_store` are counted by the code. New sends, flushes, faults
and the opening of caches are not fair. `DbFile` has no liveness.

## 4. Disagreements between code and documentation

With a run of their own, in which TLC finds one property violated:

- `reset`: `task_server` ignores that `send_matrix` failed, assigns a range to
  the dropped server, and `drop_server` will not requeue from `CLOSING`
  (remrt.c:1661, 493). The frame is declared done with a hole. remrt(1)
  promises reassignment.
- `db_flush`: `db_write` ignores what fflush returns (db_io.c:203), which is
  where errors of buffered writes appear. The put ends well and the file does
  not have the object. Line 209 says "File forced read-only."
- `pkg_overrun`: the test for room in `pkg_stream` (pkg.c:1234, and 965 in
  `pkg_send`) subtracts in `size_t`. With more than `PKG_STREAMLEN - 8` bytes in the
  queue nothing is flushed, and header and data are copied past `pkc_stream`, over
  `pkc_magic` and `pkc_strpos`: 63 messages of 512 bytes and an empty one fill the
  queue, the next is written behind it. pkg.h:190-192 says the queue is flushed "if
  there insufficient room". No program of the repository calls `pkg_stream`.
- `cache_start`: a process that opens the cache while another is between
  creating and writing the format file runs without a cache (cache.c:283-303);
  `tests/cache.cpp:288` expects every one of several processes to use it.

Found with the models, and described here with what shows them:

- *restart*, in the farm: `drop_server` does not requeue from `RESTART`
  (remrt.c:517, 493), the same loss (`NoHoles`, `Commands = {"restart"}`).
- *open*: an output file that cannot be opened or positioned counts as written
  (remrt.c:3236; `NoHoles`, `Faults = {"open"}`).
- *view*: the second frame of a script without `clean` or `tree` in its bodies is
  rendered with the grid of the first, as `grid_setup` is called only after
  gettrees (remrt.c:1662, rtsrv.c:688; `OwnView`, `NeedTree = {}` with two frames).
- *select*: `select(32, ...)` does not see descriptors the slots allow
  (remrt.c:652; `ConnectedIsHeard`, `NSelect` below `MaxServers`).
- *oversize*: a file longer than the frame leaves an inverted span in the list
  (remrt.c:903; `TodoAscending`, `FileMax` one above `NPixels`).
- *revival*: with `Commands = {"drop"}` TLC violates `ClosingIsFinal`:
  `ph_version` (remrt.c:3103) revives a server dropped before its version message
  was handled, with its bit in `clients` cleared. With `Commands = {"restart
  all"}` it violates `DroppedIsClosed`: `send_restart` (remrt.c:517) overwrites
  `CLOSING`, the only state a connection is closed from. Two `rdebug` revive a
  server as well (`Faults = {"exit"}`, `MaxServers = 3`, `MaxCmds = 2`):
  sending the first to a worker that has just called in moves its version
  message to `pkc_inbuf`, where select() does not see it; the worker dies, the
  next read of its connection drops the server, and the message is handled
  after that. `farm_exit` and `farm_live` have no commands.
- *rdebug*, in the farm: options sent to a worker that dies are left unread, so
  that its kernel resets the connection, and a `send_matrix` to it fails
  unnoticed: the loss of `reset`, from a death alone (`NoPixelLost`, `Faults =
  {"exit"}`, `Commands = {"rdebug"}`).
- *clash*, in libpkg: a reply longer than the caller's buffer is cut ("potentially
  truncated, but OK", pkg.c:1406-1433) and leaves `pkc_buf` set, so that every
  later `pkg_waitfor` of that connection fails at line 1384. A read that fails
  in `pkg_waitfor` or `pkg_block` (pkg.c:1413-1443, 1712) leaves it set as well, and
  callers like `if_remote.c` go on; but then the connection is broken.
  `ClashOnlyAfterCut` states that these are the only ways to a clash.
- *two writers*: with a `Window` larger than the system's buffers at both ends
  (`KernelBuf = 3`) both programs block in write() for ever; `IsHandled` and
  `WaitEnds` fail. A TODO at pkg.c:984 knows it.
- *db_garbage*, in the database file: for a length less than a header,
  `db5_get_raw_internal_fp` returns -1, which its comment in db_io.h:382 keeps
  for the end of the file, and `db5_scan` takes it for that. With `Garbage = {"short"}` a torn
  file opens without its tail, and TLC violates `TablesMatchFile`.
- *two users*: two processes with the same file open for writing violate
  `KeepsObjects` at once (`Users` of two). The specification of the format
  (`doc/docbook/specifications/BRL_CAD_g_format_V5.xml`, about line 706) asks the
  library to read the header and confirm that space is free before it writes;
  the code does not. db_io.h:169 also says of extending the file that a free
  object is written in the new space; it is not (`Extend` has no write).
- *kept semaphore*, in the cache: for a file without bytes `cache_read_entry`
  returns with the semaphore held (cache.c:432), and every later thread of the
  process waits. Such a file comes from a failed fclose, or from an upgrade
  that deletes the file between the test for it and the size. `GivenBack` says
  exactly this.
- *torn entry*: the result of fclose at cache.c:639 is not looked at; a short file
  is renamed into place and never repaired, as its name is taken. `torn` in `OnlyWhole` and
  `PreparedIsCached` stands for it.
- *no format*: a process killed between creating and writing the format file
  disables the cache for good; the upgrade from version 1 or 2 says "reinit"
  (cache.c:878) but only reads the format again, which it has just deleted, so
  that the process that upgrades gets no cache; and one that upgrades slowly may
  delete what others have stored since. The actions `cache_init`,
  `cache_format`, `ListFiles` and `Sweep` do these things, and no property forbids
  them.
- *undeleted*: nobody looks whether an upgrade's deletions succeed (cache.c:853, 875).
  An old object that stays is read as one of the current layout by the next process,
  once the format file is new. `stuck` in `OldNeverRead` stands for it.

By reading, outside the models: in `libbu/mappedfile.c` an invalidated entry
whose `appl` is NULL goes on hiding newer ones, and finding, checking and
counting an entry are separate critical sections; `db_open` leaves `apbuf`
dangling when fopen fails after the file was mapped (db_open.c:140-146);
`submodel_prep` returns with `RT_SEM_MODEL` held when `db_open` fails
(submodel.c:108-110); in `libdm/fb_paged_io.c` a failed `_fb_pgin` leaves the
wrong page in place, and pages only read are written back.

In remrt: `this_frame_done` returns "done" for a frame with
work waiting (its caller checks first); `cd_reset` with no frame queued follows
the list head; the `load` allocation method never assigns to a server without a
frame; `read_matrix` returns 0 where its comment says 1.

## 5. Proofs

### The farm

`RenderFarm_proofs` proves with TLAPS, for every number of slots, frames and
pixels, every set of faults, commands, lumps, callers and starting points that
satisfies `NetAssumption` and `RemrtAssumption`:

- `TypeCorrect`: `Spec => []TypeOK`.
- `PixelsNeverDoubled`: `Spec => []NoPixelTwice`. It needs no premise on faults:
  it holds where pixels are lost as well.

Both follow from `Invariance`: `Spec => []IInv`. `IInv` is the types together
with disjointness of the lists and hands. It has to be stated of the pair
`<fr_todo, sr_work>` over *all* slots: a server that is `CLOSING` or in
`RESTART` may still hold a range that `drop_server` did not requeue, and it must
not meet the pixels of another even though nobody expects an answer; the weaker
statement about servers at work only is not preserved by a slot's return to
`VERSOK` through `ph_version`. Typing says more than ranges too: work lists hold work of
their own frame, or a requeue would put a range on another frame's list.

The argument follows the code. Three lemmas about lists carry it: putting a
span back at the head (`RequeueDisjoint`, for `drop_server`), taking the first
`lump` pixels of the head span (`AssignmentTaken`, `AssignDisjoint`, for
`task_server`), and replacing a hand by `NoWork` (`ForgetDisjoint`, for
`ph_pixels`). Then comes one lemma per action, and under it the parts of `IInv`
that it touches.

### What is said on a connection

`RenderFarmTalk_proofs` proves `AnswersAreAsked` (`AnswersMatch`),
`RenderedWithItsMatrix` (`OwnMatrix`), `RenderedWithItsView` (`OwnView`) and
`AskedOnce` (`OneInFlight`) under every fault, for any number of slots, frames
and pixels.

They follow from `TalkInvariance`. `TalkInv` adds to `IInv` one predicate per
slot, `Conv`: dispatcher and worker are at matching places of one conversation.
It relates the slot's state, range and frame to all messages on their way (those
in the kernel together with those in `pkc_inbuf`, those to the worker together
with its own queue) and to the worker's globals. While a worker lives it has
not said who it is (`Unheard`), or its answer is on its way (`Answered`), or
it has been asked for the model, the trees or a range, or for nothing (`Asked...`,
`Quiet`); for a dead one only the answers it left matter (`Told`). The states
in which an answer may still be handled include `CLOSING`, as every send reads
ahead. `Loop` says that a command under way comes from an open connection;
without it `CmdEnd` could drop a slot that has another worker by then.

*Premises.* `NoRestarts` leaves out the three commands that restart servers:
`send_restart` overwrites the state whatever a worker has been asked, and the
worker that comes back in `RESTART` still owes an answer. `OwnView` needs
`TreesAlways` as well (every frame has its trees loaded), for the reason given
under *view* in section 4.

### The pixels

`RenderFarmPixels_proofs` proves

- `StoredStaysDone` (`NoRework`): for every fault but `write`, and every command.
  `Fresh`, the predicate added to `IInv`, is about every hand and not only those
  at work: `ph_version` may bring a dropped server back to work with what it held.
  A write that fails in the middle of a range requeues all of it, so pixels
  already in the file are rendered again; that is the premise.
- `NothingLost` (`NoPixelLost`) and `ImplementsRenderJob` (`RendersJob`), under
  `Gentle`: no connection broken by the network, no output file that cannot be
  opened, none of `restart`, `restart all`, `load` and `rdebug`. Each of these
  is a loss of section 4 that TLC shows. Workers may die, be slow, tardy, of
  another version; writes may fail; `stop`, `go`, `drop`, `allocate` may be given.

`JobInv` is `TalkInv` with three parts. `Kept`: a server that has a range is
`READY`, so that `drop_server` requeues it; and a connection on which nothing can
be sent any more is not that of a server about to be assigned something, so the
failed `send_matrix` nobody looks at does not happen. That is where the
conversation is needed: only one who was asked something leaves input unread.
`Covered`: each pixel of a frame is stored, queued or held, and a frame retired is
complete. `Distinct`: a frame is in the queue once, or retiring it would leave its
other entry behind. For the refinement every step is sorted into one that delivers
(`FrameIsDone`), one that stores in frames not delivered, and one that does
neither: `ph_pixels` can only store in a frame that is still queued, since by
`Covered` nobody holds a range of a frame retired.

### The slots

`RenderFarmSlots_proofs` proves `OneServerPerFrame` (`MovieFrameHasOneServer`)
under every fault and every command but `allocate`, restarts included; setting the
method by hand while servers share a frame is the exception. Besides `IInv`
it needs only that commands are executed which somebody sent.

It also proves `DroppedStaysDropped` (`ClosingIsFinal`) under every fault and
`Calm`: no `drop`, `rdebug` or restart. Each of these can take a server out of
`CLOSING` again (*revival*). The
invariant: a server that is `CLOSING` has nothing left to say about its version.
For this whoever is dropped must have been heard: `Round` says that
`check_input` has emptied the buffers before it calls select(), and `Found`
that what select() reported is still there when it is read, so that the read that
finds the end of a connection finds no version message before it.

### The checkpoint scan

`RemrtScan_proofs` proves `RemainderIsExact` and `ScanTypeCorrect` for every
frame size and file, and `TodoStaysAscending` if the file is no longer than its
frame (see *oversize*). `RemainderExact` is not inductive: that `list_remove`
cuts a run out of the list relies on the run being in at most one of its spans.
`ListBehind` says why: the scan goes upwards, all spans but the last end before
it, and they ascend. The lemmas about `ListRemove` and `Remnant` say what is
left of a span, and that nothing else changes.

### The connection

`PkgConn_proofs` proves `TypeCorrect`, `NoOtherClash` (`ClashOnlyAfterCut`) and
`Implements` (`KeepsOrder`, the refinement of `MessageFifo`) for all lengths of
messages, headers, queues, and system buffers, every width of `size_t`, and all cuts
of the bytes.

The invariant, `Line`, is that the bytes of one direction, wherever they are (read
and not parsed, in the system, in `write()`, queued), are consecutive, from the
place the reader has got to up to the end of the last message sent. Places are
counted from the making of the connection; the offset of each message is not a
recursive sum but a witness of `Linked`, extended by one with each message
sent. A break makes the bytes not read yet disappear, from the far side: what is
read stays consecutive. `Receiver` says how much of the message being received
has been collected, and that only a cut reply leaves something in `pkc_buf` between
messages, unless the connection is broken. An end that has overrun its queue is
still one whose bytes are consecutive until `Garbled` ends the connection; what
that step delivers is what `KeepsOrder` excepts. That
each message is handed over whole then follows from arithmetic on
places, and `Handed` compares it with what was sent. The model has exactly two ends,
which `PkgAssumption` says.

### The database file

*The tables of a process.* `DbFile_proofs` proves `TypeCorrect` and
`StorageOwnedOnce` (`SpaceOwnedOnce`) for every set of users, names and lengths, every `FileMax`, all faults and both
kinds of garbage, under `DbAssumption` alone. Several processes may have the file
open for writing, the case in which what they write destroys one another's objects: each
process's own tables stay consistent all the same.

Two things carry this. *Opening:* whatever is in the file, the objects a scan
finds do not overlap (`ScanApart`), since it goes on where the object before
ends; so the directory and the map made of it are consistent (`ScannedSane`),
however much has been destroyed. This is by induction along the scan, downwards from
the end of the file, as existence of a greatest counterexample (`GreatestOf`);
the map is by induction upwards (`HolesSound`). That the two recursive functions
are well defined is proved first (`ScanFromIs`, `HolesBelowIs`). *Operations:* `HoleMade` says what `rt_memfree` makes of a
range, for each of its ways of merging, and `FreeKeepsMap` that the map stays merged
and clear of whatever it was clear of.

`SpaceOwnedOnce` is not inductive: `IInv` adds to it, per process, that holes are
separate (so that taking one leaves nothing of it behind), and `Underway`, what each branch
of `db5_realloc` knows of the entry it works on: that the entry has storage or has
not, and its length. A process between two operations is `Resting`: it waits for its
user, or is about to put `_GLOBAL`. While an object shrinks, between the two free objects
written, its end is in no table at all, and has to be clear of all that are. After a failed
write only bounds are kept, which is all that is true: the range just freed
is in the directory as well, and `dbi_read_only` must keep it from being given out.

*The file.* `DiesAnywhere` (`OnlyWindowsHurt`) and `TablesStayTrue`
(`TablesMatchFile`) compare the tables with what is in the file. They assume
`Alone`, one process, which is what the runs of `DbFile` have, too; with two the
file is not the chain either of them takes it for (section 4). Both speak of the
states with `hurt = 0`: no write has failed, and no process has died between the two
writes of `Window`; a process may die at any other step, and put, move and delete as
much as it likes. `OnlyWindowsHurt` says `hurt = 0` itself. `TablesMatchFile` does
not: of what it says when the file is opened again after a failed write, `db_file`
has to be believed.

They follow from `FileInvariant`: `Spec => [](IInv /\ FileInv)`. `FileInv` says that
a set of borders cuts the file (`Layout`): a piece from one border to the next
begins with a header that has its length and ends with the magic number, and every
piece is an object of the directory or free and in the map (`Told`). Which pieces
are not yet what they will be, step by step of `db5_realloc`, is in `Gap` (the piece
that cannot be scanned, in the two states of `Window`), `Taken` and `Target` (the
storage the object has been given and does not fill yet) and `Placed` (the end of
the file is extended on paper first). While nobody has the file open, `WellFormed`
says that no two objects have one name, without which opening it would lose one.

What a scan finds is the borders (`LayoutScan`), and the map it makes has all free
pieces (`HolesCover`); so `FileInv` holds when the file is opened, and gives both
properties. A write changes the borders within one range, `Joined` to one piece or
`Parted` in two, and `Rewritten` says that all pieces outside the range are what
they were; `Retold` says the same of the tables. The lemma of each step then only
says what the pieces in the range become. What writes of the same form have in
common is stated once: `Freed` (a range goes to the map and is marked free),
`Overwritten` (an object, or a free one, written where a piece is) and `Appended`
(an object written behind the end). That holes begin and end at borders is in `Told`
as `OnBorders`: an object that takes the front of a hole may take several free
objects of the file at once, which is why the file cannot be scanned until
`EraseFront` has written that front as one.

### The object cache

`ObjCache_proofs` proves, for every set of processes, threads and objects, every
assignment of objects to threads, every size of a file, every start and every
number of opens and faults that satisfies `ObjCacheAssumption`: `CacheTypeCorrect`,
`NeverHalfWritten`, `OldLayoutNeverRead`, `SemaphoreGivenBack` and
`PreparedStaysCached`, all five invariants of `obj_cache`.

They follow from `CacheInvariance`: `Spec => []IInv`. None of them is inductive
alone. `OnlyWhole` needs that temporary files are whole already (`TmpWhole`), and
that a thread has one only between its creation and its renaming
(`ThreadsOrderly`). `OldNeverRead` needs that no old file is left once the format
file says something else (`LayoutCurrent`), which needs in turn that a process in
its upgrade still has every old file on its list of files, or in a directory it has
yet to list, unless it is `stuck`. `GivenBack` needs that a file seen to exist is there
or was deleted by an upgrade (`SeenIsThere`). `PreparedIsCached` needs the same
of each object a thread is through with (`ThroughIsCached`), and of each entry
read (`ReadIsCached`).

The steps of threads are many, and most disturb little: `ThreadMay` says what any
of them may do to the rest, `ThreadMayKeeps` that this preserves `IInv`, and the
lemma of each action has only to show that it is such a step. The steps of
processes have one lemma each.

### Model-checked only

- Liveness: `ScheduleReturns`, `DroppedIsClosed`, `ConnectedIsHeard`,
  `TaskAccomplished`, `IsHandled`, `WaitEnds`, `PrepEnds`. Fairness is beyond
  the prover.
- `KeepsObjects` of `DbFile`, which looks at whole images, unit by unit; and
  `TablesMatchFile` once a write has failed and the file has been opened again.
- The properties proved under a premise, where it does not hold: `NoRework` with
  failing writes is false, and so are the others with the commands and faults their
  premises name; there the runs and section 4 say what happens. `farm_commands`
  is without `rdebug` and `allocate`: with the first TLC loses pixels, with the second a
  movie frame may be shared. The theorems about the other properties allow both.

## 6. Plan

1. Done: spans, scan, dispatcher, worker and farm; the connection; resource maps
   and the database file; the object cache; the proofs of section 5.
2. Proofs to come: `KeepsObjects` of `DbFile`, from `FileInv` and the fact that an
   object in the directory is whole in the file; and what a failed write leaves
   of `Layout`, for `TablesMatchFile` without its premise.
3. Modules to come: sessions over `Remrt` (`reset` with the recycling of `struct
   frame`, `wait`, `detach`, `hold`, `resume`, frames added while running); the
   host table with `start_servers` and its times of day; `rt/worker.c`;
   `mappedfile.c`; `fb_paged_io.c`.

Bounds: `MaxCalls`, `MaxCmds`, `MaxFaults`, `MaxMsgs`, `MaxOpens`, `MaxHurt` and
`FileMax` cap the environment and nothing else.

## 7. Not modelled

Most of the repository is sequential computation on geometry, without a
protocol, concurrency or state that outlives a call: floating point is out of
TLC's reach, and a model of an editor command would restate it.

Of the farm: message contents, statistics and the timing they yield, the
framebuffer, log messages, `MSG_CD` (one more send that can fail as the two
before it), the parsing of scripts and the commands a script has executed after a
frame (`fr_after_cmd`, remrt.c:1503-1508). Of `addclient` only a failing
getpeername is modelled (`NoClient`): the lookup of the host, told to enter it,
always finds one (ihost.c:143-203). The drop after a negative result of
`pkg_process` (remrt.c:642, 690) would need a message of a type without a handler,
which no rtsrv sends, or a failing malloc.

Of libpkg: writes that a signal interrupts, the skipping of noise before a
header, `pkg_bwaitfor`, the making of connections. A flush that a break cuts short
would keep the rest in the queue, which can only go out on the same broken connection:
those bytes count as lost, and a flush or send that fails at once as no step. The
queue may also be overrun with bytes that leave `pkc_magic` as it was; that is left
out. Of the database file: version 4, attributes and the contents of
objects, renaming, memory-only databases. Of the cache: the making of
directories, directories that cannot be read, formats newer than the library's, the file rt.db of
version 0, and the unlocked look into the table in `cache_create_dir`.
