# Specifications of the analyzer and its web server

The repository holds two programs written together and a number of exercises.

* **The analyzer** (`TCP_C`) keeps tables in memory, loads and saves them in an
  SSDB database, and answers JSON requests over TCP. One thread polls the
  sockets and runs the timers; a pool of threads does the work.
* **The web server** (`TCP_SERVER`) is a single-threaded HTTP server. It runs a
  Lua script per request, and the scripts call the analyzer over TCP.
* `work/gateway.c` is the main program of a captive portal whose other files are
  missing. The files in the root are exercises on lists, stacks and queues.
  `apue.3e`, `unpv13e`, `openresty-*` and `TCP_SERVER/modules` are third-party trees.

## Inventory

| Part | State | Operations | What is hard about it |
|---|---|---|---|
| Thread pool, `thread.c` | task list, its size, `shutdown`, a mutex, a condition variable | `pool_add_task`, `thread_routine`, `pool_destroy` | signal after the unlock, `shutdown` without the lock, memory freed under threads |
| Database client, `db.c` | free list, pool hash, one request per thread | `_dbdo` with its retries, `_db_get_conn`, `_db_conn_free`, `_dbrecv` | late answers, restarts of the database, connections that break while free |
| Analyzer loop, `main.c` | `an_conn_array`, `an_curfds`, `an_sock_hash` | `an_poll`, `an_sock_poll_add`, `an_tcp_recv`, `an_tcp_send`, the packet splitter | segments, slots reused before a reply is ready, blocking `recv`, a full table |
| HTTP server, `x-poll.c`, `x-session.c`, `x-lua.c` | `poll_fds`, `poll_curfds`, sessions with two buffers | `poll_process_run`, `ses_recv`, `ses_send`, `ses_release_session`, `lua_access` | partial sends, pipelined requests, a full table, failing set-up |
| Timers, `timer.c` (= `x-timer.c`) | five vectors of lists, `timer_jiffies` | `add_timer`, `mod_timer`, `del_timer`, `__run_timers` | wrap-around, cascades, callbacks that change timers |
| Allocation tracker, `mem.c` (≈ `x-memory.c`) | a hash of blocks, their sum, two locks | `_malloc`, `_realloc`, `_free` | an address is reused before its entry is gone |
| Task allocator, `allocator.c` | none of its own | `al_allocate_task` and one parser per command | missing fields |
| Tables, `hash.c` | about ten hashes, some sorted lists, the web cache | create, find, delete, sort, age | deletion while walking, a cache freed while it is used |
| Daily save, `auto_data_save.c` | raw log, summaries per user and group, a stored time for each, the lists in memory | save at three o'clock, update every ten minutes, check after a restart | crash between two writes, raw records deleted after they are counted, groups counted from users that change |
| Helpers, `public.c` | none | byte order, splitting, number parsing, time | boundaries |
| Gateway, `gateway.c` | child processes, signal handlers | `main_loop`, `sigchld_handler`, `termination_handler` | coalesced SIGCHLD, a second signal during termination |

`PROJECT.json` lists the same parts with their files, and the hazards with their lines.

## Modules

| Module | Models | Correspondence |
|---|---|---|
| `ThreadPool` | `thread.c` | One action per stretch between two lock, wait, signal or join operations. `head`, `cur_task_list_size` and `shutdown` are the fields of the pool; `added`, `started` and `dropped` are history. |
| `TaskQueue` | what `thread.c` promises | A queue with `Put`, `Take`, `Close` and `Discard`, each one step. `ThreadPool` implements it: `head` is the queue, `shutdown` closes it, the histories map to each other. |
| `ThreadPool_proofs` | | Theorems on `ThreadPool`, the refinement among them. |
| `DbPool` | pool and request loop of `db.c` | One action per critical section or system call of `_dbdo`. The database is external: it answers in order and in pieces, stops and starts. |
| `DbPool_proofs` | | Theorems on `DbPool`. |
| `XServer` | `x-poll.c`, `x-session.c`, `x-lua.c`, start-up | `poll_process_run` is split at `poll`, at each `accept`, and at each slot of the scan. A slot's handler is one action; handlers are operators that return the set of possible outcomes. |
| `XServer_proofs` | | Theorems on `XServer`, what each handler promises among their lemmas. |
| `Analyzer` | `an_poll` and all it calls in `main.c`, the socket hash, `al_allocate_task`, and `toserver` in `fun.lua` | Split as `XServer`. The splitter is a function of the buffer. This module composes the analyzer with its clients and its workers. |
| `Analyzer_proofs` | | The steps of `Analyzer`: table and hash, the bytes of a call, packets, replies. |
| `Analyzer_split` | | What the splitter computes, by induction over its loops, and the theorems that need it. |
| `TimerWheel` | `timer.c` | A list is a set of timers. One action per pass of each loop in `__run_timers`; callbacks may call every timer function. The sizes of the vectors and the number of values of `jiffies` are constants; shifts and masks are divisions and remainders. |
| `TimerWheel_proofs` | | The arithmetic of the wheel, its inductive invariant and the theorems. |
| `MemTrack` | `mem.c` | One action per critical section or C library call. |
| `MemTrack_proofs` | | What each control point knows of blocks and entries; then the sum, and the theorems. |
| `DataSave` | the statistics of `auto_data_save.c`, the lists of `hash.c` it uses, the request of `allocator.c` that updates them | One action per database write, since the program may die between any two. `raw`, `user_calc`, `user_time`, `group_calc`, `group_time` are the keys of the database and survive; `list`, `sums`, `mday` and the loop variables are memory and do not. Users, clock, restarts and new groups are actions of the world. |
| `DataSave_proofs` | | The inductive invariant of `DataSave`, that each action keeps it, and the theorems. |
| `MC*` | | Instances for TLC. |

Data is kept only as far as a property tells it apart. A request is a number, a
response is a length, a JSON text is a few bytes of the kinds the splitter
distinguishes. Wording, logging and formatting are left out.

In `DataSave` a time is a number of whole days, reversed as in the database
(`GMT_REVERS_MASK - day`), and the records of a user and a day are their number.

Four kinds of behaviour come from outside the code. Peers connect, send in
pieces, close and reset at any time. Memory and descriptors may run out where a
constant (`MemoryMayFail`, `NoBlockMayFail`) says so. The analyzer may die at
any step of the daily save and is started again. What lies in memory that
the code reads without having written it is a free choice.

Operators named for a fault (`NoSignal`, `AddByRemainder`, `ScanTooFar`...) are
faulty variants of the definition that follows them. Each makes one property
fail, which shows that the property depends on that code.

## Runs

Run one with `tlc -config <cfg> <module>`.

| Run | Config | Shows | Bounds |
|---|---|---|---|
| `pool` | `MCThreadPool` | Tasks start once and in order, no wake-up is lost, nothing is freed under a worker, the pool implements `TaskQueue`, every task starts. | 2 workers, 2 callers, 3 tasks, 1 destroyer |
| `pool_destroy` | `MCThreadPoolDestroy` | **Violated**: `pool_destroy` may join a worker for ever. | as above, 1 task |
| `db_pool` | `MCDbPool` | One holder per connection, a bounded pool, replies that match, errors with a cause, calls that return. | 2 threads, 3 connections, 4 attempts as in the code, replies in 2 pieces |
| `x_server` | `MCXServer` | Sessions and slots agree when the table is full and set-up fails, no slot is outside what is polled, unsent bytes are polled for, the first slot is served. | 2 slots, 2 descriptors, closed descriptors that keep their slot, responses sent in 2 parts |
| `x_full` | `MCXServerFull` | **Violated**: a full table makes the scan handle the memory behind it. | 1 slot, 2 descriptors |
| `x_pipeline` | `MCXServerPipeline` | **Violated**: an early second request shrinks the send buffer. | 1 slot, responses of 2 to 4 bytes |
| `analyzer` | `MCAnalyzer` | Table and hash agree, packets stay whole, `rcv_len` never falls below zero, a reply goes astray only after its call has given up, passes end. | 2 slots, 3 connections, a packet of 5 bytes cut in two, 1 call that may give up |
| `analyzer_segments` | `MCAnalyzerSegments` | **Violated**: a first segment of one byte loses the packet. | as above, cut anywhere |
| `timer` | `MCTimerWheel` | A timer runs in the jiffy it is due. | 2 timers, vectors of two lists, `jiffies` modulo 64, `MaxLag` 1 |
| `mem_track` | `MCMemTrack` | A search finds the entry of its own block; the report is exact at rest. | 3 threads, 3 addresses, 2 sizes |
| `data_save` | `MCDataSave` | Nothing is deleted before it is counted, groups agree with their users, records over midnight are credited before they are cut, no summary shrinks, every day is saved. | 2 users in 2 groups, one of them added on the way; 3 days, 1 record per user and day, summaries kept 2 days, 1 crash at any step |
| `data_save_group` | `MCDataSaveNewGroup` | **Violated**: the start-up check passes over a group that has no stored time. | as above |

Why the bounds are enough to meet the interesting cases:

* Two workers and two callers let a signal be taken by the wrong worker and let
  a caller sit between its unlock and its signal.
* `db_pool` has one connection more than its threads may hold, so that
  `PoolBounded` can fail, and request numbers that are used again.
* Tables of one or two slots overflow with two or three connections. In
  `x_server` a socket whose set-up fails keeps its slot (`leaked`), so two
  descriptors fill the table.
* The wheel has all five vectors, and the delays lie on both sides of each
  distance at which `internal_add_timer` changes the vector. The clock starts at
  every value, so it wraps in many behaviours. A delay longer than the wheel
  (`internal_add_timer` cuts it) needs a `Word` of more than two turns, so the run
  does not meet it; the proofs cover it.
* Three days are the least in which a day is logged, saved, deleted with its
  successor and, with `KeepDays` 2, past its keeping time. One crash can fall
  before, between and after the writes of each day; the restart may come on the
  same day, on the next, or after a day was slept through. Records over midnight
  are allowed for one user and day. One record per day is enough for a day to be
  empty, logged but not counted yet (a late record), or counted.
  The proofs carry all five safety properties to any number of each.
* With three threads in `mem_track` one can use the address that a second was
  given while the first still moves its block.

`CHECK_DEADLOCK FALSE` is set where the system may stop: all tasks are done, the
process has ended, all blocks are held, or the last day is over.

### Fairness

* `pool`, `pool_destroy`: every thread that can run runs (weak), and one that
  asks for the mutex again and again gets it (strong). This is what pthreads on a
  preemptive scheduler gives. No caller has to come.
* `db_pool`: a call goes on, since `recv` and `send` have a time-out of one
  second. Nothing is assumed of the database.
* `x_server`: the loop goes on; all its sockets are non-blocking. `FirstSlotServed`
  has the condition that `accept` loops end, because sockets whose set-up fails
  can come one after the other for ever and the scan then never starts.
* `analyzer`: the loop takes the steps it can take, and a call that has connected
  sends its packet or gives up (`toserver` sends right after `connect`, with a
  time-out of three seconds). Without the second assumption `LoopGoesOn` is false,
  because `recv` on a new connection blocks.
* `data_save`: time passes (midnight and three o'clock come), the program is
  started again when it is down (the source names the guardian process that does
  it, `auto_data_save.c:1644`), and the start-up and the ten-minute task go on:
  the timer sets itself again whatever happens (`an_auto_data_save_timeout`) and
  a worker of the pool runs the task, which is `TasksStart` of `pool`.
* `timer` needs none. That a pending timer does run is the invariant
  `RunsInDueJiffy`: when the wheel passes the jiffy a timer is due, the timer is
  on the list being run.

### Assumptions on the parts that are not in the repository

`worker.c` holds a copy of its header. A worker is modelled by what the rest
needs of it: it looks up the slot of its task, stores the reply and asks for
POLLOUT, in one step. SSDB answers the requests of a connection in order.
`SIGPIPE` may end the process, because `an_signals_init` installs a structure it
does not fill in. In `analyzer` the byte behind a receive buffer is harmless
(`Behind`), and a first segment has at least four bytes (`FirstSegment`); the
second assumption is the one `analyzer_segments` drops. The theorems need less,
`Framing`: see `Analyzer_split` below.

For `DataSave`:

* A record is logged on the day it belongs to, and the clock is not set back.
  (`ww_time_init` sets it and exits; the branch of the check for stored times
  later than today is in the model and is never needed under this assumption.)
* Midnight does not fall between start-up and the first task, 60 seconds later.
* `dbmulti_set` is one step: the database applies its keys together.
* A loop over keys or lists may meet its members in any order (`Orders`).
* `ww_add_or_init_calc_behavior_to_list` (in `worker.c`) brings the list up to
  what the raw log holds for the list's day; users without a record may be listed
  or not. It runs in the worker and in the main thread, as one step each time.
* `resave_out_time_calc_act_to_user` and `_to_group` (in `worker.c`) credit the
  part before midnight in one write each.
* A worker may add a group at any time; groups are not deleted and users do not
  change their group.

## What disagrees with the text of the repository

* `thread.c:100`: `shutdown` is set and broadcast without the lock, so a worker
  can miss it; the comment says that all threads are collected.
* `x-poll.c:64`: a full table still counts `poll_curfds` up, and the scan releases
  a session that does not exist, against an assertion.
* `x-lua.c:104`: the send buffer is sized for the new response only, against an
  assertion of the tracker.
* `auto_data_save.c:778`: the time of the group before is used for a group that has
  none stored. If the program dies on such a group's first day between the save
  of the users and that of the groups, the group never gets a summary of that day,
  although the check is there to find it.
* `main.c:498`: a line feed alone is taken for a packet, against the comment
  that says what a packet is.

## Proofs

Checked with `tlapm <module>.tla`. All theorems hold for any values of the
constants that satisfy the named assumptions (`PoolAssumption`, `DbAssumption`,
`ServerAssumption`, `NoSessionAssumption`, `AnalyzerAssumption`, `WheelAssumption`,
`MemAssumption`, `ConstantsAssumption`), which say that special values differ, that
sizes are positive and that sets of threads, users and groups are finite.
`WheelAssumption` also says that the wheel divides the range of `jiffies` (2^32
divides 2^32 and 2^64) and that delays stay, by the lag of the wheel, inside what
a signed comparison can tell. The runs evaluate them.

**`ThreadPool_proofs`** proves `TypeOK`, `SizeCountsList`, `FifoNoLoss`,
`NoLostSignal`, `FreedAfterWorkers` and the refinement `ImplementsQueue`. They are
not inductive alone. `IInv` adds `SizeCountsList` (a worker decides by the size,
the proof needs the list), `LockOwned` (a worker about to sleep saw an empty list
and still holds the mutex, so no task was linked since) and `CallersApart` (adding
and destroying do not overlap, which is the contract of the callers). The proof
takes one step per action; two lemmas on sequences carry `FifoNoLoss`. For the
refinement each action maps to one step of `TaskQueue` or to none: linking a task
is `Put`, taking one is `Take`, setting `shutdown` is `Close`, freeing the list is
`Discard`. `IInv` is needed for `Put` (no caller adds once the pool is shut down),
for `Take` (the size says the list is not empty) and for `Discard` (`shutdown` was
set before).

**`DbPool_proofs`** proves `TypeOK`, `OneHolder`, `PoolBounded`, `RepliesMatch` and
`ErrorsHaveACause`.
`Exclusive` is `OneHolder` element by element: a connection of the pool is free,
once, or held by one thread. `PoolCounted` and `ClaimsBounded` count: every
connection that exists, or that a thread is about to create, is charged to a
thread, which needs that a thread creates one only after it found none free.
`WireMatches` says that on a held connection only the last request of its holder
and its answer are under way; this is what a connection destroyed after a
time-out, instead of freed, gives, and `RepliesMatch` follows from it.
`ErrorsHaveACause` needs a second induction on top (`FailuresCaused`): a call that
met nothing itself has destroyed one broken connection per failed attempt, and by
`PoolBounded` there were never more of those than threads, so with fewer threads
than attempts it does not run out; only a restart breaks more, and a restart is a
cause for every call it meets.

**`XServer_proofs`** proves `TypeOK`, `SessionsHaveSlots`, `SlotsMatchSessions`,
`CurfdsCoversTable` and `NoStalledResponse` (`SlotsMatchSessions` until the first
socket that cannot be made non-blocking, which `leaked` records). `IInv` joins the
first four with two facts: the scan index is a cell of the table while it is used,
and the memory behind the table never holds one of the connections. The handlers
are treated apart: whatever `ses_recv`, `ses_send` and the Lua handler do, the
session they return names the same slot (`EventsKeepPid`). `poll_add` is safe
because a free slot below the end of the table is never beyond `poll_curfds`
(`FreeSlotCovered`). `NoStalledResponse` comes from a contract of the handlers:
whenever one keeps the session, a complete request has its response and what it
does to POLLOUT goes with what is left to send (`Serves`, `Answers`). The contract
is shown for the send, the growing of the buffer, the error answer, the Lua
handler and the receive in turn.

**`Analyzer_proofs`** and **`Analyzer_split`** prove all invariants of `Analyzer`, for
any table, connections and packets. The first module is about the steps, the second
about `an_split_rcv_buf_to_json`. Between them stands `Splits`, which says what the
splitter does with a buffer: the first module assumes it, the second proves it and
draws the conclusions, so that no theorem is left with that hypothesis.

* `TableMatchesHash` and `CurfdsCoversTable`: `IInv` adds the types the table
  depends on, that a connection is in the backlog once, and that `an_poll` accepts
  only when one waits. The buffers are opaque here: whatever the splitter returns,
  the handler leaves the table alone or closes the slot it serves. The point of
  interest is `an_curfds`, which a close lowers in the middle of the scan
  (`NextSlotCursor`).
* The splitter: the library's least-element theorem (`WFMin`) gives induction for
  sets of naturals (`Induction`), which the loops need: each pass of the loop counts
  a byte or a line feed, so it ends (`ScanEnds`); each round consumes bytes, so the
  rounds end (`SplitTyped`). `SplitFrames` says what comes out for the first n bytes
  of a framed packet: they stay in the buffer, or, when n is its length, the packet
  is handed over without its line feed.
* `TypeOK`: what is left in a buffer is an end of what was there, so the types depend
  on where the bytes come from. `Streams` says that receive buffer, socket and client
  hold adjacent parts of one packet (`Flows`).
* `PacketsIntact` and `RcvLenNotNegative`, under `Framing`. `Whole` says that a
  packet was handed over once and nothing of it is left, or nothing of it was handed
  over and the parts make up all of it (`Awaited`).
* `StrayRepliesAreLate`, under `Framing`. `Askers` says that the task of a call which
  still waits finds that call in the slot it remembers, that a send buffer holds the
  reply of its own call or of one that has given up, and that POLLOUT is asked for
  and seen only where there is a reply. It needs `Whole`: a call has one task because
  its packet is handed over once.

`Framing` says what the code relies on. Every packet starts with
a line feed and has no other; its braces match and the last byte closes the first,
where the code counts braces in strings as well (`Framed`). The byte behind the
received ones, at which the loop looks because it does not count the line feed, is
neither a line feed nor a closing brace. The first segment and the first `recv` of a
packet bring more than its line feed, which is the case `analyzer_segments` shows to
fail. The constants of `analyzer` satisfy `Framing`; `MCAnalyzer` has TLC evaluate it.
`TypeOK` and the properties of the table need none of this.

**`TimerWheel_proofs`** proves `TypeOK`, `RunsInDueJiffy`, `WorkListEmptied` and the
action property `NeverEarly`, for any sizes of the vectors. A list is `Reached` in
d jiffies if that is when the wheel cascades or runs it. `OnTime` says that a
timer's list is reached no later than the timer is due, and exactly then if the
list is one of tv1; `DueAfterExpiry` ties the due jiffy to `expires` for
`NeverEarly`; `Lag` bounds how far the clock is ahead. The work is arithmetic
modulo the size of a word: the lemmas before the invariant say what a division, a
remainder and a wrap do to an index, and that a timer put on the list
`internal_add_timer` picks is on time again, also when it comes from a cascade.

**`MemTrack_proofs`** proves `TypeOK`, `FindsOwnEntry` and
`ReportExact` for any number of threads, addresses and sizes. `BInv` says what
each control point knows of its block and its entry. Its difficult part is
`OrderInv`: after `realloc` moved a block the old address may be given out again
while the old entry is still linked, and a search is right only because
`hlist_add_head` puts the newer entry before the older. `SumInv` says that
`total_mem_size` is the number of bytes charged at that moment, where an entry is
charged or not by the control point of the thread that works on it (`Counted`).
Only the last section needs facts on cardinality.

**`DataSave_proofs`** proves `TypeOK`, `SavedBeforeDeleted`, `GroupUpToDate`,
`CrossingCredited` and `SummaryNeverShrinks`. The argument rests on what a stored
time means:

* `LogInv`, `CalcInv`: nothing of today is deleted; a user's stored time of
  yesterday means yesterday's summary is complete; yesterday's records are deleted
  only under such a time. So the check counts a day again only while all its
  records are there, and no summary shrinks.
* `PastInv`: days before yesterday are settled, slept through, or past keeping.
  It carries the facts on yesterday over midnight.
* `ListInv`: when the save begins, the list is for yesterday and holds every
  record of it, because a task ran after midnight, when no record of that day
  could come any more.
* `CheckInv`, `CreditInv`, `RecountInv`, `SaveInv`: what has been done for the
  members the current loop has left behind.
* `GroupInv`, `CountedInv`: a group's stored time covers only what the group has
  counted; a user's write of the check puts it back in the same step.

`GroupUpToDate` is stated for the groups that existed with a stored time; for
others it fails, see `data_save_group`. The lemmas on the actions are grouped by
the part of the program an action belongs to: world, check, save.

**Only model-checked.** Liveness (`TasksStart`, `CallsReturn`, `FirstSlotServed`,
`LoopGoesOn`, `EveryDaySaved`) and `ENABLED` are out of the prover's reach. Every
invariant and action property of a passing run is proved; those about packets and
replies of the analyzer under `Framing`, as said above.

## Not modelled

* `worker.c`: the file is a copy of its header; the functions are not in the
  repository. Much of what follows is out of reach for that reason.
* The hourly saves of details and messages (`ww_save_all_user_detail_act_to_db`,
  `ww_save_all_user_qq_msg_to_db`): their lists and the times that drive them are
  filled by `worker.c`. They write keys of their own, which no statistic reads, and
  `an_auto_data_save` ignores their results ("这里是否记录影响不大", whether they are
  recorded matters little, `auto_data_save.c:2185`). `PROJECT.json` lists the hazard.
* `ww_time_init`: it sets the system clock from the latest record and exits.
  `DataSave` assumes a clock that is right.
* The web cache, the rule tables and the sorted lists of `hash.c`: the code that
  uses them concurrently is in `worker.c`.
* The parsers per command of `allocator.c`, building requests and parsing replies
  in `db.c`, `public.c`: sequential conversions of text without state.
* `jiffies_get`: `TimerWheel` takes a clock that only moves forward.
* `an_database_init`: one sequential pass before the loop starts.
* `work/gateway.c`: the files it calls are not in the repository.
* The exercises in the root: stand-alone programs that nothing uses.
* Lua pages other than `toserver`: they build text.
* `wys_show_mem_info`, `wys_hex_dump`: they print.
* `cJSON.c`, `TCP_SERVER/modules`, `apue.3e`, `unpv13e`, `openresty-*`: third-party
  code. These trees are most of the repository's half a million lines, so the share
  of all lines that `map` covers is small; of the roughly 15,000 lines written for
  the two programs it covers about a fifth.
