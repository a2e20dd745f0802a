# FileHub: specifications and proofs

TLA+ models of the FileHub server (`src/application/filehub`) and of the libraries it
is built on, the TLC runs that check them and TLAPS proofs about them.

FileHub is a network drive. An HTTP server on muduo hands every request to a pool
of worker threads; a handler keeps its state in MySQL (who owns which file, how
often a file is referenced, which files are published), in Redis (the ranking of
published files, login tokens) and in FastDFS (the data). Files are stored once
per MD5 digest, so the correctness of the whole rests on a **reference count**
that several handlers change, each in several statements, without transactions.

## 1. Inventory

| part | state | operations | interacts through |
|---|---|---|---|
| Upload, instant upload, save, delete (`api_upload.cc`, `api_md5.cc`, `api_deal_sharefile.cc`, `api_dealfile.cc`) | `file_info`, `user_file_list`, FastDFS | one handler each, 3 to 9 statements | the tables; `FileInfoLock` around changes of `file_info` |
| Share, cancel, downloads, ranking (`api_dealfile.cc`, `api_deal_sharefile.cc`, `api_sharefiles.cc`) | `share_file_list`, `shared_status`, `pv`, Redis sorted set and hash | one handler each | the same facts twice, in MySQL and in Redis; a "distributed lock" in Redis |
| `FileInfoLock` (`api_common.h`) | flag, mutex, condition variable | `TryLockFor(1000)`, `Unlock` | all ownership handlers, process-wide |
| Connection pools (`db_pool.cc`, `cache_pool.cc`) | free list, count, condition variable | get, release | every handler, one to three connections at once |
| MySQL and Redis connections (the same files) | session, transaction, prepared statement; `redisContext` | statements, transactions, commands | owned by one handler at a time; servers that go away |
| FastDFS tools (`api_upload.cc`, `api_common.cc`) | child processes, pipes | upload, URL, delete | `fork`, `wait` shared by all threads |
| Register, login, my files, share list, pictures | `user_info`, tokens in Redis, `share_picture_list` | one handler each | `VerifyToken`; the tables of the ownership handlers |
| Dispatch (`main.cc`, `http_conn.cc`) | map of connections, a buffer and a parser per connection | connect, message, disconnect | I/O threads and workers |
| `http_parser`, `CHttpParserWrapper` | state of the parser | execute, callbacks, URL | called again and again on one growing buffer |
| muduo (`src/muduo`) | loops, functors, connections, timers, buffers, log buffers and files | poll, queueInLoop, send, shutdown, accept, connect, addTimer, cancel, append | one loop per thread, eventfd between them |
| hiredis (`redis/`) | reader, context, async context, sds, dict | commands, replies, connecting, subscriptions | sockets, callbacks |
| Text helpers, configuration | a map and a file | pure functions, load and save | |
| Upload client (`src/client`) | | third-party | HTTP |

What is hard here, and hard to test:

* **Interleavings.** 64 workers, and between any two statements of a handler any
  number of others. The lock covers some statements of a handler and not others:
  a delete drops its row before it takes the lock and removes the data after it
  has released it; a save counts inside and inserts its row outside.
* **Failure in the middle.** There is no rollback. What a handler has done when a
  statement fails, a wait times out or the process dies, stays done. A NULL result
  set, reply or connection is dereferenced, so the process does die.
* **Read, then write.** Counts, `pv`, `shared_status`, "is the name free", "is it in
  Redis": all are read by one statement and acted upon by another.
* **Two copies.** Published files are kept in MySQL and Redis, and no step
  changes both.
* **Waiting.** `notify_one` with timeouts; pools where a thread that holds a
  connection waits for another one; `wait(NULL)`, which reaps children of other
  threads; a loop that may be about to sleep when work is queued for it.
* **Lifetimes.** A connection is removed over two loops while tasks and functors
  refer to it; callbacks free the object that calls them; a timer is cancelled by
  another timer of its batch.
* **Cut bytes.** Requests and replies arrive in any pieces; buffers and strings grow
  and move under their content.

The list with the lines at which each hazard bites is `hazards` in
`PROJECT.json`.

## 2. Modules

| module | models |
|---|---|
| `FileHubState` | constants and assumptions, tables, Redis, FastDFS, lock, locals of the threads, the life of a request (`Receive`, `Refuse`, `Reply`, `Crash`) |
| `FileOwnership` | `ApiUpload` + `storeFileinfo`, `handleDealMd5`, `handleSaveFile`, `handleDeleteFile` |
| `FileSharing` | `handleShareFile`, `handleCancelShareFile`, both `handlePvFile`, `handleGetRankingFilelist` |
| `FileHub` | all handlers together; specification, fairness and properties |
| `FileStore` | abstract: what the ownership handlers promise |
| `TimedLock` | abstract: what the lock promises |
| `FileInfoLock` | the class `FileInfoLock`, with its condition variable |
| `ConnPool` | both kinds of connection pool, with handlers as users |
| `FdfsTools` | the children of `uploadFileToFastDfs`, `getFullUrlByFileid`, `RemoveFileFromFastDfs`: pipes, inherited descriptors, `select`, `waitpid`, `wait(NULL)` |
| `UserPages` | register, login, tokens, my files, share list, pictures |
| `EventLoop`, `TcpConnection`, `TcpServer` | muduo: poll and functors; a connection and its output; accepting and removing connections. Each extends the one before |
| `HttpServer` | `main.cc` and `CHttpConn` on top of `TcpServer`: the thread pool, `OnRead`, the answers |
| `TimerQueue` | muduo's timers |
| `TcpClient` | muduo's `Connector` and `TcpClient`: retries, stop, reconnection |
| `AsyncLogging` | muduo's `AsyncLogging` and `LogFile`: spare buffers, the logging thread, rolling |
| `Buffer`, `ByteQueue` | muduo's `Buffer`, and what it implements |
| `HttpChars`, `HttpParser`, `HttpParserWrapper` | the character classes, the states of `http_parser_execute`, the wrapper and `http_parser_parse_url` |
| `CacheConn` | a Redis connection over the blocking API of hiredis |
| `NetConnect` | hiredis' connecting: addresses, source addresses, retries, timeouts |
| `RedisReader` | hiredis' formatting of commands and reading of replies |
| `RedisAsync` | hiredis' asynchronous API |
| `Sds`, `Dict` | hiredis' strings and dictionary |
| `DbConn` | a MySQL connection, prepared statements, transactions |
| `TextHelpers` | `TrimSpace`, `QueryParseKeyValue`, `GetFileSuffix`, splitting, URL coding, `CConfigFileReader` |
| `FileHub_proofs`, `FileHub_files_proofs`, `FileHub_sharing_proofs` | theorems about the handlers; each extends the one before |
| `Threads_proofs` | theorems about the lock, the pools, the tools, the timers and the log |
| `UserPages_proofs`, `Connections_proofs` | theorems about users and pages, and about the connections to MySQL, Redis and servers |
| `RedisAsync_proofs` | theorem about hiredis' asynchronous API |
| `Server_proofs` | theorems about `Buffer` and about `HttpServer` with everything it extends |
| `MCFileHub`, `MCHttpServer`, `MCUserPages`, `MCHttpParser`, `MCRedisReader` | constants and inputs of the runs |
| `MCThreads`, `MCRedis`, `MCStreams` | several components side by side |

**Components side by side.** `MCThreads`, `MCRedis` and `MCStreams` put components
into one run that share no state: `subject` is chosen at the start, and only that
component moves. This is the disjoint sum of their state spaces, not a product; a
property of one component is checked in all states of that component.

### The handlers

**State and code.** One action is one statement that another thread can see: a SQL
statement (autocommit), a Redis command, a FastDFS tool, taking the lock. What a
handler computes between two of them belongs to the action before. `pc[t]` names
the next statement: `up_` is `ApiUpload`, `md_` `handleDealMd5`, `sv_`
`handleSaveFile`, `dl_` `handleDeleteFile`, `sh_` `handleShareFile`, `cn_`
`handleCancelShareFile`, `pv_` and `sp_` the two `handlePvFile`, `rk_` the
ranking. `fid`, `exsit`, `cnt`, `rows`, `page` are the locals `fileid`/`file_id`,
`file_exsit`, `count`/`pv`, the result set being loaded and the members being
looked up. The destructor of `ScopedFileInfoLock` is part of the statement with
which its scope ends.

**Data.** `file_info` maps a digest to count and FastDFS id. `user_file_list` is a
set of (user, md5, file name), its unique key; `shared_status` is the subset with
the flag, `user_pv` a column. `share_file_list` has no unique key but `id`, so it is
a set of rows with one. `fdfs` says what became of every id. Times, sizes, URLs and
suffixes are left out.

**Results that matter.** `ExecuteUpdate` fails on zero rows unless told not to,
`ExecutePassQuery` and `ExecuteDrop` do not; MySQL reports zero rows for an update
that changes nothing; `HDEL` and `ZINCRBY` return numbers that the handlers take for
error codes; `ZLEXCOUNT` is exact only when all scores are equal;
`ApiDealsharefile` tests `ret < 0`. All of this is in the actions.

**Environment, by constants.** `Commands`: what clients send. `Faults`: the
statements that may fail without effect. `LostAnswers`: those that may be executed while
the handler is told that they failed, because the connection is lost or the time is up
before the answer comes; `fdfs_delete` is the tool that removes data, which may have done
its work and be reported as failed. The fault `fdfs_wait` is not a failure of any
part: while one thread is in `getFullUrlByFileid`, whose `wait(NULL)` takes any child
(`api_upload.cc:244`), the upload or delete of another may be reported as failed after its
tool has done its work (`:72-76`; `FdfsTools` models how). `Crashes`: may the process die between two statements.
`Exclusive`: commands no two of which a user has in flight for one row. `OwnersOnly`:
clients share only what is in their list (an assumption on clients: the
server does not check it). A property that needs a restriction of the environment says
so by the constants of its run.

**UserPages.** The same granularity. Random strings (tokens, picture links) are drawn
from `rand()`, which nobody seeds, so that they are numbers in the order drawn since
the start of the process: a restart draws them again. Files and shares are published
and withdrawn by the handlers of `FileHub`, for which `Publish` and `Withdraw` stand.
`handleBrowsePicture` ends without a `return`; the value it gives is not used. A failing
write (`insert`, `share`, `pv`, `cancel`) has been executed or not, as a choice. A token
that Redis does not have, or a failed `GET`, gives `VerifyToken` the empty string, which it
compares with the user name like any other (`api_common.cc:20`): one of the two names of
the run is empty. A request carries as history (`owners`) whose token Redis said its
token was when the request came, so that a property can speak of expiry.

**ConnPool.** A thread that finds no free connection and the pool at its maximum
goes to `asleep`; `notify_one` or a spurious wakeup moves it to `woken`; it then
looks again. A new thread may take the connection first. `Scopes` are the sequences
of pools that handlers ask: share, delete, cancel and download `<<master,
ranking>>`, the share list `<<slave, slave>>`, the ranking `<<slave, ranking,
slave>>`. Opening a connection may fail, and the handler goes without it.

**FdfsTools.** A call, its pipe and its child share a number. A child inherits the
write ends that are open when it is forked, so that one thread's reader may see the end
of its pipe only when another thread's child ends. `wait(NULL)` takes any child. When
the child of `uploadFileToFastDfs` has been taken by somebody else, `waitpid` gives
`ECHILD` and the status was never set: its outcome is a choice. A failed `fork` in
`getFullUrlByFileid` leaves both ends of the pipe open (`leaked`), and a child whose
parent's wait was robbed may stay a zombie. It is assumed that `fdfs_file_info` can be
executed: if `execlp` fails the child does not exit but goes on as a second copy of the
thread, and the parent reads for ever.

### The server and muduo

`EventLoop` has a loop per thread: it polls, handles the active channels, and runs
the functors that were queued when it began. `TcpConnection` adds connection states,
the output buffer and short writes; `TcpServer` accepting, the idle descriptor and the
removal of a connection over two loops; `HttpServer` the map of `CHttpConn`, the task
queue, workers that run `OnRead`. A request is a number of segments and an answer two
units, so that a write can be short. `onMessage` peeks and never retrieves: each
`OnRead` parses everything received so far. Two workers may do so at once with one
parser, which is a data race: such a parse finds a complete request or not, as a
choice. `num_threads = 0` is excluded. `sendInLoop` is bound to a bare pointer
(`TcpConnection.cc:104`) and keeps nothing alive: `ConnectionsSound` says that whatever
is queued finds its connection, except such a functor after the connection was closed;
what it then does through the pointer is modelled as giving up, because the state it
would read was `kDisconnected` when the object was destroyed.

`TcpClient` numbers sockets; a socket, its channel and its connection share the number.
`connect()` is called once, from outside the loop: a second call may meet the timer of the
first, which `Connector` does not cancel, and fail its assertion. The test and the change
of `state_` in `shutdown()` are one step. `stop()` that falls between the test
`retry_ && connect_` and `restart()` is undone by it (`connect_ = true`,
`Connector.cc:124`), and the client connects again: `StopHolds` excludes that case
(`overtaken`). `disconnect()` before there is a connection does not prevent one.

`AsyncLogging` has numbered lines and buffers that hold two of them. Lines that are
appended after the last swap before `stop()` are never written, so `LogWritten` is about
a thread that keeps running. A file that is full or of the wrong period is not rolled
twice within one second, as its name would be the same.

`HttpParser` has every state of `http_parser_execute`, strict mode, byte by byte, for
requests and responses. `HttpParserWrapper` keeps the marks and headers; pipelined
requests run together in one wrapper, as in the code. The inputs, in `MCHttpParser`,
are messages together with what they mean. A request with the method `M-SEARCH` is
refused: its name was formatted into `"M - SEARCH"` in the table of methods.

### Redis and MySQL

`CacheConn` has three shapes of method: those that free the context when the reply is
NULL (`MGet`), those that keep it (`HgetInto`), those that look into the reply without
asking (`ZsetExist`); one of each is used in the runs, which keeps the state space
small. Commands and replies have two bytes, so that each is cut. No timeouts are set
on these sockets: a server that stays silent blocks its thread, and is not a fault of
the model. After a refused `AUTH` the context is kept and never logged in again, so
`CacheRecovers` excludes that case, and endless calls of the one method that keeps a
broken context. `ZsetIncr` and `FlushDb` report a failure whatever Redis answers.
`NetConnect` lets every system call fail.

`RedisAsync` has the callers as well, also calling out of callbacks; the server of
FileHub does not use this API. What it promises holds for a caller that is careful in
ways the library does not check (`Careful`; the variable `careless` says that a caller is
not): while an `UNSUBSCRIBE` is unanswered it only subscribes, it
unsubscribes only from what it is subscribed to, and `MONITOR` has a connection of its
own. The second condition came out of the proof: `pending_subs` is carried over from one
name of a `SUBSCRIBE` to the next (`async.c:699`, `:727`), so that after `sub a; sub a b`
the context waits for one answer about `b` too many, stays subscribed after both names are
unsubscribed, and an `UNSUBSCRIBE` of a name it no longer knows leaves in `cb` the callback
that ran last, which then runs again.

`RedisReader` formats commands and reads replies byte by byte, with integers of a
narrow width. A format that ends inside a conversion is undefined (`hiredis.c:337`) and
is not among its inputs. `Sds` has header widths that are reached by strings of 2 and 4
characters; bytes behind the NUL are not modelled. `DbConn` changes two rows in a
transaction, one by a statement and one by a prepared statement, over sessions that get
lost.

`TextHelpers` gives each helper all texts over a small alphabet. For an empty text
`TrimSpace` reads the byte before it (`inbuf[-1]`), which is undefined; whatever is there
does not change its result, and the model has no such byte. `QueryParseKeyValue`
finds its key anywhere (`strstr`), so that its property is about texts in which the
name first stands where the parameter does; a configuration line longer than the
buffers is read in parts, a pair that is too long loses its line break, and `ConfigKept`
is about pairs that fit. What `fclose` returns is not looked at by the code and not modelled,
nor is the fixed size of the buffers the values are copied to.

## 3. Runs

| run | shows | bounds |
|---|---|---|
| `ownership` | `RefCountCovers`, `OwnedFilesAvailable`, `KeepsPromise` (implements `FileStore`), `UsesTimedLock` | 3 threads, 2 users who own 1 file, 3 requests, all faults but the two inserts, answers lost of all other writes of these handlers, robbed waits, crashes, deletes of one row apart |
| `progress` | `Answered`, `LockReleased`, `NoOrphans` | 2 threads, 2 users, 3 requests, a failing select or delete of a record, a lost answer to an update of a record or to the insert of a row, fairness |
| `sharing` | `SharedHasRow`, `PublishedFilesAvailable` | 2 threads, 2 users who own 1 file, 4 requests, each user one thing at a time; failing select, Redis and change of the flag, lost answers to the insert of a share and the delete of a row |
| `chaos` | `TypeOK` | 2 threads, 2 users, 3 requests of all 9 commands, all faults, any answer lost, crashes |
| `threads` | lock: `NoLostWakeup`, `ImplementsTimedLock`, `TryReturns`; pools: `PoolsSound`, `Finishes`; timers: `TimersSound`, `TimerRuns`; tools: `ToolsSound`, `Finishes` | lock: 3 threads, unbounded; pools: 3 threads, 3 handlers, 1, 4 and 2 connections; timers: 2 timers at 2 addresses, the clock set back once; tools: 2 threads, 2 calls |
| `server` | `NoLostWakeup` (of the loops), `OutputRight`, `ConnectionsSound`, `Freed`, `AnsweredOnce` | 2 connections and 1 descriptor, 1 acceptor and 1 I/O loop, 2 workers, requests of 1 and 2 segments, 1 reset |
| `users` | `RegisteredOnce`, `TokenVouches`, `ViewsCounted` | 2 workers, 2 names, one of them empty, 3 requests of all 10 kinds, 1 failing statement, executed or not, 1 restart |
| `redis` | `ConnKept`, `CacheRecovers`; `ConnectClean`; `CallbacksRight`, `FreeEnds`; `AllOrNothing` | 1 connection lost, 1 outage, 1 error reply; 2 addresses, 3 retries; 3 commands and 1 message; 2 outages of MySQL, 3 transactions; 4 sockets of a `TcpClient` |
| `streams` | `SpaceMade`, `ImplementsQueue`; `HttpExact`; `ReaderExact`; `ContainersExact`; `HelpersExact`; `LogKept`, `LogWritten` | blocks of 1 and 3 bytes in a buffer of 2; about a hundred HTTP texts and the replies of `MCRedisReader`, cut in several ways; strings up to 4, texts up to 4 characters, 5 keys; 6 lines in buffers of 2, more than 2 of which are dropped |

What the properties say:

* `PoolsSound`: no connection is lent to two handlers, none is lost, there are never
  more than the maximum, and free connections are always announced to enough sleepers
  (`WakeupCovers`). `Finishes`: no handler waits for connections or tools for ever.
* `TimersSound`: nothing deleted is used, no timer is lost, a cancelled one does not
  come back, the alarm is set while there is something to wait for. `TimerRuns`: a
  timer whose time comes runs.
* `ToolsSound`: what is reported done was done by the tool of this call although another
  thread may have reaped it; pipes are closed; only as many zombies remain as waits were
  robbed.
* `ConnectionsSound`: what is queued for a connection finds it, a connection is removed
  once, descriptors stay below the limit. `Freed` and `AnsweredOnce` are about states
  in which everything waits: nothing of a connection that is gone is left, and a request
  in one piece was carried out once and answered completely.
* `RegisteredOnce` depends on the unique keys of the table, not on the SELECT in front
  of the insert. `TokenVouches`: the files of a user with a name are shown only for a token
  that was issued to this user for their password and that Redis still had for them when
  the request came. `ViewsCounted`: an answered view is counted, and one without an answer
  only where the answer of the `UPDATE` was lost; this one increments in SQL, unlike the
  downloads below.
* `ConnKept`: a method never takes the reply of an earlier call for its own.
  `CallbacksRight`: each callback runs once and in order, with its own reply, whatever it
  frees or disconnects, none is taken away while the server still sends to it, and no
  assertion of the library fails. `AllOrNothing`: a transaction that loses its session is not half done.
* `ConnectClean`: connecting loses no socket and says how it ended, in hiredis
  (`NetClean`) and in the client of muduo (`ClientClean`: every open socket is owned, the
  assertions hold, one connection at a time, `stop()` holds).
* `HttpExact` and `ReaderExact`: how a text is cut makes no difference, and what is
  understood is what the text was made from.
* `LogKept`: no line is lost, repeated or out of order between `append` and the files,
  except where a message says that lines were dropped, and the two spare buffers are
  back and empty for each round. `LogWritten`: a line comes to the disk although no other
  follows, and `stop()` returns although its `notify` may come before the wait.

*Why the bounds are enough.* The digests do not interact: every statement on
`file_info` names one md5, and only the ranking reads all rows, so one digest
suffices. Two users are needed for one to lose what the other deletes. Three
requests allow for the deletes of both owners and an upload or save against them;
three threads for one inside the lock, one waiting and one outside. `MaxRequests`
and the number of FastDFS ids (one per upload and seed) are the only bounds;
threads and ids are interchangeable (symmetry) except where liveness is checked.
The theorems of section 4 have no bounds.

The limits of the pools are set so that every wait happens: one connection of
`master` (everybody contends), two of `ranking`, and for `slave`, which some handlers ask
twice, one more than there are threads, the smallest limit under which `Served`
holds. The configuration of the repository (64 threads, 128 connections) satisfies
this; with `filehub_slave_maxconncnt` not above `num_threads` all workers could
wait for each other for ever. Two calls of the tools are enough for a wait to be robbed
and a pipe to be inherited; with three the module passes as well. One descriptor for two
connections makes the acceptor run out. Buffers, header widths and integer widths are
small so that each is passed.

*Fairness.* `WF(Work(t))` for every thread: the kernel runs every worker, and MySQL,
Redis and the FastDFS tools answer or fail. `Receive` is not fair: nobody has to send
a request. A wait for the lock needs no assumption on its holder, because of its
timeout. In `FileInfoLock` a thread whose time is up wakes (`Expire`), and a holder
leaves, which is `LockReleased` of `FileHub`. In `ConnPool` only steps of threads are
fair, never wakeups. Timers: the loop runs and time passes. Tools: threads run and
children end, but need not have done their work. `CacheConn`: its thread runs and calls,
Redis comes up again and answers what it has received, a process that has died is
restarted. `RedisAsync`: the library runs, and the server answers what it was sent.
`AsyncLogging`: the logging thread runs, its wait ends after `flushInterval_`, and the
thread in `start()` or `stop()` runs.

*Deadlock* is checked in the runs of `FileHub`, where `Done` is all that is left when
all requests have been answered, and of `HttpServer`. It is not checked in `users` (all
requests and restarts are used up) and in the runs of several components (inputs end,
and bounds of calls are reached); there the leads-to properties find a thread that hangs.

### Disagreements between the code and what the repository says of it

Each of these runs has one property, which a comment or document states, and TLC
finds it violated. The quotations are under `findings` in `PROJECT.json`.

| run | property | what happens |
|---|---|---|
| `overlapping_deletes` | `OwnedFilesAvailable` | a delete that is sent twice gives up two references for one row, and another user's file is removed |
| `malformed` | `MalformedAnswered` | a request that the parser refuses is taken for incomplete: no answer, and the connection stays open |
| `redis_lost` | `SurvivesRedis` | Redis goes away during `ZsetExist`, whose NULL reply is dereferenced |

More of them are in the models, without a run of their own:

* `handleDealMd5` increments the count and leaves with `Md5Failed` also on success
  (`api_md5.cc:97`): every instant upload of a stored file leaks a reference, and the
  file can never be deleted.
* When `getFullUrlByFileid` fails, the uploaded data stays without a record
  (`progress` therefore lets MySQL fail and not FastDFS). The same becomes of the data when
  another thread's `wait(NULL)` takes the child of an upload, which is then reported as
  failed (`api_upload.cc:72`, `:244`), and when the answer to the delete of the record is
  lost: the handler ends before it removes the data (`api_dealfile.cc:378`).
* When the insert of the user's row fails after that of `file_info` (`api_upload.cc:370`), the
  data is removed and the record that names it stays. Uploads that follow only count on
  it. When the answer to either insert is lost, the record or the row stays likewise.
* When the answer to the `UPDATE` of `shared_status` is lost, a share ends with the flag set
  and no row (`api_dealfile.cc:141`), and a cancel with the flag cleared and the row still
  there; a later delete sees no flag and leaves the published row without its data.
* An empty user name needs no token (`api_common.cc:20`).
* A configuration file that cannot be opened leaves `load_ok_` as the memory was
  (`config_file_reader.h:27`), so that a later `SetConfigValue` may write the file.
* The lock of a share is a plain `SET` (`api_dealfile.cc:86`): two shares at once both
  pass and insert two rows.
* `pv` is read and written back by two statements (`api_deal_sharefile.cc:240`,
  `api_dealfile.cc:444`): two downloads at once count one.
* A failed save is answered with code 0, because `ApiDealsharefile` tests `ret < 0`; a
  registration too, when the insert cannot be prepared (`api_register.cc:99`;
  `RegisteredOnce` allows for it).
* The Redis ranking and `share_file_list` are brought together only when their numbers
  differ (`api_sharefiles.cc:173`), and a download may put a withdrawn file back into
  the ranking (`api_deal_sharefile.cc:292`). No state can be named in which they agree,
  so there is no property for it.
* "Overflow?" (`http_parser.cc:1678`) compares the new length with the old one, which a
  product modulo 2^64 may well exceed.
* "Not null, the connection is in order" (`cache_pool.cc:59`): `HgetInto` keeps a context
  in error.
* The comment on `redisConnect` (`hiredis.c:734`) promises an error in the context; a
  source address that cannot be reused and a bad timeout for a path set none
  (`ErrorReported` excludes the two).
* "`mysql_ping` reconnects" (`db_pool.cc:88`, `:248`): the option is commented out at
  `:208`, so it does not, which is what `AllOrNothing` rests on.

## 4. Proofs

TLAPS checks every step; there are no bounds: the theorems about `FileHub` hold for all
threads, users, digests, names, ids, faults and numbers of requests that satisfy
`ConstantsAssumption`, those about other components for all constants that satisfy
their assumptions. Each safety property of the runs that is proved rests on an
inductive invariant, which TLC had found to hold on the run's instance first.

### The handlers

* **`TypeCorrect`**: `Spec => []TypeOK`. One lemma per handler, one step per
  statement.
* **`LockSafe`**: `Spec => []LockExcludes`. `LockExcludes` is inductive with `TypeOK`:
  a statement of an ownership handler enters or leaves `LockPCs` exactly when it takes
  or releases the lock (`OwnershipLock`); the sharing handlers do not touch it
  (`SharingFrame`).
* **`LockUsed`**: `Spec => UsesTimedLock`, and **`LockImplements`**:
  `FileInfoLock!Spec => ImplementsTimedLock`. The two meet at `TimedLock`: what the
  class promises is what the handlers rely on. **`FlagSafe`** and **`Handover`** (no
  lost wakeup) are proved along the way.
* **`RefCountSafe`**: `Spec => []RefCountCovers`, given `Environment`: no two deletes
  of one row overlap, and the insert into `file_info` fails only on a duplicate key.
  Rows of a digest, plus threads that have a reference in hand (counted and no row
  yet, or row dropped and not uncounted yet), are never more than the count.

  `RefCountCovers` is not inductive. **`RefCountInductive`** proves `RefCountInv`,
  which adds what the handlers know without checking it again: deletes of one row are
  apart (`DeletesApart`), so the row a delete has seen is there when it drops it
  (`RowStillThere`), and what was read from `file_info` inside the lock is still true
  there (`LockedReadsHold`, which rests on `LockExcludes`). The argument follows a
  reference through four moves, one lemma each: it is counted (`TakeReference`), put
  into a row (`StoreReference`), taken out of it (`FetchReference`), given up
  (`GiveReference`). Every other step is quiet (`QuietMove`): a failure, a timeout or
  a crash may lose a reference in hand, and then the count covers more than it must.

  Both assumptions are needed: `overlapping_deletes` violates the consequence without
  the first; without the second a failed insert is taken for a duplicate, the update
  counts nothing and a row without a record is inserted.
* **`OwnedAvailable`**: `Spec => []OwnedFilesAvailable`, and **`PromiseKept`**:
  `Spec => KeepsPromise`, the handlers implement `FileStore`. Both are given
  `FilesEnvironment`: `Environment`, and the insert into `user_file_list` at the end of a
  first upload does not fail (after which the code removes the data and leaves the record
  that names it), and the answers to these two inserts are not lost (then the code removes
  the data of a record or row that is there). Every other statement may fail or lose its
  answer. Counting is not enough here: the record a row counts on must have its
  data, and its id must be nobody else's. **`LocalsSafe`** proves what a handler remembers
  between its statements (`LocalsRight`), **`FilesInductive`** that every FastDFS id in use
  is stored and belongs to one record or is in the hands of one thread (`FilesInv`). The
  refinement then takes each statement to one step of `FileStore` or to none; uploads that
  race for a digest, and deletes that remove the data after they let go of the lock, are
  the cases in which it matters which statement that is.
* **`OrphanFree`**: `Spec => []NoOrphans`, given `OrphansEnvironment`: the process does
  not die with data in hand, the FastDFS tools work, no thread reaps the child of another
  one's upload, and the answer to the delete of a record arrives. MySQL may fail at every
  statement, and lose its answer to every other one. Without each of these conditions the
  property is false (see the list above).
* **`SharedRows`**: `Spec => []SharedHasRow`, and **`PublishedAvailable`**:
  `Spec => []PublishedFilesAvailable`, given `SharingEnvironment`: a client sends one
  request at a time for each of its rows (the handlers do not see to it), and the process
  is not killed between two statements. **`RowsApart`** shows that this promise of the
  clients makes the handlers of a row disjoint. `SharedRows` also asks that neither the
  insert that publishes nor the delete of the owner's row after the share was withdrawn
  fails, and that the answers to the change of the flag and to the delete of the shares
  arrive; `PublishedAvailable` that clients share what they own, that the delete of the
  shares does not fail, that the answer to the change of the flag arrives, and
  `FilesEnvironment`. TLC finds the properties violated without the conditions on answers. It follows from **`PublishedInductive`** (`PublishedInv`: a
  published row has a flagged row of its owner, or a delete that has withdrawn it is on
  its way) and `RefCountInv` and `FilesInv`: published, so owned, so counted, so stored.

### Threads

* **`PoolsAreSound`**: `PoolSpec => []PoolsSound`. `PoolInv` accounts for every
  connection a pool has opened (free, or held by exactly one thread), so that none is
  lent twice, lost, or opened beyond the maximum, and says that free connections are
  announced to enough sleepers, spurious wakeups included.
* **`TimersAreSound`**: `TimerSpec => []TimersSound`, for finitely many addresses and any
  number of timers, functors and clocks set back. `TimerInv` adds to it that a Timer is
  the one issued under its number (`IdsInv`), that a pointer to it is in one place: with a
  functor of another thread, in the queue, or in the round being run (`PlacesInv`), that a
  round holds no Timer twice and what has finished has run (`RoundInv`), and that
  `cancelingTimers_` is what was cancelled of the round (`CancelInv`, the reason why
  `reset` does not bring a cancelled timer back).
* **`ToolsAreSound`**: `ToolSpec => []ToolsSound`, for any threads and calls. `ToolInv`
  counts: as many children are unreaped as calls have still to wait for one and as waits
  were robbed; an open pipe end belongs to a call that will close it or to one that could
  not fork; what a call has read was printed after the tool's work. `wait(NULL)`, which
  reaps whichever child ended, is why a call may not be matched with its own child.

* **`SparesAlwaysReady`**: `LogSpec => []SparesReady`, for lines of all lengths. `LogInv`
  adds that when `append` has used the next buffer a full one is waiting: then two are
  taken, and two are there to be made spare again.
* **`LogIsKept`**: `LogSpec => []LogKept`, for buffers of any size and any number of lines,
  dropped buffers, flushes and rolled files; of the constants it assumes
  `LogAssumption` (`kLargeBuffer` is a number). What is logged is one sequence: the files,
  the buffers being written, the current one of `append`. Each step appends a line, moves
  the border between two of its parts, or takes a piece out of the middle and puts a
  message there. `LinesInv` says that the sequence is in order, that a gap has a message
  before it (counted in every prefix, or a later message could pay for an earlier gap) and
  that without a message nothing is missing. The sequence is the concatenation of many
  buffers (`FlattenSeq`): that it exists, is unique and distributes over appending and
  concatenation is proved by the least length at which it would fail
  (`FlattenIs`, `FlattenAppend`, `FlattenConcat`).

### Users and connections

* **`RegisteredRight`**, **`TokensRight`**, **`ViewsRight`**: `RegisteredOnce`,
  `TokenVouches` and `ViewsCounted`, from `PagesInv` (**`PagesInductive`**): each request is
  at a step of its operation, the table has unique keys, a token in Redis or in an answer
  comes from a login whose password was right, a request that has passed `VerifyToken` has no
  user name or the token Redis had for it, every view drawn is counted and no view is
  counted that is not drawn, but one for each failure at most.
* **`TransactionsWhole`**: `DbSpec => []AllOrNothing`; `DbInv` says which changes of a
  transaction are pending in which session.
* **`ConnectsCleanly`**, **`ClientStaysClean`**, and both as **`ConnectsClean`**: neither
  hiredis nor muduo's client forgets a socket or closes one in use. `NetInv` says what each
  stage of an attempt knows. `ClientInv` holds because the loop thread is one driver at a
  time: what is queued or watched (a retry, `resetChannel`, `stopInLoop`) says in which
  state the `Connector` is, and a socket's owner follows from it.
* **`OwnReplies`**: `CacheSpec => []ConnKept`; `ConnInv` says what may be on the wire of a
  context that is not in error: nothing between two methods, and after a command only the
  reply to it.
* **`CallbacksAlwaysRight`**: `AsyncSpec => []CallbacksRight`, for any finite set of names
  (`AsyncAssumption`: a `SUBSCRIBE` can list them all) and any number of commands and
  messages. `CallbacksRight` alone says nothing of what is on its way, so the invariant
  (`CallbackInv`) describes the two streams of the connection: `Wire`, what the server has
  sent up to the reader, and `Asked`, what has been asked up to the server's input. Its
  parts, each kept by every step given the parts before it:
  * `FrameInv`, `ToldInv`: what runs inside what (an event, above it a callback, above that
    a disconnect), and which of the connect and disconnect callbacks have been called.
  * `AsyncTypes`, `KindsInv`: the types; and every number that waits, has run, is asked for
    or is subscribed belongs to a command of the right kind.
  * `FreedInv`: what a teardown has already taken out of the lists.
  * `SaneInv`: while the context of a careful caller works, the streams fit what waits.
    `Way`: a regular callback waits exactly when its answer is on the wire or its command
    still asked for; answers come in the order of the commands; the server says nothing of
    a name between its last `unsubscribe` and the next `subscribe`. `Subbing`: the library
    knows every name the server or a stream still mentions, and `pending_subs` is at
    least the number of `subscribe` answers still to come (a set of numbers whose size is
    compared, since a name may be subscribed several times over).
  * `OnceInv`, `NoAbort`: the regular callbacks that have run are those that do not wait
    any more, in increasing order, each with its own answer; the assertions hold.

  Every step moves the streams in one of four ways (something taken from the front of the
  wire, something added at its end, a command added, a command served in part), each
  described by a relation on positions (`Taken`, `Added`, `LeftOf`), and one lemma for
  each way says what becomes of `Way` and of `Subbing`.

### The server

For any number of loops, workers and connections, any requests and any limit of
descriptors, all from one inductive invariant, `ServerInv` (in `HttpServer`, where TLC can
check it beside the properties; **`ServerInductive`**):

* `LoopsInv`: a loop that is not handling events has none and is woken for what is queued
  (`NoLostWakeup`, **`ServerNeverSleepsOnWork`**).
* `LifeInv`: where a connection is in its life is told by what is queued for it:
  `connectEstablished` until it is up, `removeConnection` from its end until the base loop
  has forgotten it, then `connectDestroyed`; each at most once and in one loop's queue.
  `state_`, the two maps and the channel agree with that.
* `EventsInv`: events a loop has still to handle are those of connections that are not
  destroyed: the base loop forgets a connection in the middle of its round, and
  `connectDestroyed` comes after the round. Who handles an event then finds the connection.
* `WorkersInv`: tasks, workers and answers refer to connections that have been up.
* `OutputRight` (inductive with the types; **`OutputAlwaysRight`**) and `FdsInv`.
* `RequestsInv`: a request that arrived in one piece is at one of five stages: unread, in
  a task, with one worker whose parse nobody disturbs, in the queue of its loop with the
  right answer, written. A step moves it to the next stage or leaves it; a reset or the end
  of the connection gives it up.

A loop's two vectors are seen as one queue (`ToRun`). Every step takes its head, adds one
functor at the end of one queue, or leaves all queues alone, and `QueueEffect` says what
that does to "is there a functor of this operation for this connection, only one, and with
what message", so that the invariants never look into a sequence. From `ServerInv` follow
**`ConnectionsAlwaysSound`**, **`ConnectionsFreed`** (in a settled server nothing is queued,
so whatever is still owned is up, its events are watched, and a client that is gone would
make it ready) and **`RequestsAnsweredOnce`** (in a settled server the stage of a request
that arrived is the last).

For `Buffer`:

* **`BufferTypeCorrect`**, **`SpaceAlwaysMade`**, **`BufferImplementsQueue`**: a `Buffer`
  keeps its indices in order and inside the vector, `ensureWritableBytes` leaves the room
  it was asked for, and the buffer implements `ByteQueue`; for all bytes, blocks, sizes
  of the vector, of the prepend area and of `extrabuf` that satisfy `BufferAssumption`.
  The invariant is the order of the indices; one lemma per operation says what becomes of
  the content, the two ways of `makeSpace` and the detour through `extrabuf` included.

### Checked by TLC only

* Liveness, which is out of the provers' reach: `Answered`, `LockReleased`, `TryReturns`,
  `Finishes`, `TimerRuns`, `CacheRecovers`, `FreeEnds`, `LogWritten`.
* What `http_parser`, the reply reader, `Sds`, `Dict` and the text helpers compute
  (`HttpExact`, `ReaderExact`, `ContainersExact`, `HelpersExact`): induction over data.

## 5. Not modelled

* The upload client and `httplib.h`, which is a quarter of all lines: a third-party
  client that posts one file. Load scripts.
* `md5.cc` (a digest is a model value), JSON, the formatting of log lines, `TimeZone`, the
  inspector, muduo's own `http`: not used by the server, or without state that a property
  is about. The destructor of `TcpClient`, which its comments call not safe. A disk that
  is full.
* The code of `handleDealMd5` behind its two exits (lines 117-158), which cannot be
  reached; `StopWaiting` and `Reset` of the lock, the timed wait and the destructors of
  the pools, which nobody calls; quitting a loop, the high water mark,
  `forceCloseWithDelay`, `PollPoller`.
* The key `share_lock:*`: it is set and deleted and never read.
* The multipart form of an upload: a request arrives decoded or is refused. The order
  and paging of ranking answers. An answer longer than the 4096 bytes of
  `http_conn.cc:197`.
* That the count column is a 32 bit integer: it would take 2^31 references.
* Memory is never short.

## 6. Plan

Done: ownership, sharing, lock, pools; server, timers and buffers of muduo; HTTP and
Redis parsing; connections to Redis and MySQL; child processes; users and pages; text
helpers; logging and the client side of muduo.

Left, in this order:

1. The multipart parser of uploads against a reference definition.
