# Verification of cynara

cynara decides whether an application may use a privilege. A daemon keeps the
policies; client libraries ask it; plugins may pass a question on to an agent,
which asks the user; an administrator changes the policies; a monitor reads the
log of all checks. This directory holds TLA+ models of the parts where
something can go wrong that a test would hardly reach, the TLC runs that check
them on small instances, and TLAPS proofs of the central invariants for
instances of any size.

## 1. The system

| part | state | operations |
|---|---|---|
| service logic (`service/logic`) | corrupted-database flag | one handler per request: check, cancel, simple check, agent register and action, set policies, bucket changes, erase, list, monitor requests; `contextClosed`, `onPoliciesChanged` |
| agent manager (`service/agent`) | registered agents, talkers, 16-bit id counter | register, create talker, remove talker, clean up after a link |
| check request manager (`service/request`) | contexts of checks that wait for an agent | create, look up, remove, cancel those of a link |
| socket manager (`service/sockets`) | descriptors, their read and write queues, fd sets | main loop over `select`: accept, read, write, close |
| monitor of the service (`service/monitor`) | ring of entry buckets, reading position per client | put, get, flush, client gone |
| policy storage (`storage`, `common/types`) | buckets of policies | check, list, insert, delete, erase, bucket add and remove, load, save |
| storage integrity (`storage/Integrity`) | database files, backup files, guard file | dump, guard, relink, remove; recovery at load |
| async client (`client-async`) | requests by id, cache, connection | create, cancel, process, finish; callbacks |
| sync client, caches (`client`, `client-common`) | cache with a capacity, buffered monitor entries | check, simple check, finish |
| agent library (`agent`) | connection, request queue | get request, put response, cancel waiting |
| admin library (`admin`, `common/lock`) | online or offline access, file lock | policy calls |
| monitor library (`monitor`) | connection, threads in `entriesGet` | get, flush, finish |
| wire protocol (`common/protocol`, `common/containers`) | frame being read or written, byte queues | encode, decode |
| storage text format (`storage/*Serializer`, `*Deserializer`, `Checksum*`) | index, bucket and checksum files | dump, load |
| daemon process, plugin manager (`service/main`, `common/plugin`) | identity of the process, open libraries, plugins by type | start, load plugins, look up, invalidate, stop |
| credentials helpers (`helpers`) | default methods kept for the life of the process | who is the peer, by which method |
| `cyad`, `chsgen` | - | commands of the administrator; checksum records for a database that is migrated |

The daemon has a single thread: a handler runs to its end before the next
request is read, so a handler is one action. What interleaves is everything
outside it: libraries in other processes, messages on the way, closed links,
kills and power failures between two steps of a save, and an erase that spans
several loop turns only in the model (each bucket is a step, and nothing else
happens in between).

The hard behaviours: answers that cross cancels and disconnects; ids reused
while the other side still holds them; reconnects that resend; callbacks that
call the library again; threads that flush and finish a library while another
waits in it; a cache whose only invalidation is a closed connection; two ways
to the database, through the daemon and past it; crashes between any two file
operations; frames cut anywhere; links between buckets that form cycles; a
shared ring that wraps around under several readers. `PROJECT.json` lists them under `hazards`, each at
its line of code.

## 2. Modules

| module | models | kind |
|---|---|---|
| `CheckService` | the daemon's handling of checks and agents, with an arbitrary environment | specification, also the abstract one for `CheckSystem` |
| `CheckSystem` | async client library + daemon + agent library over FIFO links | composition, refines `CheckService` |
| `CheckSystemRefinement` | | proofs about `CheckService`, and that `CheckSystem` implements it |
| `CheckSystemExchange` | | proofs about `CheckSystem`: requests and responses of a client fit |
| `CheckSystemProofs` | | the same: caches, questions to agents, and the theorems |
| `PolicyStorage` | buckets, policies, links, administrative requests, what is on disk | specification |
| `PolicyStorageProofs` | | proofs about `PolicyStorage` |
| `StorageIntegrity` | the files of the database under kills, power failures and failing calls | specification |
| `StorageIntegrityProofs` | | proofs about `StorageIntegrity` |
| `MonitorEntries` | the daemon's monitor: entry ring, readers, handlers | specification |
| `ServiceSockets` | the daemon's main loop: descriptors, sets of `select`, frames, partial reads and writes | specification |
| `LibrarySocket` | the connection of a library to the daemon | shared part of the five libraries |
| `CapacityCache` | the bounded cache of decisions and the buffer of monitor entries | shared part of the two clients |
| `ClientLibrary` | the synchronous client with the daemon behind it | specification |
| `ClientLibraryProofs` | | proofs about `ClientLibrary` and `CapacityCache` |
| `AsyncLibrary` | the asynchronous client, its calls taken apart, with callbacks that call it again | specification |
| `AsyncLibraryProofs` | | proofs about `AsyncLibrary` |
| `AgentLibrary` | the agent library, two threads | specification |
| `AdminLibrary` | the admin library, the lock, the daemon and another administrator | specification |
| `MonitorLibrary` | the monitor library: getting, flushing and finishing threads | specification |
| `ServiceStart` | the daemon process from command line to exit, and its plugins | specification |
| `ProcessProofs` | | proofs about `AdminLibrary`, `MonitorLibrary` and `ServiceStart` |
| `MessageChannel` | a FIFO channel of whole messages | abstract specification |
| `BinaryQueue`, `ProtocolSerialization`, `Messages`, `ProtocolCodecs` | byte queue; values, frames and headers; requests and responses; the four protocols | operators |
| `WireFormat` | one direction of a connection, byte by byte | specification, refines `MessageChannel` |
| `TextRecords`, `StorageText` | records and fields; the files of the database as text | operators; specification |
| `AdminApi`, `Cyad` | the C functions of the admin library as callers see them; the command-line tool | operators; specification |
| `Credentials` | the helpers that name a peer | specification |
| `MC...` | small instances of these | model checking |

Operators whose comment starts with "Mutant" are deliberately wrong variants of
the definition that follows; they are used to confirm that a property notices
the mistake, and no specification refers to them.

### CheckService

`agents`, `talkers`, `seqNo` are the maps of `AgentManager`, `checks` is
`CheckRequestManager::m_checks` (a link and a check id name a context or
nothing), `open` the descriptors the socket manager holds, `out` what was
written to a link and not yet read by the peer. Every request is an action with
the request's fields as parameters, so any peer may send anything at any time,
except that an agent link asks for one agent type only, which the agent library
sees to: `unregisterAgent` takes back one type of a link, and one more would
stay behind.
`ChangePolicies` is an administrative request followed by `onPoliciesChanged`,
whose save may fail; `Stop` and `Start` are the end and the start of the
process, which lose all of this state. Policies are reduced to what
`Storage::checkPolicy` returns for a key; plugins to the agent type they ask
and the decision they make of its answer.

### CheckSystem

Replaces the environment of `CheckService` by the two libraries. The client
keeps its requests by id (`CheckData`), its set of used ids, cached decisions
and its connection; one action per public call or part of the event
loop (`CreateRequest`, `CancelRequest`, `ProcessResponse`, `Reconnect`,
`ServiceNotAvailable`, `Finish`) with the reconnect, resend and callback work
each of them does. The agent gets requests,
answers them, reconnects and registers again. Disturbances (`cancel`, `leave`,
`change`, `finish`, `stop`, `simple`) are switched on per run and counted
against `MaxFaults`. `late` is not counted: with it the application behind the
agent library may answer questions of an earlier connection over the new one,
without it a new connection makes it drop them. The library itself does not tell
the two apart.

### PolicyStorage

`defaults` (buckets with their default result), `policies`, `disk` (what the
last successful save wrote), `reply`, and `erase` (the work list of a running
`erasePolicies`). Keys keep the wildcard `*` and filters the any-mark `#`,
matched as `PolicyKey` and `PolicyKeyHelpers` do. Results keep their numeric
order, on which `checkPolicy` depends, and NONE is compared with its metadata as
`PolicyResult` does. Each administrative handler is one action with its checks
in the order of the code. A save may fail with an exception the handler catches
(`FAILED`) or with one it does not, for which the daemon closes the connection
instead of an answer (`LINK_CLOSED`); memory keeps the change in both cases.

### StorageIntegrity

A directory entry and a file's content each have a current value and the set of
values that may survive a power failure; `fsync` shrinks that set. A name is that
of a file without a suffix (`"primary"`), with the suffix `~` (`"backup"`), or that
of the guard; every version has an index file, besides the buckets that come and go. A save is
the sequence dump to backup names, sync, guard, link over the primary names,
sync, remove the guard, remove the backups; each file operation is a step, and
before each of them the process may be killed or the power may fail. A call may
fail, or a write be short unnoticed.

### MonitorEntries

An entry is its serial number. `container` is the ring of `EntriesQueue`
(buckets with an offset, first, last, size), `clients`, `registered` and
`counts` the three maps of `EntriesManager`; `sent` is what the handler
answered. `stored`, `due` and `regular` are auxiliary. A copy loop that does
not end makes `alive` false.

### ServiceSockets

The other modules take the link between a process and the daemon as a FIFO
queue of messages; this one shows what the daemon's side does to provide it.
`fds`, `readSet` and `writeSet` are the fields of `SocketManager`; `ready` is the
part of the sets returned by `select` that the loop has not visited; `conn` is
the kernel's table from descriptors to connections, which gives a new
connection the lowest free number. `Select`, one step per ready descriptor
(`ReadyForAccept`, `ReadyForRead`, `ReadyForWrite`), one step per decoded request
(`Execute...`) and `EndPass` make up a turn of `mainLoop`. A byte is its position
in the stream, so a frame decoded at a wrong place is seen. The handlers are
reduced to what they do to sockets: queue an answer, let a check wait, answer
another connection's check, deny the checks that wait for an agent that is gone,
close all clients, or throw, on which `handleRead` closes the connection
(`RequestThrows`).

### LibrarySocket and the libraries

The libraries share `Socket` and `SocketClient`: `link` is the connection with
the messages on the way in both directions, `readQueue` what the library has
received and not yet taken, `listening` whether the daemon accepts. Two things
of the code matter here and are kept: connecting again does not empty
`readQueue` in the three libraries that use `SocketClient` (the agent and the
asynchronous library clear theirs), and a receive takes everything that has
arrived. Each library module adds its own daemon, reduced to what that library
sees of it; `CheckService`, `PolicyStorage` and `MonitorEntries` have the rest.

* **ClientLibrary.** `call.at` is the place in `Logic::check` or `simpleCheck`:
  ensure the connection, look into the cache, send, receive, reconnect and
  repeat, update the monitor buffer, flush, update the cache. `cache`, `entries`
  and `old` are the objects of `CapacityCache`. The daemon's policies have a
  version, so that the age of a decision is known; `leftover` remembers that a
  connection was lost with a response in the queue. A daemon that started on a
  `corrupted` database denies checks and hangs up on simple checks.
* **CapacityCache.** `usage` is the list of uses and `value` the map of the
  cache; `update` keeps the order of the code, in which a full cache evicts
  before it looks whether the key is cached. Following the iterator to an evicted
  element, or calling the null plugin that `PluginManager::getPlugin` inserted,
  ends the process ("crashed").
* **AsyncLibrary.** `stack` has a frame for each function of the library that
  has not returned and each callback that runs. In a callback the program may
  call the API again, up to `MaxDepth`; the frames below go on with what they
  held. `shown` is what the status callback last told the program, `permitted`
  and `answering` the two flags that refuse calls (`m_operationPermitted`,
  `m_inAnswerCancelResponseCallback`), `outcome` how often each request was called back.
  The program calls `cynara_async_process` only for a descriptor it was shown. The
  daemon keeps the context of a check that waits for an agent, cancelled or not,
  and drops a check whose id has one. Auxiliary variables name the requests that
  can no longer be called back: `dropped` (ids dropped so on this connection), `lost`
  (an exception came between taking the request and its callback) and
  `stranded` (connect threw, and was not called again).
* **AgentLibrary.** `agent.at` is the place in `getRequest` or `putResponse`;
  `notified` the event descriptor of `cancelWaiting`, written by another thread.
  `peer` is the daemon's view: registered or not, and the requests it sent.
* **AdminLibrary.** A call tries the lock (`lock`), loads, works on and saves the
  files, or asks the daemon and repeats the request over a new connection as long
  as one can be made. `daemon` starts under the lock, loads, answers, may be
  stopped at any point; a save that throws makes it hang up. A third process (`other`) takes the lock and saves.
  The operations with their exceptions, and the two translations into return
  codes, are taken from `Storage`, `service/logic`, `OnlineLogic`,
  `OfflineLogic` and the C functions.
* **MonitorLibrary.** A step of a thread is what it does between two places
  where another thread can run: critical sections of `m_mutexCond`, those of the socket
  client, a poll, a notification. `guard` is `m_reentrantGuard`, `running` and
  `resolved` the flags under the mutex, `notice` the event descriptor.

### ServiceStart

`process.at` walks through `main`, `Cynara::init`, `run` and `finalize`; each
system call on the way may fail. `ident` is the identity of the process, `libs`
the open libraries, `plugins` the map of `PluginManager` (a type may map to
`NullPlugin`, which `operator[]` inserts), `held` the plugins that contexts of
waiting checks hold. What requests do with plugins are the events of the running
daemon: a check of a stored type, an administrator's set, `invalidateAll`, and
the listing of descriptions.

### MessageChannel, WireFormat and the codecs

`MessageChannel` is what all modules above take for granted: whole messages in
order. `WireFormat` sends every message of `Messages` through the `execute`
overload of its protocol, field by field, as bytes that know their field; chunks
end anywhere; the receiver appends a chunk to the `BinaryQueue` and calls
`extract`, which remembers a header between calls. A byte read by the wrong
`deserialize` overload is garbled, so a field forgotten on one side is seen. The
refinement maps the messages not yet extracted to `transit`. Counts of
lists and of buckets are taken modulo `CountModulus`, in place of 2^16, in the
writer and the reader: a request with more of either ends the promise (`FitsCounts`).

### StorageText, AdminApi and Cyad

A text is a sequence of marks: separators, characters, a number in hexadecimal,
a checksum. `StorageText` dumps a database, damages files (cut, emptied, lost),
migrates with the records of `cynara-db-chsgen`, and loads. `Cyad` parses a
command line, makes the calls of `AdminApi` and prints; a listing that was saved
can be the bulk file of a later command. The option parser is kept as the chain of
conditions it is, because the command that runs is what it leaves. The types `cyad` can ask
for are those of its translator, which never yields the deletion of the API; deletion is
in `PolicyStorage` and `AdminLibrary`. Keys whose features contain a field separator and
metadata with a line break are outside the domain: the format has no escape
for them.

### Credentials

`conf` is the text of `creds.conf`, which the administrator edits; `cachedClient` and
`cachedUser` are the static variables of `creds-commons`. Processes start and
end and pids are used again. `watched` chooses one kind of question per behaviour,
client, user or pid of the peer or of the service itself, and `answers` collects what it got.

## 3. Runs

| run | instance | shows |
|---|---|---|
| `CheckSystemAsk` | 1 client with 2 requests, 2 keys, 2 ids, 2 links each side, talker ids modulo 2, 1 disturbance, a restart of the daemon among them; no `late` answers | `ResponsesExpected`: no unexpected response; `AnswersApplied`: an agent's answer decides the check it was asked about; `ContextsSound`: talkers and contexts correspond, every talker leads to a live agent, checks of a gone client are cancelled |
| `CheckSystemLive` | 1 client, 1 key, 1 id, 2 disturbances, `late` answers, fairness | `CacheFresh`: the cache never contradicts the policies in force; `ServiceSpec`: the composition implements `CheckService`; `CallbackEventually`: each request gets its callback; `ContextsEventuallyFreed` |
| `CheckSystemCancelLost` | cancel and reuse of an id | **violation** of `CallbackEventually` |
| `PolicyStorage` | 3 valid bucket names and an invalid one, requests from small sets | `DatabaseSound`: links resolve and the default bucket decides, in memory and on disk; `OkIsSaved`; `RefusedUnchanged`; `EraseExact`: an erase removes exactly what matches |
| `PolicyReads` | every database of at most 3 policies in 3 buckets without cyclic links | `SearchSound`: `checkPolicy` equals the reference definition; `EraseEnds`: a recursive erase ends |
| `StorageIntegrity` | 2 saves, 1 failing call, kills and power failures | `LoadedIsCurrent`: no old database comes back; `NeverCorrupted`: without failed calls a sound one is found |
| `MonitorEntries` | 2 clients, 3 buckets of 3 entries, 12 entries | `DeliveredInOrder`: entries once and in order; `PromptDelivery`; `QueueExact`: the queue holds what is unread |
| `ServiceSockets` | one of four sets of connections per behaviour: a slow and leaving client with 2 requests beside an agent that registers and answers, an administrator, or a client that may send an unknown request; or that client, an idle one, an agent and an administrator on 3 descriptors; requests of 3 bytes; fairness | `AnswersIntact`: answers are neither mixed, cut nor reordered; `ClosedForCause`: nothing is closed without cause; `AnswersDelivered` |
| `MonitorOverflow` | 1 client, the same ring | **violation** of `OverflowRemovesOldest` |
| `Formats` | every kind of message with empty and full lists, 2 messages per connection; 1 or 2 buckets, 2 damages; 3 runs of `cyad`. The initial state chooses one of the three | `ImplementsChannel`: a connection implements `MessageChannel`; `QuietMeansDelivered`: nothing is refused, and nothing is owed in silence; `LoadedIsSaved`: what loads is what was saved, and undamaged files load; `ListingRestores`: a listing restores the policies it showed |
| `Processes` | one of five modules per behaviour (`mode`): 3 calls of a client, 2 requests to an agent, 2 calls of an administrator, 2 getting threads, one daemon process with 2 events; fairness | `DecisionFresh`: a decision is for the key asked and not older than the call; `EntriesOnce`; `CrashOnlyByMissingPlugin`; `RequestFetched`: an agent gets what was sent to it; `NoLostUpdate` and `SuccessMeansDone` of the administrator; `DeletedAfterGet`; `LibraryOutlivesPlugin`, `FirstClaimWins` and `CrashNeedsOrphanType` of the daemon process; `CallsReturn`: checks, cancels, administrative calls, flushes and finishes end unless the daemon hangs up on them for ever, and a starting daemon gets the lock |
| `ServiceProgram` | one of two modules per behaviour (`mode`): helpers with 2 processes and 1 edit of `creds.conf`; asynchronous client with 2 keys, 2 ids, 2 requests, calls nested 2 deep; fairness | `HelpersAgree`: all helpers answer by one valid method; `OneCallbackEach`; `FinishWhenQuiet`: no finish inside a callback; `RequestsAnswered` |

Bounds. Two links on each side let a peer reconnect while its old link is not
yet closed, and let two agents compete; two talker ids make the counter wrap
at the third question; two requests make ids be reused. The type of a fault
matters and not its number: one or two suffice to cross each step. Two saves
distinguish an old, a previous and a new database. Twelve entries take the
ring of nine ids once round. `PolicyStorage` bounds the distance between memory
and disk (`NearDisk`). In `ServiceSockets` the largest set of
connections has one descriptor fewer, so numbers are reused and run out; two bytes of
header, one of body and two of answer are cut at every place on the slow connection,
and its second answer queues behind what is left of the first.

A library needs two calls to meet what an earlier one left behind, and a third
to meet it twice (`MaxCalls` 3); a cache of one entry evicts at every new key; a
monitor buffer of one or two entries is flushed within a call or two. Two lost
connections let a repeated request be lost again. Two callbacks deep is the
first depth at which a frame below holds something a nested call changes.
Messages are two per connection so that a wrong length of the first is seen in
the second; texts have up to two characters and the counter of lists wraps at
three. Larger instances of `AsyncLibrary` (three requests; two further calls) gave the
same results and take longer than the other runs.

Three runs put several specifications side by side, and the initial state chooses
which of them a behaviour is about: `Processes` and `ServiceProgram` with a
variable `mode` that no step changes, `Formats` by giving the other two a state in
which they do nothing. Their properties are
those of the modules, each about the variables of its own; `CallsReturn` joins
the liveness properties of four of them, since the same thing is promised:
nobody waits for ever.

Symmetry is used for links only, in runs without temporal properties.

Runs without a deadlock check are those in which the system may stop: a client
that finished, a daemon that saved all it was told to, a program whose budget of
calls is used up.

### What the violations show

* **CancelLost.** The daemon confirms a cancel at once and keeps the context
  until the agent answers. The client reuses the id; the daemon finds a check
  under way with it and drops the request. `cynara-client-async.h` guarantees
  exactly one callback.
* **MonitorOverflow.** `push` opens the next bucket before it removes the oldest
  entry; when the two are the same bucket its offset is reset, removed entries
  return and the bucket grows past its limit.

Further limits are built into the conditions of properties, or into the instances, and are worth
knowing:

* With several monitor clients, `cleanup` takes the numerically lowest id although
  ids are circular, so around the wrap unread entries are removed;
  `MonitorEntries` follows executions up to that point (`regular`).
* `NeverCorrupted` is stated for executions with power failures or kills but not
  both, and without failed calls: a kill just before the directory sync of the
  guard, followed by a recovery and a power failure, may leave half-relinked
  files without a guard, and a short write is noticed by nobody.
* `SimpleCheck` does not look at the corrupted-database flag: the search fails with
  an exception, the link is closed, and a client reconnects and resends without
  end. `CallbackEventually` is checked with a database that loads; `CallsReturn` and
  `RequestsAnswered` include a corrupted one and except the executions in which
  the daemon hangs up on such a check infinitely often.
* A save that fails in a step of `Integrity` (sync, link, remove) throws `UnexpectedErrorException`, which the
  handlers do not catch: the link is closed without an answer, and the admin
  library resends. `CallsReturn` excepts the executions in which this goes on
  for ever; they need a save that throws each time.
* `RefusedUnchanged` leaves out a set-policies request answered with a missing bucket. The
  buckets to insert into are all looked up before anything is inserted, but those
  to delete from are met one by one, and what was done before stays in the
  memory of the daemon, unsaved.
* `NearDisk` cuts the executions of `PolicyStorage` in which memory is far from the disk, an
  erase with several policies removed in an early bucket among them; the theorem about
  `EraseExact` has no such bound.
* Ids of questions to agents are those of a connection and start from 0 with every daemon.
  An application that answers a question of an earlier connection over its new
  one can be paired with a new question. `AnswersApplied` is checked, and proved,
  for applications that drop such questions (no `late`).
* `erasePolicies` keeps no record of the buckets it visited and `checkPolicy` none of
  the links it followed; nothing refuses links that form a cycle. `EraseEnds` and
  `SearchSound` are stated for databases without one.
* A response that was received before its connection was lost stays in the queue of
  the library and is taken for the answer to the next request. `DecisionFresh`
  (`leftover`) and `SuccessMeansDone` (`clean`) except it.
* With monitoring, a check may flush entries between receiving its answer and caching
  it. If that flush reconnects, the old answer is stored in the cleared
  cache; `DecisionFresh` is stated without monitoring. The entry of a check
  that asked the daemon records the return code of the request, not the decision
  (`Logic.cpp:84`), which `EntriesOnce` does not look at.
* In the asynchronous client two requests for one key may be pending, and the cache can then follow an
  iterator it has just erased. `RequestsAnswered` excepts this object; a request whose
  check was dropped because its id still had a cancelled context (**CancelLost** above);
  a request already taken from the map when the flush of the monitor entries
  threw; and a `connect` that threw, until the program makes another call that
  connects.
* A repeated administrative request may be carried out twice; all of them are
  idempotent, so `SuccessMeansDone` asks for at least once.
* A flush that reaches the daemon before the request for entries ends nothing;
  `FlushEndsGet`, a part of `CallsReturn`, is about flushes sent after it. `cancelWaiting` before `getRequest`
  interrupts that next call, and several cancels are one.
* When `finish` deletes the monitor object, a getter that was woken may still have to notify
  the condition variable and to unlock the guard; `DeletedAfterGet` is about
  waiting, sending and receiving.
* A lookup of a type without a plugin leaves a null pointer in the map, which the
  next `invalidateAll` calls; `CrashNeedsOrphanType` and `CrashOnlyByMissingPlugin` say that
  this is the only way a process ends so.
* Lists longer than their 16-bit count, and more buckets than it, are cut (`FitsCounts`); what the reader
  then makes of the rest is left open. A bulk file that cannot be opened sets nothing
  and succeeds, and one with an empty line is read up to it. Policies that link to the default
  bucket are listed but refused when set (`ListingRestores` says so). `ListingRestores` is about files
  `cyad` printed; what a malformed file leaves behind, a listing longer than the limit
  of the API and one of a type no plugin describes any more are not in its domain.

## 4. Fairness

`FairSpec` assumes weak fairness of: the daemon reading and serving a request
that has arrived (a `select` loop over all descriptors), its noticing a closed
link, its start (it is run by the service manager); the client's event loop
(`ProcessResponse`, `Reconnect`, `ServiceNotAvailable`: the library's user is told by the status callback to poll the
descriptor and call `cynara_async_process`); the agent reading, answering and
reconnecting. Nothing is assumed of what users decide: cancels, policy changes,
leaving, finishing and stops may or may not happen. Erase steps are a loop of
the daemon, hence weakly fair. In `ServiceSockets` the daemon's thread goes on
(`WF_vars(Daemon)`), and nothing is assumed of the other ends.

For the libraries: a call that has begun goes on (its thread runs; for
`MonitorLibrary` each kind of thread), and the daemon serves a request that has
arrived. `AgentLibrary` adds that the agent calls `getRequest` again and that
systemd has the sockets listened on again after a stop; `AdminLibrary` that
systemd starts a daemon whose sockets it listens on.
`AdminLibrary` also assumes that another administrator who holds the lock finishes, and
that a starting daemon loads its database; `DaemonGetsLock` also rests on
administrators making finitely many calls, as the bound says.
In `AsyncLibrary` functions and callbacks run to their end, the program calls
`cynara_async_process` when the descriptor it was shown is ready, and the
daemon answers. Nothing is assumed of what the program, the administrator or
the network decide: calls, cancels, hang-ups and stops.

## 5. Proofs

Proved by TLAPS for every value of the constants that satisfies the named
assumptions (finite sets of links and ids, disjoint client and agent links, a
positive modulus; a valid default bucket, plugin types between the predefined
ones; ids of requests that are natural numbers).

* `CheckSystemRefinement`, its first half, about `CheckService`: `TypeOK` and `ContextsSound` (`TalkersMatchContexts`,
  `TalkersLive` and `OrphansCancelled`) are invariants. The inductive invariant is
  their conjunction with `AgentsLive` (a registered agent has an open link, and a link
  registers one agent type). None is inductive alone: that answering a check frees the
  right context needs the one-to-one correspondence, that closing an agent
  leaves no talker needs `AgentsLive`, and both need the types. One lemma per
  handler.
* `CheckSystemRefinement`, `CheckSystemExchange` and `CheckSystemProofs`, each resting
  on the one before: the composed system implements `CheckService`
  (`ServiceSpec`), so `ContextsSound` holds of it, and `ResponsesExpected`,
  `CacheFresh` and `AnswersApplied` are invariants. The refinement is proved step by step: each step of a
  library is a step of the environment of `CheckService` or changes nothing of it; one of
  the daemon is the handler of the message at the head of a link. It needs `Env`: what is on each link is of
  the right kind, an agent registers first, no two peers share a link. `SysInv`
  adds `Exchange` and `Fresh`. `Exchange` relates, for each client, the requests it
  holds, its messages on the way, the contexts of the daemon and the responses on the
  way back: for an id there is at most one response under way, and whatever can
  still lead to a response fits the request. `ResponsesExpected` speaks of the last of these only and is
  not inductive: a request sent before a cancel is answered after it. `Fresh`
  says that decisions on the way, in contexts and in caches agree with the
  policies. `AnswersApplied` is proved from `QuestionsOnce`: of each id there is, on
  a link, at most one question or answer, on its way, with the application or on the way
  back, and it is about the key of the check that waits under that talker. It needs an application that
  drops the questions of an earlier connection (`"late" \notin Disturbances`).
* `StorageIntegrityProofs`: `LoadedIsCurrent` and `NeverCorrupted`, for any files,
  saves, crashes and, for the first, failing calls. `LoadedIsCurrent` rests on `AgeInv`: an inode never holds
  a version older than the one it was created for, neither name of the index can
  lead to a version before the last acknowledged one (`NotOlder`), and what each phase of a save has made
  of the index so far (`IndexSaved`). That the index alone carries the argument is why
  `FilesAssumption` names a file of every version. `NeverCorrupted` adds `Recoverable`:
  for each phase of save and load, which database is whole whatever a crash at this
  point leaves (a power failure any of the possible states, a kill the present one), and what the guard can be.
* `ProcessProofs`, about `AdminLibrary`: `NoLostUpdate` and `SuccessMeansDone`. For the first the
  inductive invariant is the shape of the records together with the property, which
  ties the lock to the places of the three processes. `SuccessMeansDone` needs
  `Conversation`: every request on the way carries the number of the call that
  waits, and every response on the way with a code that means success is about a
  call that was applied (`Truthful`), unless something was left over.
  The applied calls only grow, so a truthful response stays so. From
  `AdminAssumption` (the default bucket is a bucket).
* `ProcessProofs`, about `MonitorLibrary`: `OneGet` and `DeletedAfterGet` for any set of threads.
  The inductive invariant adds that the guard is held by exactly the thread that
  is inside, and that once a thread finishes nobody is before its
  first critical section. That is the program's part, a guard of `NotifyFinish`:
  it ends a get that waits, and does not call finish and get at the same moment.
* `ProcessProofs`, about `ServiceStart`: `RunsAsAsked`, `LibraryOutlivesPlugin`, `FirstClaimWins` and
  `CrashNeedsOrphanType` for any command line, directory and stored types. The
  inductive invariant says how far the boot has come and what of the identity
  is settled there (`Identity`), that plugins and holders refer to open libraries in
  every phase of the shutdown (`Lifetime`), that a null plugin is one of a stored
  type nobody offers (`NullsOrphan`), and that after loading the first libraries of the
  directory each type has the first of them that offers it itself (`Claims`).
* `PolicyStorageProofs`: `DatabaseSound` (`LinksResolve` and
  `DefaultBucketDecides`) and `OkIsSaved` are invariants and `RefusedUnchanged` is an action property. The inductive
  invariant adds `EraseUnderWay`: an erase runs only on a loaded database, and its
  answer is pending meanwhile. A save publishes a database that is
  already well formed, so the disk inherits it. `EraseExact` needs `EraseCovers`
  besides: the loop deletes the links it has followed, so what is said between two
  of its turns is that every bucket nested in the start bucket at the beginning is
  clean by now or still nested in one that waits to be visited.
* `ClientLibraryProofs`: `DecisionFresh`, `CrashOnlyByMissingPlugin` and `EntriesOnce`,
  for any keys, policies, plugins and capacity. `CacheInv` says that the list of uses and
  the map of the cache fit and that a key that is being asked for is not cached, so
  that the eviction in `update` never removes the element it returns. `FreshInv` says that at
  most one request or response of the call is under way, and that what is cached, on the way
  or taken is of the present version as long as the connection lasts. `OnceInv` keeps
  the sequence numbers in the daemon's log, in the requests on the way and in the
  buffer apart. No assumption on the constants.
* `AsyncLibraryProofs`: `OneCallbackEach` and `FinishWhenQuiet`, for any keys, ids and
  number of requests, and for callbacks that call the library again to any depth. From
  `AsyncConstants` (ids are natural numbers). The inductive invariant `Calls` is about the
  stack of functions that have not returned. `Nested` says how they can lie on each
  other: above a function that has cleared `m_operationPermitted` there are only
  callbacks and its like, and each that will restore `m_inAnswerCancelResponseCallback`,
  except the lowest, has saved it as set. So a callback that may call finish has nothing below it,
  which is `FinishWhenQuiet`. `Owing` says which frames owe a callback to which
  request: an answer taken from `m_checks` to its own, a function that tells everybody to
  all who are left, and no request is owed one twice. `Counted` and `Pending` say
  that the requests in `m_checks` are different and that those not cancelled wait; the
  second fails while everybody is told, which is why `Owing` has to name who is left.

The theorems about `OneGet`, `RunsAsAsked` and `TypeOK` stand
without a run of their own: they are steps towards the others or hold of small
parts.

Only model-checked, and why:

* all liveness: fairness and `ENABLED` are out of reach of the prover;
* `SearchSound` and `EraseEnds`: a recursion over links, and termination;
* `WireFormat`, `StorageText` and `Cyad`: what recursive encoders and parsers compute for
  every input needs induction over data, which the installed provers cannot instantiate.
  (Least elements and finite sets are used in `CheckSystemRefinement` through
  first-order theorems of the library.)
* `MonitorEntries`, `ServiceSockets`, `AgentLibrary` and `Credentials`: specifications
  with many actions or recursive helpers, for which no inductive invariant has been
  worked out.

Most leaves of the proofs are Zenon's, which `USE ZenonT(40)` at the head of a proof
module makes the default; those that need arithmetic or types name the SMT solver.
Each module is proved from nothing in less than half an hour on two threads.

## 6. Not modelled

* Logging (`common/log`), which changes no state.
* The session helper (`helpers/session`): one read of the start time of a pid, without state.
  Whether the pid still is that of the peer is up to its caller.
* What a plugin computes from a policy and an agent's answer: a choice in
  `CheckService`. What agents show to users.
* The option parsing and messages of `chsgen`; its records are in `StorageText`.
* Creating the listening sockets and the signal descriptor of the daemon, and
  the socket activation by systemd beyond "a daemon that is listened for is started".
* Partial sends of the libraries: a request is written as a whole or the
  connection is lost. `ServiceSockets` has the pieces on the daemon's side.
* The wording of what `cyad` prints, its help texts and error messages.
* Memory exhaustion (`std::bad_alloc`), which every C function turns into a code.
* The value of a checksum: different texts have different ones.
