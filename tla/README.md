# A TLA+ verification of localapp

localapp is a local DNS and reverse-proxy daemon with a command line: each
registered application gets a stable URL, and its output can be captured and
followed. This directory models the parts of it that have state and
concurrency, checks them with TLC, and proves what matters most of them with
TLAPS. Paths below are relative to the repository.

`PROJECT.json` is the index: the components, the runs, the mutants (a plausible
bug for each checked property, which TLC finds), the lines of code each
definition stands for, the hazards, the findings and the theorems.

    cd tla
    tlc -workers 2 -config RegistryStore.cfg MCRegistryStore   # a run
    tlapm RegistryStore_proofs.tla                             # the proofs

## 1. The system

| component | state | operations | interacts with |
|---|---|---|---|
| registry store `internal/registry` | apps and services in memory, `registry.json` | Open, Put, RemoveApp, RemoveService, reads | called by control API, dashboard, proxy; writes the disk |
| log store `internal/logstream/store.go` | one buffer per service, subscriptions, wake channels | Append (trim, evict, wake), ReadFrom, Subscribe | appended to by the control API, read by streams |
| log stream `internal/logstream/sse.go` | a goroutine per stream, its offset | ServeSSE | the store, the registry (keep-alive), browser or `logcat -f` |
| log forwarder `cmd/localapp/log_forward.go` | a bounded queue, one sender | Write, Close, the sender's loop | `run`, `logforward`; posts to the control API |
| daemon `cmd/localapp/daemon.go` | listeners, servers, the control socket's file | start, serve, stop on a signal or a dead listener | everything in the process; other daemons through socket, ports and registry |
| control API and client `internal/control` | none of its own | list, put, delete, status, logs | registry store, log store |
| proxy and routing `internal/proxy` | none of its own | resolve a host and path, probe, forward | registry store, dev servers |
| certificate authority `internal/ca` | root key and certificate, leaves on disk and in memory | LoadOrCreate, CertificateFor | TLS handshakes; `install` in another process |
| dashboard `internal/dashboard` | number of open streams, CSRF token | pages, delete, log stream | registry store, log store |
| run `cmd/localapp/run.go` | a child process, a port | allocate, register, start, register the pid | control API, forwarder |
| install, uninstall `cmd/localapp/install.go`, `internal/platform` | service, resolver, trust store, state directory | ordered steps that may fail | the operating system |
| DNS server `internal/dnsd` | none | answer | the daemon's listener |
| log viewers `cmd/localapp/logs.go`, `logcat.go` | a file offset | tail, follow | daemon log; log stream |
| domain, config, scan, skill, open, main, `install.sh` | none | parsing, printing, copying | - |

### What is hard, and what correct means

*Registry store.* Requests run concurrently, each save is five system calls that
may fail, and the process or the machine may stop between them. Correct: the
operations are atomic, memory shows only what was saved, the file can always
be read back, every request is answered.

*Log store and streams.* A stream sleeps on a one-slot channel while appends,
evictions, removals and restarts happen between any two of its steps, and a reader
that reconnects resumes from an offset the daemon may no longer know. Correct:
bounded memory, no lost wake-up, no hole in what a reader shows, no leaked
subscription, the reader catches up, a removed service ends its streams.

*Forwarder.* The program writes while a batch is on its way, and a request that
the sender gave up on may still be carried out, after later ones. Correct: bounded
memory, no unmarked gap, nothing twice, Close returns and leaves no byte unaccounted for.

*Daemon.* Two daemons may share one state directory and race for socket and
ports; crashes leave a socket behind; shutdown waits for requests. Correct:
everything is opened or nothing serves, a stale socket harms nobody, an answered
registration survives, a daemon that is to stop stops.

*Certificate authority.* Two files per certificate, written one after the other,
by possibly two processes. Correct: a crash never leaves a root that no daemon can
start from, no leaf is served that does not match its key or the current root.

*Proxy, dashboard, run, install.* Check-then-act over the registry or the
operating system; a sequence of steps each of which may fail. Correct: the longest
mount wins, slots of the stream limit come back, no request is forwarded for a process
that had ended, a failed uninstall can be repeated.

`PROJECT.json` lists every hazard at its line.

## 2. Plan

Done, in this order: RegistryData, Registry, RegistryStore (refines Registry) -
LogBuffer, LogStream (extends LogBuffer) - LogDelivery, LogForwarder (refines
LogDelivery) - Daemon - CertStore - Installation - Routing (extends RegistryData),
Serving (extends Routing) - TextLines, LogClients (extends LogStream and TextLines),
DaemonLog (extends TextLines). Their proofs are in eight modules, one for each of RegistryStore,
LogForwarder, Daemon, CertStore, Installation, Serving and DaemonLog, and one for
LogStream and LogClients together, which share the lemmas on line breaks and cuts.

What could still be added, in order of use:

1. The stop of the DNS server, whose UDP and TCP servers end each other and the
   daemon.
2. One composition of CertStore and Installation, in which the root that install
   trusts is one that a daemon may be creating. Both parts are checked, their
   overlap is an exception of RootUsable.

## 3. The modules

### RegistryData, Registry, RegistryStore

A registry is a function from app names to functions from service names to
settings. `RegistryData` has the operations on it as operators (PutService,
RemoveApp, RemoveService: an app without services is dropped), and what each
answers. Sorting by name, which `commitLocked` does, is the choice of a
function over a list.

`Registry` is the abstract specification: an operation takes effect at one instant
between its request and its answer, or not at all.

`RegistryStore` is the code. A handler (a goroutine) receives an operation, is
refused or takes the lock (`Begin` edits the copy under it), and saves step by step:
`CreateTemp`, `WriteTemp`, `SyncTemp`, `CloseTemp`, `Rename`, `Publish`. `SaveFails`
may replace any step before `Publish`. `Crash` loses memory; `PowerLoss` loses
what was not synced, and may bring back the registry of before the rename,
since the code does not sync the directory (`FlushDirectory` is the file
system's own writing). `Open` refuses a file it cannot parse. Refinement: the
registry is the file (`map <- Load(disk)`), hence a write takes effect at the
rename.

### LogBuffer, LogStream

`LogBuffer` has the buffer as a value: offsets of its first and last byte and of
its newlines; `Trim` is `entry.trim`.

`LogStream` has the store, the streams and the readers. `Post` and
`AppendLogs` are the two halves of a log request, since the code checks the
registration first. A stream goes through `Connect`, `Subscribe`, `FirstRead`,
`Write`, then `Woken`, `Reread`, `KeepAliveGone`, `Hangup`, `Unsubscribe`; a
reader through `Connect`, `Receive`, `Break`. `epoch` numbers the entries of a
service, so that properties can tell the offsets of two lives apart; `last`
remembers appends beyond an eviction. Both are not in the code. The model has
one stream per reader at a time: a reader reconnects once its old stream has ended.

### LogDelivery, LogForwarder

`LogDelivery` is what the program and the caller are promised, without a queue or
requests: batches are appended at most once, late or out of order, but marked
unless they go on where something appended ends; failures and recoveries are told to
a caller that asks for it (`logforward` does, `run` passes no `warn`). When Close
returns, each byte written before is accounted for: it is appended, or the first
output behind it that is appended is marked (`Complete`), or the caller was told last
that forwarding fails. `LogForwarder` is the code.

The bytes written are numbered, so queue, batches and the daemon's log are
intervals, each with or without the marker. `Write` and `Close` are the program's,
`Tick`, `Stopped`, `Succeed`, `Refused`, `TimedOut` the sender's, `Accept`,
`AppendBatch`, `AppendLate` the daemon's; `Outage`, `Death` and `Recover` its
failures. A request that timed out after the daemon accepted it stays in `late` and
is appended at any later time. Refinement: `phase` from `pc` and `stop`, `warned` is
`told`; a batch is delivered when the daemon appends it, and all that happens in the
queue is a stutter.

### Daemon

`pc` follows `runDaemon`; `StatSocket`, `DialRefused`/`DialFails`, `RemoveStale`,
`Bind` and `Chmod` are `control.Listen` call by call; `OpenPort` opens the other
listeners in order, and undoes everything if one is taken; then requests
(`Request`, `Answer`), log streams (`OpenStream`, `CloseStream`), and the
shutdown per server (`Shutdown`, `Drained`, `TimedOut`), up to `Exit`, whose deferred
`os.Remove` takes away whatever is at the path. Closing a Unix listener removes
its path in the same way: that is what Go's `UnixListener.Close` does.
`holder` of a port may be "other" from the start, a program that keeps it.
`overlapped` records whether two daemons ever ran at once. A save is one step
here, RegistryStore has its parts. Not modelled: the owner of the socket file, the
redirect from HTTP, a dial that fails although the daemon lives.

### CertStore

A certificate is the number of its key, that of its root's key and its expiry, so
that two files can be compared without their contents. `ReadRootCert`,
`ReadRootKey`, `SaveRootKey`, `SaveRootCert` are `LoadOrCreate`, and
`ReadLeafCert`, `ReadLeafKey`, `SaveLeafKey`, `SaveLeafCert` are `CertificateFor`,
file by file; `Hello` answers from memory. Each file is replaced by a rename, so it
is one step. `Stop` is any error, the end of install, or a crash, anywhere.
`served` is what a handshake was answered with, `overlapped` that two processes
were creating a root at once. Not modelled: the root's own expiry (ten years, and
nothing renews it), NotBefore, temporary files that a crash leaves, a root whose
key is found but cannot be read.

### Installation

`op` is the command under way and its next step; `Cut` ends it anywhere, for an
error or a crash. Install takes `MakeStateDir`, `LoadOrCreateRoot`,
`TruncateRecord`, `WriteRecord`, `InstallTrust`, `InstallResolver`, and the three
steps of `InstallService`; uninstall `Bootout`, `RemovePlist`, then
`UninstallResolver`, `RemoveSettings`, `DeleteCertificate`, whose failures are
remembered, and `RemoveState`. The record is two steps because `os.WriteFile`
truncates before it writes. `isAlreadyAbsent` decides for launchctl and for the two
calls of security alike whether an error means that there is nothing to remove, and
takes "input/output error" for that: so `Bootout`, `RemoveSettings` and
`DeleteCertificate` may go on with the service, the trust or the certificate still
there. `orphans`, `misread` and `strays` mark what the code cannot know: a resolver
whose record could not be read, a service that was misread, and a root that was
misread and whose file is then removed with the state. A resolver file, the plist and the new root are one
step each; one administrator runs one command at a time.

### Routing, Serving

`Routing` has the operators of `route.go`: `Resolve` by the labels of the host,
`PathHasPrefix` by segments, `MatchPath` as the longest mount, `Rewrite`, and the
URLs that a registration is advertised with. A path is a sequence of characters,
since prefixes by characters and by segments must differ; RawPath, queries and the
request target `*` are left out.

`Serving` moves everything around a route: runs (`AllocatePort`, `Register`,
`StartChild`, `RecordPid` or `RecordFails`, `EndRun`), `Add`, `Remove`,
`DeleteMapping`, processes that listen and exit, requests (`Arrive`,
`CheckProcess`, `Dial`, `Forward`), and readers of log streams (`OpenLogs`,
`TakeSlot`, `GiveBack`). `add --pid` registers any number as a pid: of a process that
runs, has ended, or was never told the port. `ended` keeps, for the property, whether
the process had ended when the request came in. Any process may bind any free port,
since nothing in the code checks who listens. A pid is given out once: that the
system may reuse one is outside of the model.

### TextLines, LogClients, DaemonLog

`TextLines` defines the last n lines of a text once, by its line starts, as the
reference for the two loops of the code that go back from the end.

`LogClients` adds to LogStream what its readers do with what they get: the page of
the dashboard (`Resume`, `Pause`, `Apply` with the script's own cut, `PageTrim`)
and logcat (`Follow` with `TailLines`, `Show`, `Quit`). A client here reads the
store and shows what it read in one step; what the events go through on their way
is LogStream's. Lengths are bytes, while the script counts UTF-16 units. `epoch` and
`pure` (the page continued the text of no other entry) are not in the code; a page
that has shown nothing yet is of whatever entry its first text is.

`DaemonLog` has `logs -f` over a file system: inodes, a path, a descriptor.
`OpenLog`, `SeekEnd`, `WriteTail` are `writeTail`, `Poll`, `Stat`, `ReadAt`
`followFile` and `drain`; the daemon writes, restarts, and the file is truncated
or moved between any two of them. A life is what an inode holds from one truncation
to the next. `seen` (how far each was printed), `met` (those that a poll could tell
from what was printed before) and `again` (what was printed was not what comes next)
are not in the code.

## 4. The runs

| run | question | size |
|---|---|---|
| `registry_store` | two concurrent requests, faults, crashes: is the store atomic and live? | 91 k states, 1 min |
| `log_stream` | one reader, two services that share one slot, one fault: does the reader see everything and end when it must? | 305 k states, 30 s |
| `log_clients` | three services, two slots, a page and a logcat: the limits, who is evicted, what the clients show and print | 239 k states, 1 min |
| `log_splice` | violation: a stale offset inside the new window | |
| `forwarder` | a queue of two bytes, writes of one to three, two faults | 395 k states, 40 s |
| `daemon` | two daemons, two starts, one fault, a stale socket or none | 119 k states, 50 s |
| `daemon_socket` | violation: a live socket is removed | |
| `daemon_shutdown` | violation: a log stream holds the shutdown | |
| `cert_store` | two processes, two domains, one host: roots and leaves through crashes, overlaps, renewals | 362 k states, 10 s |
| `installation` | two domains, three roots: what is left after failures, misread errors and retries | 164 k states, 3 s |
| `serving` | two runs of one service, add with and without a pid, two ports, two processes, a request; two readers and one slot | 759 k states, 2 min |
| `daemon_log` | two inodes, three lives, a chunk and a buffer of two bytes | 1.2 M states, 40 s |

Why the bounds are enough:

* `registry_store`: two handlers are enough for one to wait, or to act, while the
  other is anywhere in its save; two services of one app, so that a removal
  empties the app or does not; names that validation accepts and one that it
  rejects. Any number of crashes.
* `log_stream`: a slot that two services fight over, so every append may evict the
  followed service; texts that fit, that trim by lines and by bytes; three appends
  (two fill the window, one trims it); one restart, broken connection or removal.
  The wire holds one event, so a write may block.
* `log_clients`: four appends over two slots fill, evict, and evict again; texts
  with a blank line, a partial one, and one longer than the window. `Focus` admits
  the store alone, a page through a restart, or logcat through evictions, but no
  mixture: the clients do not affect each other or the store, so states that mix
  them would add nothing.
* `forwarder`: writes below, at and above the limit; four bytes make a batch on its
  way, a full queue behind it and an overflow possible at once; two faults are a
  timed-out batch followed by another failure. `CHECK_DEADLOCK FALSE`: the forwarder ends.
* `daemon`: two daemons and one fault; the stale socket of an earlier crash is an
  initial state and one registration was answered before, which saves a start. Two
  ports, so the second may fail with the first held. `CHECK_DEADLOCK FALSE`: starts
  are bounded.
* `cert_store`: four keys are two roots and two leaves, or one root and three
  leaves; a leaf lives three units and is renewed in its last one, and the clock
  runs as long as a leaf lives.
* `installation`: two domains, so that the environment's may be the wrong one;
  three roots are two installations, a removal between them, and one more. Failures,
  misread errors and crashes are not bounded.
* `serving`: with two ports and two processes a port goes from one process to
  another, and with two runs one is overtaken by the next; an `add` that names as
  its pid the first process, whatever that is by then; mounts where one is a prefix of the other by characters, and the same mount twice. `Focus` checks
  either what is served or the readers, who share nothing but the registry.
* `daemon_log`: a file longer than a chunk and than a buffer, line breaks anywhere,
  two rotations or truncations. `CHECK_DEADLOCK FALSE`: the command ends.

A constraint restricts runs of invariants only, never one with a temporal
property, and no run uses symmetry together with a liveness property.

### Fairness

* RegistryStore: a runnable goroutine runs (weak fairness); the lock is given to one
  that waited (strong fairness, as `sync.RWMutex` does not starve).
* LogStream: a stream that can step does; the keep-alive branch of `select` is
  strongly fair, since Go picks a ready branch at random; a reader reads and
  reconnects. No service need write.
* LogForwarder: the sender's loop runs, its `stop` branch is strongly fair for the
  same reason, and a daemon that is available answers. Nothing makes it available.
* Daemon: servers of a stopping daemon run and the shutdown timer fires. No client
  leaves of its own accord and no request need finish.
* DaemonLog: the ticker fires and a call returns. Nothing makes the daemon write,
  or the file stay.

### What the violations show

* `log_splice` (`internal/logstream/store.go:121`): after a restart of the daemon, or
  an eviction, an old offset that happens to lie inside the new window is taken for
  valid; the reader appends output of the new life to its old view. The comment of
  `ReadFrom` promises a reset after a restart.
* `daemon_socket` (`internal/control/server.go:88`): two daemons starting over one stale
  socket; the slower removes the live socket of the faster, contrary to Listen's comment.
* `daemon_shutdown` (`internal/control/server.go:105`): streams over the control socket
  do not derive their context from the daemon's, so they hold shutdown for its five
  seconds; the comment in `daemon.go` and DESIGN.md say they do not.

Two more consequences of overlapping daemons are recorded as hazards and not as
findings, as no document promises that daemons may overlap: the deferred `os.Remove`
of a stopping daemon removes its successor's socket (`daemon.go:149`), and a daemon
that read the registry before its predecessor stopped overwrites the predecessor's last
updates (`daemon.go:101`).

The code departs from a sentence of the repository in more places. There is no run
that expects a violation for these: most are small, or the sentence is loose. The
property that comes by one states what is true, names the exception, and says nothing
inside it, so that a code without the departure satisfies it too:

| where | what the code does | what is said | property |
|---|---|---|---|
| `platform_darwin.go:289` | an "input/output error" of launchctl or security counts as success: uninstall removes the state and reports success while the service runs, or the root is trusted and its file gone | `install.go:145-146`, DESIGN.md:321-323: what a retry needs is preserved | NothingLeftBehind, Recoverable: of exactly what was misread nothing is said |
| `internal/registry/process.go:38`, `proxy.go:130` | a service whose registered process has ended is down, whatever listens on its port | DESIGN.md:238-239: the status is derived from a dial, the pid informational; the comments at `process.go:30-36` and `proxy.go:127-129` say what the code does | ServedAsRegistered speaks of requests, as the comment at `proxy.go:127-129` does, and not of the status |
| `internal/dashboard/logs.go:99` | with a partial line at the end the page keeps a line more than the daemon | `:96`, DESIGN.md:409-410: it never grows past what the daemon keeps | PageMirrors limits the bytes and the complete lines; a partial one is left out |
| `cmd/localapp/logs.go:84` | the last lines are looked for in one chunk, so there may be fewer than asked for | the help of `-n`, `:29`; `logs_test.go:64-65`, of lines that fit | TailIsLastLines demands them if they fit in one chunk, and else only that no earlier line is printed |
| `cmd/localapp/logs.go:159` | a log that was truncated and has outgrown the offset when it is next polled is followed from its middle | `:122-124`, `logs_test.go:140`: it starts over from the beginning | InOrder demands the beginning of each log that a poll found shorter, or found after none; of another it says nothing until something of it is printed |
| `cmd/localapp/logcat.go:127` | a blank line at the very beginning of the window is dropped | `:116` | TailExact excepts such a window |
| `internal/ca/ca.go:195` | two processes that create a root at once may replace each other's | `:68-69` | RootUsable and RootKept except the overlap |
| `cmd/localapp/install.go:266` | a record of the domain that was cut short counts as none, so its resolver is not found | DESIGN.md:182-183 | Recoverable and NothingLeftBehind except the resolver |

## 5. The proofs

All are for every value of the constants that their ASSUMEs allow; those say that
the limits are positive numbers, that newlines lie within their texts, that the
lock's "no one" is no handler, that readers follow services and clients watch one,
that -n is given a number, that a leaf is renewed within its validity, that names
have one order, and that runs and `add` register what validation accepts (of `add`
with any pid).

| module | theorems | argument |
|---|---|---|
| `RegistryStore_proofs` | TypeCorrect, MemoryMatchesDisk, DiskNeverTorn, AppsHaveServices, TempFilesRemoved | `IInv`: the lock is held exactly by a goroutine inside the save (LockInv); a file under its final name is complete and synced (FileInv), since the temporary file is as far as its steps (TempInv); the candidate is the edit of the registry in memory, which is stable because of the lock (CandInv) |
| | StoreImplementsRegistry | every step under `IInv` maps to a step of Registry or a stutter: the rename to the write, the publication to nothing |
| `LogStream_proofs` | NoWakeupLost, NoSubscriptionLeaked | `WakeInv`: from its first read on, what a stream does not know of is announced in its channel, also while it writes; this needs that it is subscribed exactly between Subscribe and Unsubscribe |
| | AlwaysBounded, AlwaysCutsBehindLines, RecentlyActiveStays | lemmas on `LineCut` and `ByteCut` (counting upwards one comes by every number of line breaks; a set of numbers has a least one), and `StoreInv`: an entry was used when its service last appended, which no two did at the same time |
| | TypeCorrect, NoGapShown | `GapInv`: the events on a connection, the one in hand and the offset form a chain that begins at the id the reader resumed from, and a reset reaches back to the oldest byte of its entry, whose window only moves forward |
| | ClientsOnlyRead, PageKeepsUp | a step of LogClients is a step of LogStream or none of it, so everything proved of the store holds with clients. `Mirrors`, for a page that continued the text of no other entry: of what both hold the page shows what the entry holds; it begins later only if the entry is as long as the limit and the page begins behind its first line break, and if it begins earlier then the entry begins behind a line break. An append keeps this for a page that lags (what the store cuts), and so does the page's own cut (its limit in lines is one more, so its cut by lines stays before the entry; its cut by bytes passes the entry's beginning only to the first line break) |
| | TailIsExact | round k of the loop stands at the k-th line break from the end that has something behind it (`BackAt`), and the last n lines begin behind the n-th of these (`LastLinesAt`) |
| | NothingPrintedTwice | of the present entry only bytes before the offset were printed, and the offset lies within it; so an append begins where these end, a reset behind them, and a new entry has an epoch of its own |
| `LogForwarder_proofs` | TypeCorrect, MemoryBounded, GapsMarked, NothingRepeated, CloseFlushes, ReportsAlternate | `Marked`: while `dropped` is FALSE, the queue begins where the batch on its way ends or where the log may go on; `Behind`: batches anywhere are disjoint and behind the queue; `Accounted`: a byte that has left the queue is in the log, or a marker behind it is, or it is in the batch on its way, or that batch or (`dropped`) the next one has the marker. When the last send succeeds or finds nothing, each byte is in one of the first two places |
| | ForwarderImplementsDelivery | every step under `IInv` maps to a step of LogDelivery or a stutter; besides, a batch that was given up on fitted the queue. `Settled` names some marker behind a byte; that the first output behind it is marked as well is `NoSilentGap`: output without a marker goes on where something appended ends, which would be behind the byte and earlier. When the last send fails, the caller knows |
| `Daemon_proofs` | TypeCorrect, AllOrNone, AnswersSurvive, StaleIsReclaimed, SecondDoesNoHarm | `Listeners`: what a daemon holds at each place of `runDaemon`; `Alone`: until two daemons overlap, at most one is not off, its memory is the file, and the socket at the path is as the place says. Two daemons that serve would hold the HTTPS port both |
| `CertStore_proofs` | TypeCorrect, AnswersAreSound, RootIsUsable, RootIsKept | what is in memory or on disk names keys that were given out, so a new key is that of no other certificate; while one process alone creates a root, the key on disk is the one it is about to save a certificate for |
| `Installation_proofs` | TypeCorrect, AlwaysRecoverable, SuccessIsClean | what each step may rely on at its place: install records the domain before it writes the resolver and has the root before it trusts it, uninstall has removed everything before it removes the state, unless `failed`, or misread (`missed`, `misread`), which leaves the root in `strays` |
| `Serving_proofs` | TypeCorrect, AdvertisedAlwaysResolves, AlwaysServedAsRegistered, SlotsAreExact | the edits of the registry keep the types of its partial functions; a non-empty finite set of mounts has a longest (and, of equals, a first by name); a registration with a pid is one that `add` made, or has the port which that process was given, in the registry and in requests (`Told`), and a process that has ended does not come back; each reader holds one unit of the count |
| `DaemonLog_proofs` | TypeCorrect, FirstOutput | `SizedInv`: between the seek and the read, the file as it was when its end was sought is still the beginning of the file, unless the inode was truncated (which begins another life); the two loops over it are `LastLines`, by counting line breaks within the chunk |
| | PrintedInOrder | `OrderInv`: of the life in the inode that is open, or that the path leads to, nothing was printed or just what precedes the offset; a life that comes to the path later is unseen. No two inodes hold one life. `HeadInv`: one of `met` of which nothing was printed is read at offset 0; the life to come is one of `met` only while there is no log, when the offset is 0 |

The invariants themselves are not inductive: MemoryIsDisk says nothing while a save
is between rename and publication, where one must know that the candidate is on the
disk; NoLostWakeup says nothing while an event is written; NoSilentGap says nothing of
batches that are still on their way; AnsweredIsKept says nothing of the memory that
the next save writes over the file.

PageMirrors says nothing of a page that lags or is paused, which mirrors what is left
of what it read; PrintedOnce nothing of where the offset is; InOrder nothing of an
inode that the path will lead to.

Each proof module stands by itself, so the lemmas that two of them need (a set of
numbers has a least one; counting by line breaks; registries as functions with
partial domains) are in both.

The type invariants are proved, not run; the other theorems rest on them. Every
safety property that a passing run checks, ImplementsRegistry and ImplementsDelivery
included, is stated by a theorem.

Only model-checked: liveness (EveryRequestAnswered, CatchesUp of LogStream and of
DaemonLog, GoneEnds, CloseReturns, Delivered, StopsWhole), which is out of the
prover's reach; the runs that expect a violation; and that the models have no
deadlock. NoWakeupLost, CloseFlushes and SuccessIsClean are the safety halves that
some of these rest on.

## 6. Not modelled

* Formatting and parsing (JSON, the text of events, PEM, pages, plists), the parsing
  of command lines, `scan`, `skill`, `open`, configuration, domain names and
  `install.sh`: sequential, without state, and within reach of unit tests.
* The DNS server's answers, a case distinction over the question, and the way its
  two servers stop together; its port is one of Daemon's.
* The dashboard's pages, its headers and the comparison of its token; the control
  API's dispatch and probes, which only read.
* The proxy's headers, the WebSocket upgrade and the error pages.
* Other platforms than macOS, where install and uninstall only refuse.

Wall-clock time appears as timeouts that may fire, and in CertStore as a clock that
only moves forward. The operating system is modelled as far as the code relies on
it: rename is atomic, sync makes a file's contents durable, a port or a bound path
has one holder.
