# Agent Secret Bridge in TLA+

`asb` lets an agent use credentials without seeing them: an MCP server takes
tool calls, checks them against a fixed policy, and performs the HTTP request or
the SSH operation itself. This directory holds TLA+ modules of its stateful
parts, the TLC configurations that check them, and proofs for TLAPS.
Line numbers refer to `src/src/*.rs` (written `http.rs:81`) and to the
repository's `README.md` and `SECURITY.md`.

## 1. Inventory

| Component | State | Operations | What makes it hard | Correct means |
|---|---|---|---|---|
| `RateLimiter` (`rate_limit.rs`) | a queue of instants per capability, under a tokio mutex | `check` | the clock is read before the mutex, so stamps are stale and queues unsorted | no process admits more than the limit in a window; no unjust refusal; bounded queues |
| `EncryptedFileVault` (`vault.rs`) | vault file, key file, lock file, temporary files | `initialize`, `get`, `set`, `delete`, `validate_existing` | several processes, crashes between two calls, power failures, failing calls, a first test outside the lock | a crash-safe map; no lost or torn update but where `exists()` mistakes the vault for missing; the key stays with its vault; commands end |
| `HttpBroker` (`http.rs`) | none of its own; uses config, vault, limiter, audit | `execute` | awaits between policy, limiter, request, body and record; partial failures | only allowed requests; one admission per action; truthful audit |
| `SshBroker` (`ssh.rs`) | a child process, two pipes and two reading tasks per call | `execute` | timeout against exit, kill, full pipes | the same, and `ssh_read` / `ssh_execute` never exchange operations |
| `McpServer` (`mcp.rs`) | one buffer per connection | `serve_io`, `handle_message`, `tools_call` | one message at a time per connection, many connections | every request with an id gets one response |
| Daemon (`main.rs:178-251`) | socket file, listener, a task per client | probe, remove, bind, listen, chmod, accept, shut down | calls on a path that another broker works on too; files left by dead brokers | one reachable broker; recovery after a crash |
| Proxy (`main.rs:259-287`) | a connection and two copying tasks | connect, upload, download | half-close, death of either side, the upload is awaited first | answers arrive once and in order, the process ends |
| `AuditLog` (`audit.rs`) | an append-only file, a mutex | `record` | failing and torn appends, several processes | no result without a record; an acknowledged record is in the file, and a torn line spoils little |
| Policy (`policy.rs`) | none | `authorize_http` | the URL parser strips, decodes and resolves what was checked | only listed paths of the configured origin, and all of them |
| Redaction (`redact.rs`, `http.rs:153-194`) | none | read limit, replace, truncate | chunks of any size, three boundaries | no known secret, and no part of one, in the visible text; the text is a prefix of the redacted body |
| Config (`config.rs`) | none | load, validate, pin | two loads in `serve` (`main.rs:157-167`) | the pinned configuration is served, or none; no encrypted vault on standard input |
| `SystemVault` (`vault.rs:48-89`) | the keyring of the system | `get`, `set`, `delete` | none of its own | - |
| Command line | none | `secret`, `vault`, `doctor`, `check` | - | - |

Interactions: an agent talks to `McpServer` over standard input or through the
proxy and the daemon's socket. `McpServer` calls `HttpBroker` and `SshBroker`,
which share one `RateLimiter` and one `AuditLog` per process; `HttpBroker` reads
a `Vault`. The command line changes the same vault files from other processes.
Packaging, CI and `examples/` contain no logic of the broker; the systemd unit
is the source of one assumption (section 4).

The hazards these parts are exposed to are listed in `PROJECT.json`, each at its
line with the properties that guard it.

## 2. Modules

| Module | What it is |
|---|---|
| `RateLimiter` | `check()` in the steps `Enter` (clock read, queue for the mutex) and `Admit` / `Deny` (under the mutex, atomic because there is no await), with `Tick` and `Restart` |
| `Quota` | abstract: places of a capability that are taken and become free, without a clock; what `RateLimiter` promises and `Broker` relies on |
| `...Proofs` | theorems about the module before the word; `BridgeProofs` has those about `Connection` and `SshChild`, which run in `Bridge`, and `HttpTextProofs` those about `PathRules` and `ResponseText` |
| `CredentialStore` | abstract: a map shared by processes that changes by whole requests, survives power failures as a whole map, and keeps what was acknowledged |
| `VaultFile` | the vault, one step per file system call that another process or a power failure can tell apart |
| `Broker` | the life of a `tools/call` from `tools_call` to the response, for all connections of a process |
| `DaemonSocket` | brokers and clients on one socket path, one step per call on the path |
| `Connection` | a client, the proxy's two copies and `serve_io`, message by message |
| `SshChild` | one `SshBroker::execute` from spawn to result: client process, pipes, readers, timer |
| `Bridge` | `Connection` and `SshChild` composed: a `tools/call` is a run of the ssh client |
| `AuditFile` | appends of the tasks of several processes, one step per `write(2)` |
| `PathRules` | `authorize_http`, with `Url::join`, against a definition by path segments |
| `ResponseText` | read limit, redaction and truncation of a body that comes in chunks |
| `ConfigLoad` | validation, and the loads of `serve` and `daemon` while the file is replaced |
| `MCParts` | `RateLimiter` and the last four, one at a time, for one run |
| `MCService` | `Broker` and `DaemonSocket`, one at a time, for one run |
| other `MC...` | constant values and symmetry for TLC |

**RateLimiter.** `calls` is the `HashMap` of queues; a capability without an
entry is an empty queue. `waiting` are the calls between `Instant::now()` and
the mutex. `Evict` looks only at the front, as the loop does. `admitted` and
`epoch` are histories.

**VaultFile.** Beside each file stands the set of contents that a power failure
may leave of it (`vaultDisk`, `keyDisk`): a write and a rename make the set
larger, fsync of the file or of its directory makes it smaller. A process goes
through the points of `initialize` or of `with_lock_value` with `load_plain` and
`save_plain`. `Fault` is the error exit of each call that has one, with its
cleanup. The three tests with `Path::exists()` (`vault.rs:133`, `147`, `180`) have
none: they are false when the stat fails, and `StatFails` lets a command go on as
if there were no vault. Of the commands it deceives, `init` stores an empty map,
`set` one with its secret alone, `get` and `delete` find nothing, and a
validation succeeds. `blind` marks a command that replaces a vault it does not
see, `overlooked` is the history of what was stored in such a vault.
Permissions, nonces and the cipher are abstract: a file decrypts when it is whole
and its key is the one that is read. The refinement `ImplementsStore` maps the
vault file to the map, `vaultDisk` to the maps that may survive, and the points
of a process to the stages of its request; `Rename` is the commit and
`SyncDirectory` the flush. `CredentialStore` has one action for `StatFails`,
`Overlook`: from there a request works on the empty map instead of the stored one.

**Broker.** `conn[t]` is the request of a connection and its place in
`execute`. The limiter is reduced to the number of calls in its window
(`used`, `Slide`), the audit file to the number of records by outcome. The
environment decides whether the vault has the secret, the target answers, ssh
exits and an append succeeds. `did`, `admitted`, `ok` and `lost` are histories;
`lost` counts the actions cut off before their record.

**DaemonSocket.** A socket file is the number of the start that bound it.
`Settled` says that a supervisor runs one broker at a time through start and
shutdown; without it brokers interleave freely.

**Connection.** A message is a line, known by its place; its kind says what
`serve_io` does with it: call a tool, drop it, or answer without a call (an
over-long line, a parse error, and every method without effect). `chan` are the
four channels stdin, up, down and stdout; each holds `PipeCap` messages, and a
writer waits for room. `proxy` has the state of the two copies and of
`proxy()`, which awaits the upload first. The client may close its standard
input, or leave; the broker may die at any step.

**SshChild.** A byte is a unit of a counter. The client writes to two pipes and
blocks when one is full; `Read` is a pass of the loop of `read_limited`, which
goes on beyond the limit. The timer covers `child.wait()` alone; the joins that
follow have none. `BrokerEnds` is a signal, which drops the call and kills the
client, or a kill, which leaves the client behind.

**Bridge.** `BeginCall` is the start of a call and the spawn, `ReturnCall` its
return and the drop of its values; everything else interleaves. The end of the
broker ends both halves.

**AuditFile.** The file is a sequence of units, each with its record. `write_all`
goes on after a short write; a failure or a crash leaves what is written. A
mutex orders the tasks of a process and nothing orders processes.

**PathRules.** `UrlJoin` is the URL parser as far as a reference that begins with
a slash can go: it strips tabs, turns backslashes into slashes, finds a host
after two slashes and resolves dot segments, encoded ones too. `Accepts` is
`authorize_http`: it matches the path of the URL character by character, as
`Written` puts it together. The reference is `UnderRule`, which compares segments.

**ResponseText.** `Chunk` is a pass of the reading loop, `Show` what follows it.
`Scan` is `str::replace` from each place of a text on, `Redactions` the loop over
the secrets. The reference is `RedactText`, of the whole body and of its beginnings
up to a cut that goes through no secret (`Cuts`).

**ConfigLoad.** Texts are names, and `Bad` is one that its rule refuses; what is
left of `validate` is the rules that relate fields or have boundaries. `serve`
loads the file twice (`CheckVault`, `Build`), `daemon` once.

## 3. Runs

Every passing run checks mutants too (`PROJECT.json`): for each property a
plausible bug of one definition that makes TLC report it.

| Run | Expectation | Shows |
|---|---|---|
| `RateLimiterEarlyClock` | violation | a limiter whose clock starts at its origin: `NoOverrun` fails |
| `VaultShared` | pass | 2 processes, 2 ids, 2 secrets, 3 commands of any kind on a provisioned vault, 2 crashes, a power failure, a fault: `TypeOK`, `ReadableUnlessOverlooked`, `ImplementsStore` |
| `VaultStatFails` | violation | two `set` on a provisioned vault, one failing stat: `Readable` fails |
| `VaultSetup` | pass | 2 processes from no files, 3 commands, one crash, power failure and fault: `InitializedForGood`, `Terminates` |
| `VaultInitWhileAdding` | violation | `init` beside `set`: `Readable` fails |
| `VaultInitFault` | violation | `init` with one failing call: `KeyMatchesVault` fails |
| `VaultKeyDirectory` | violation | key and vault in two directories, power failure: `Readable` fails |
| `Service` | pass | the calls: 2 connections, every request of a policy with allowed and refused methods, paths and operations, limit 1, one restart: `TypeOK`, `OnlyAuthorized`, `EveryActionAdmitted`, `EveryActionAccounted`, `AuditNeverLies`, `Answered`; the socket: 3 brokers, 2 clients, 4 starts, 2 kills: `SocketTypeOK`, `ServingIsReachable`, `OneBroker`, `Recovers` |
| `DaemonOverlap` | violation | 2 starts that interleave: `ServingIsReachable` fails |
| `Bridge` | pass | 2 messages of any kind or 4 that call nothing, channels of 1, an ssh client that writes up to twice the limit, may never exit and may be left behind: `TypeOK`, `AnswersInOrder`, `ExecutedOnce`, `CleanEnd`, `CaptureExact`, `NothingLeftBehind`, `AnswerArrives`, `BothEnd`, `PipesDrain`, `CallEnds` |
| `Parts` | pass | `RateLimiter` (2 tasks, limits 2 and 1, window of 2 ticks, lag 1, 5 ticks, one restart: `TypeOK`, `NoOverrun`, `ImplementsQuota`, `DenialJustified`), `AuditFile`, `PathRules`, `ResponseText` and `ConfigLoad` (their eleven invariants), one of them per initial state |
| `PartialSecret` | violation | the bodies of `Parts`: `NoPartShown` fails |

Why the bounds are enough. A limit of 2 in a window of 2 needs three admissions
to be exceeded; five ticks are two windows and a lag. Lost updates need two
commands of two processes on two ids, and a third to see the loss. The init race
needs two processes and three commands. Two calls and a limit of 1 make one
connection the cause of the other's refusal, and the restart lets both act.
Three brokers let one start while another serves and a third is killed.
Two messages put one in work and one behind it in a channel of one. Four
messages fill every place between a client and a proxy that nobody reads from,
the case `BothEnd` excepts; they call nothing, since a broker that waits for
room does so the same way after a call. The pipe of stdout holds two bytes, so
that one read crosses the limit of one; the pipe of stderr holds one, so that it
is full behind the limit. Three tasks of two processes, four records of two
units and two short writes tear a line, join it with the line of the other
process and spoil two records, for which `DamageBounded` is tight. Paths of six
characters hold two segments with a dot segment, a host after a stripped
tab, and names that only begin like a rule; bodies of six characters hold two
secrets of the longer kind, at every place relative to a visible limit from one
to six. Configurations differ from a valid one in one field, at each boundary.

Fairness. `Broker`: the runtime polls every task, the HTTP client has a timeout
(`http.rs:110`) and so has the wait for ssh (`ssh.rs:140`), so weak fairness of
what the broker does by itself, the timeouts included; nothing is asked of
targets, the ssh client or the network. `VaultFile`: the system runs every
process (weak) and serves the waiters of `flock` (strong, since the lock is
taken again and again while a process waits). `DaemonSocket`: weak fairness of
the steps between start and accept loop. `Bridge`: both processes run, a client
that has not gone reads what it is sent, a task is polled when its pipe has data
or has ended, the timer of the wait fires, and a killed client dies; nothing is
asked of the ssh client, and a client need not write nor close. A proxy whose
upload failed still waits for a pending read of its standard input, which the
runtime does not abandon, so its exit is fair only once the client has closed.
`Parts` checks safety only. `Service` puts the
fairness of its two modules together.

`CHECK_DEADLOCK FALSE` everywhere: the bounds on time, commands, calls, starts
and failures make every behaviour end.

### Where code and documents disagree

* `RateLimiterEarlyClock`: `checked_sub(WINDOW).unwrap_or(now)`
  (`rate_limit.rs:19`). Where an `Instant` cannot precede the origin of its
  clock, in the first minute every stamp up to now is evicted. README.md:28
  promises the limit without that exception.
* `VaultInitWhileAdding`, `VaultInitFault`: a failed `initialize` removes the
  key by its path (`vault.rs:152-154`), although the vault that exists by then
  was encrypted with that key: by a concurrent `asb secret add` in one run, by
  itself before a failing `sync_directory` or unlock in the other.
* `VaultStatFails`: `load_plain` returns an empty vault when the stat of the file
  fails (`vault.rs:180-182`); a `set` then replaces all stored secrets by its own
  (`vault.rs:279-281`) and reports success. The round trip of the test at
  `vault.rs:470-472` and the "atomic writes" of SECURITY.md:38-40 know no such
  exception. An `init` whose second test fails so does the same with an empty map.
* `PartialSecret`: the overlap of `http.rs:159-169` is meant to keep a secret that
  begins before the visible limit whole until it is redacted. Redaction of longer
  secrets shrinks the text, so the unredacted beginning of a secret that reading
  has cut off moves inside the limit: under a limit of 2, with secrets `st` and
  `uus` and the marker `*`, the body `uusuus` is read as `uusuu`, becomes `*uu` and
  is shown as `*u`. The test at `http.rs:302` asserts that no such part is shown.
* `VaultKeyDirectory`: the directory of the key file is never synced
  (`vault.rs:140-144`); `examples/vps-asb.yaml` puts it outside the vault's.
* `DaemonOverlap`: a start can remove the socket of a broker that began to
  listen after the probe (`main.rs:199-221`); the other serves on, unreachable.

`BothEnd` has an exception of its own, `Wedged`, which no document speaks of.
`proxy()` awaits the upload before it looks at the download (`main.rs:284`).
When a client leaves, the download fails at its next write and the socket is
read no more; if more requests are still behind than the channels hold, the
broker waits for room in the socket, the upload waits for the broker, and the
proxy and the broker's task stay until the broker ends.

Not a run, but a limit of what is promised: the window is lost with the process
(`main.rs:171`), and two `asb serve` processes have two windows. `NoOverrun` is
therefore stated per process.

## 4. Assumptions and limits

* `RateLimiter`: `Lag` bounds the time a call waits for the mutex (the mutex is
  held without an await). The theorems about the window assume `Boot >= Window`:
  an `Instant` may precede the origin of the clock, or a minute has passed.
* `VaultFile`: `flock` excludes, is freed when its holder dies; rename is atomic
  towards other processes; unsynced bytes and entries survive a power failure or
  do not; a directory fsync covers all its entries. In a vault that is
  provisioned first a stored secret stays readable but for the exception that
  `ReadableUnlessOverlooked` names, a failing stat. Before a first `init` has succeeded a set can be lost: a
  process that dies between writing and syncing the key leaves a key that the
  next `set` uses unsynced. The raw form of keys (32 bytes) is not modelled.
  Theorems speak of both layouts of the two directories unless they say otherwise.
* `Broker`: a process has finitely many connections at a time; capabilities and
  policies are any. After a kill both reading tasks of ssh end (`ssh.rs:150-151`), which
  is so when no other process holds the pipes. Arguments that do not parse, unknown tools and
  `capabilities_list` change no state and are left out. A crash may lose a request
  that has reached its target and waits for headers. A broken-off body is not
  audited (`http.rs:172-176`): `EveryActionAccounted` counts it as `lost`.
* `Connection`: a message is whole. A last line without a newline is handled like
  any other; the part of a line that a dying proxy leaves is answered with a
  parse error to nobody. The buffer of `read_until` grows with the line
  (`mcp.rs:49-55`), which no invariant bounds. Answers still in the socket are
  lost when the upload fails first. A proxy outlives a dead broker while its
  client neither writes nor closes.
* `SshChild`: no process but the client holds the pipes. What an error leaves (a
  client that is dying, detached readers) is dropped when the call returns.
* `AuditFile`: `O_APPEND` makes one `write(2)` one piece at the end of the file.
  Records survive the process, not a power failure: nothing is synced.
* `PathRules`: `://`, ports, queries as such and the characters that the parser
  percent-encodes are not modelled.
* `ResponseText`: characters are single bytes. A secret cannot overlap a marker
  (`Apart`): it has no bracket and is no part of `REDACTED`. The code does not ask
  for that, but the properties need it: the credential `RED` occurs in what
  replaces it, and `]a` occurs in `[REDACTED]a`, which is what becomes of `]aa`.
  The Basic form satisfies it but for a credential so short that it is a part of
  `REDACTED`. Where a secret lies across the byte where reading ends,
  `ShownIsRedacted` vouches for all that comes before that secret; what may follow
  is a part of it, which is the finding of `PartialSecret`.
* `ConfigLoad`: a digest determines its content. Without a pin the two loads of
  `serve` may see two files, which `StdioWithoutVault` says. `doctor` hashes and
  loads in two reads (`main.rs:295-296`) and serves nothing.
* `Service`: one broker at a time starts or stops, as with
  `packaging/systemd/agent-secret-bridge.service` (`Restart=on-failure`).

The other assumptions on constants only keep kinds of values apart (`NoFile` is
no file, `NoProc` no process, `NoSocket` no start and no broker), give functions
their domains (`ProcessOf`, the lists of `Contents`) and order bounds
(`MaxWithCalls` is at most `MaxMessages`).

## 5. Proofs

`RateLimiterProofs` proves, for every set of tasks and capabilities, all limits,
windows, lags and horizons, and any number of restarts:

* `TypeCorrect`: `Spec => []TypeOK`, which bounds each queue by its limit, with any clock;
* `WindowRespected`: `Boot >= Window` implies `Spec => []NoOverrun`;
* `DenialsJustified`: `Spec => DenialJustified`, under the same assumption;
* `LimiterIsQuota`: `Spec => ImplementsQuota`, with any clock.

`NoOverrun` speaks of the history, and the queue of a capability is not sorted,
so it is not inductive. The invariant `IInv` (end of `RateLimiter.tla`) adds:
stamps of waiting calls are at most `Lag` old (`FreshStamps`); the history is
ordered by the time of admission (`HistoryOrdered`); the queue is the tail of the
history (`QueueIsTail`); what has left the queue of this process is a window
old (`GoneIsOld`). An admission finds fewer than `Limit` stamps in the queue, so
the admission `Limit` places earlier has left it, was stamped a window ago, and
took place at most a lag after its stamp. A refusal finds `Limit` stamps behind a
front that is younger than the cutoff; all of them were admitted after the
front. `EvictSuffix` states what the eviction loop returns; `LeastElement`, that
the front exists. TLC also checks `IInv` on the instance of the run.

`Quota` is the limiter without its clock: `used` is the length of each queue,
`granted` that of each history. An `Admit` is a `Grant`, a `Deny` an `Expire`
(it evicts, and a refusal is no promise of `Quota`), and the refinement needs no more
than the types and that eviction only shortens (`KeptShorter`); the window is what
`NoOverrun` adds to it.

`BridgeProofs` proves, of the calls of `SshChild` and for all limits, pipe and buffer sizes and any
amount of output:

* `OutputIsCaptured`: `Spec => []CaptureExact`;
* `CallsCleanUp`: `Spec => []NothingLeftBehind`.

Neither is inductive: a result depends on reads that happened before the client
exited. `ChildInv` adds what a task has kept and cut of the bytes it has seen, in
reads of any size (`Counted`, with the arithmetic in `ReadCounts`), that a task
ends by itself only behind a dead client and an empty pipe (`EndedBehind`), what
each point of `execute` has waited for (`Waited`), and what an outcome implies
(`Decided`). TLC finds `ChildInv` invariant on the instance of `Bridge`.

It proves too, of its connection and for channels of any size, any messages and any ssh
client:

* `BridgeTypes`: `TypeOK`; `CallsExecutedOnce`: `ExecutedOnce`;
* `AnswersKeepOrder`: `AnswersInOrder`; `CleanEndsDeliver`: `CleanEnd`.

`ConnInv` says what is in the channels: unread messages follow the one the broker
is at (`Flow`); what it is at wants what it does (`Handling`, `Executed`); the
answers in stdout, socket and client are those to an initial part of the messages
(`Ordered`). `CleanEnd` needs in which order the halves end (`Closing`): an exit
without error waits for the end of the download, which comes after the broker
has read the end of the upload and written its last answer.

`ConfigLoadProofs` proves of `LoadSpec`, for any contents and edits:

* `PinnedOrNothing`: `LoadSpec => []PinHolds`, which is inductive;
* `StdioStaysOut`: `LoadSpec => []StdioWithoutVault`, from `CheckedIsPlain`, what
  the first load leaves for the second;
* `UsableIsServed`: `LoadSpec => []ServedIsUsable`. `validate` tests one list of
  the ids of both kinds; `IdsOfBoth` finds each id at its place in it, so that
  `Distinct` of the one list is what `Usable` says of the two.

`VaultFileProofs` proves, for any processes, ids, secrets, commands, faults,
crashes and power failures:

* `TypesHold`: `Spec => []TypeOK`;
* `FilesImplementStore`: `Spec => ImplementsStore`, with no hypothesis;
* `VaultStaysInForce`: if the files exist at the start or both lie in one
  directory, `Spec => []InitializedForGood`;
* `StoredStaysReadable`: if the files exist at the start, `Spec => []ReadableUnlessOverlooked`.

The invariant `FileInv` adds to the types that the lock has one holder
(`Exclusive`), what a command carries at each point (`Shaped`) and that the file
it prepares is the map it sees, the present or the empty one, with its one change (`Prepared`), that no torn
file has or may get the vault's name (`NeverTorn`), and that `create_new` gives
the key one owner (`KeyOwned`). The refinement goes step by step over it: a step
outside the lock, or inside it before the rename, stutters or moves a request
to its next stage; `Rename` is the commit because of `Prepared`, since nobody else
has changed the map meanwhile; `SyncDirectory` is the flush; a power failure
chooses among the maps that `vaultDisk` allows, which are whole because of
`NeverTorn`; a failing stat is an `Overlook`, after which the request carries the empty map. `Established` adds when a vault is in force: from the sync of its
directory until a failing `init` removes the key, and for good once `init` has
returned. `Keeps` says that every surviving file holds what was acknowledged and
not overlooked.
The hypotheses are needed: both `VaultInitWhileAdding` and `VaultKeyDirectory` begin
without files and lose a stored secret, and the state that the second one
reaches, an initialised vault without its key, breaks `InitializedForGood` too.

`BrokerProofs` proves, for any finite number of connections, any capabilities,
policies and limits, and any number of calls and restarts:

* `TypesHold`, `RequestsAuthorized`: `TypeOK` and `OnlyAuthorized`;
* `ActionsAdmitted`, `ActionsAccounted`, `AuditIsTrue`: `EveryActionAdmitted`,
  `EveryActionAccounted` and `AuditNeverLies`. The last compares, per capability, the
  records of completed, failed and timed-out actions with the actions, and the results
  of clients with the records of completed and failed ones; it does not speak of
  the records of refused calls.

`OnlyAuthorized` needs what dispatch and policy have found of a request when it
is past them (`Routed`). The accounts need each other: `Balanced(c)` weighs actions
and admissions, records and actions, and results and records, each with the
connections that are between the two. A connection that moves changes one
cardinality by one, and a crash moves what it holds to `lost`.

`BrokerUsesQuota` (`Spec => ImplementsQuota`) joins the two modules: a call that
`LimitCheck` lets through is a `Grant` of the `Quota` that `RateLimiter` implements, `Slide` an
`Expire`, `Crash` a `Restart`, and every other step leaves the limiter alone.
What `EveryActionAdmitted` says of admissions is so said of places that
`RateLimiter` hands out. `Slide` frees one place at any time, where `check` evicts all
that are due when it is called (`rate_limit.rs:22-24`).

`DaemonSocketProofs` proves, for any brokers, clients, starts and kills:

* `TypesHold`: `SocketSpec => []SocketTypeOK`, with no hypothesis on starts;
* `ServingReached`, `OneBrokerServes`: `Settled` implies `SocketSpec => []ServingIsReachable`
  and `SocketSpec => []OneBroker`.

`Numbered` keeps the socket files of different starts apart. `SocketInv` says that of
two brokers one is off, or one serves while the other still probes (`Apart`), that
the path leads to the broker that has bound it (`Reached`) and that connections
end with their broker (`Linked`). A start that gets past its probe is therefore
alone. `DaemonOverlap` shows that `Settled` cannot be dropped.

`AuditFileProofs` proves, for any tasks and processes, lines of any size, and any
number of records and of incomplete writes:

* `AuditTypesHold`: `AuditTypeOK`, which includes the mutex;
* `AckedAreWritten`: `AckedIsWritten`; `OwnLinesStayApart`: `OwnLinesApart`;
* `DamageIsBounded`: `DamageBounded`.

The last one speaks of cardinalities, and its argument is about places. `Breaks`
are the pieces where a line stops before its newline. Each was left by an incomplete
write, so they are at most `short` (`Broken`); a line without a break before other
text is in one piece (`Together`). A line that cannot be read has such a break, or begins
right behind one (`UnreadableIsBroken`), so two images of `Breaks` cover the
spoilt records. `Owned`, `Growing`, `Complete` and `Behind` say who writes a
record, which of its units are in the file, and that a line in work begins
behind all its process has written of others. TLC finds `AuditInv`, like
`ConnInv`, invariant on the instance of its run.

`HttpTextProofs` proves of `ResponseText`, for any secrets that satisfy the assumption and any
number of them, bodies and limits of any size, and chunks of any sizes:

* `RedactTextClean`: the redaction of any text holds none of the secrets;
* `NothingSecretShown`: `TextSpec => []NoSecretShown`;
* `CallerSeesRedacted`: `TextSpec => []ShownIsRedacted`. For a cut through a secret it
  says what comes before that secret (`ClearBeginning`), and that is all there is to
  prove: `NoPartShown` is false.

They are about two recursive functions, and the induction that this takes is
proved in the module: `Upward` and `Downward` say of a set, not of an operator, that it
holds all numbers up or down from one that it holds (a least number outside it is
excluded by `WFMin` of the library). A recursive function is
a `CHOOSE`, so `ScanExists` and `RedactionsExist` first build the function that it chooses.
Then, downward over the places of a text: where a secret stands at the beginning
of what the scan leaves, it stood at that place of the text (`SecretOfText`), so a
replacement removes its secret and makes no other (`NothingMade`). Where no
secret lies across a cut, the two parts can be redacted apart (`RedactionsJoined`),
because the scan stops at the cut (`ScanBefore`) and puts no later secret across it
(`WholeStays`). `TextInv` says what is read (`Reading`) and that the loop has ended at
the end of the body (`AllRead`) or at the limit (`ReadToLimit`), where the caller has
a part of the redacted beginning of the body.

Of `PathRules` it proves, for paths of any length, any characters and any rules
that `validate_policy_path` accepts:

* `PathsConfined`: `PathSpec => []RequestsConfined`;
* `PlainPathsDecided`: `PathSpec => []PlainRequestsDecided`.

The invariant is only that a request is a path (`PathTypeOK`). The work is in the
algebra of the operators, by induction over sequences (`Grown`, from `Upward`): what
is joined with a slash is split there (`SplitJoined`), splitting what segments without
slashes are written as gives them back (`SplitWritten`), and writing what a path was
split into gives a slash and the path (`WrittenSplit`). So a match of characters is a match of
segments, both ways (`RuleDecides`), where the code has `starts_with` on strings
(`policy.rs:77`), and the segments of a URL hold no slash and no dot segment (`UrlSegments`).
A plain path comes out of the parser as it was (`PlainRequest`). The attempt to prove
the second theorem showed that "plainly" has to exclude `#`, which
no character of the run is and which `validate_requested_path` refuses.

Only model-checked:

* liveness, since TLAPS proves neither liveness under fairness nor `ENABLED`:
  `Terminates`, `Answered`, `Recovers`, `AnswerArrives`, `BothEnd`, `PipesDrain`,
  `CallEnds`.

## 6. Not modelled

* `SystemVault` (`vault.rs:48-89`): single calls to the keyring of the system,
  which has the concurrency and the failures.
* `examples/e2e_canary.rs`, packaging and CI: no logic of the broker.
* Parsing of YAML, JSON and the command line, file modes and ownership, the
  command line of ssh (`ssh.rs:187-306`), headers and the client of an HTTP
  request: data that no property tells apart. They succeed or fail, and where
  a failure has an order (`http.rs:99-146`, `ssh.rs:88-127`) `Broker` has it.
* `check` and `config hash` read and print; of `doctor` only the test of the vault
  is modelled (`validate_existing`, in `VaultFile`).

## 7. Plan

The modules and theorems planned are written. What would say more:

* `Broker` composed with `RateLimiter` itself, clock and stamps included: it would
  join `NoOverrun` to the actions that `did` counts. Now `Quota` stands between them.
* The proofs of `Connection` and `SshChild` joined to one about a whole call in `Bridge`.

## 8. Running

    tlc -config Service.cfg MCService     # and so on, as PROJECT.json pairs them
    tlc -config Bridge.cfg MCBridge       # the longest, two to three minutes
    tlapm RateLimiterProofs.tla           # likewise the other seven proof modules;
                                          # VaultFileProofs takes about two minutes
