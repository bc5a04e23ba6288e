# Verification of `@utexo/rgb-lightning-node-bare`

The package is a Bare native addon around the C-FFI of rgb-lightning-node
(RLN). Its own logic is in three places: `binding.cc` (the addon), the runtime
patch `patches/release-adapter-v0.17.0-beta.3.patch` (Rust: signer gate, session
shutdown, VSS snapshots and restore, BIP-322) and the JavaScript around them
(`index.js`, `json-boundary.js`, install and staging scripts). RLN, LDK, rgb-lib,
libjs and the JavaScript engine are outside the repository; they appear here
only as the repository's code uses them, marked external in `PROJECT.json`.

## Inventory

| Part | State it keeps | Operations | Interacts with | What is hard | What makes it correct |
|---|---|---|---|---|---|
| Handle registry (`binding.cc`) | list of registered wrappers, identity counter, each wrapper's native pointer and flags | new, attach, shutdown, destroy, finalizer, teardown callback, a signer's draining callback | libjs teardown lists, the engine's collector, `rln_sdk_node_shutdown`, `free_sdk_node` | the registry lock is released across native calls; finalizers come late; callbacks come in either order; any native call may fail | native objects used within the C-FFI contract; a signer outlives its nodes; nothing leaks without a failure |
| Signer gate (`native_signer.rs`) | revocation flag, `RwLock<Option<State>>`, poison | call, shutdown | every node and proof that signs; the store's lock file | callers queued on the lock at revocation; panicking destructor | no admission after the flag, nobody inside once shutdown returned |
| Snapshot policy (`vss_snapshot_policy.rs`, guards in `rgb.rs`) | choice file, pending marker, receipt; four atomics | load, mutation and sync guards, backup, set, status | wallet mutex, rgb-lib's dirty flag, VSS store | each file or network effect may fail; crash and power loss between any two | unsaved state stays known; receipts and the saved choice are true |
| Session tasks, `stop_node` (`ldk.rs`) | two task registries, handles, failures, outcome of the terminal stop | spawn, close, join, stop, start rollback | background processor, VSS fence, database pool | spawn racing close; stop racing stop; one cleanup failing | no worker survives a stop that said Ok; the fence stays after an error |
| Node handle and attach (`node.rs`, `uniffi_api/mod.rs`) | cancellation token, attached signer, unlocked state | init, unlock, lock, shutdown, attach | signer gate, `stop_node` | a bootstrap in flight across shutdown | no attachment published after shutdown |
| VSS restore (`vss_restore.rs`) | private staging directory, receipt key, promoted wallet, its marker | prepare, info | VSS store, file system, unlock | interruption at any step; another node on the same directory; power loss | a wallet in place is whole, verifiable and never overwritten; the SDK's check of it is not skipped |
| Chain back-ends (`block_sync`, `transaction_sync`) | poller state | poll, stop | session tasks | cancellation inside a retry | stops when asked |
| JSON boundary (`json-boundary.js`) | none | parse, stringify, request admission, UTF-16 scan | façade | 2^53, 2^64, surrogates | digits kept exactly or refused |
| Façade (`index.js`) | handle or null per object, flags | some sixty methods of five kinds | addon | a native shutdown fails; a program retries; signers of one store | a refused call did not run; leaving releases what can be released |
| BIP-322 (`bip322.rs`) | none | build, finalize, verify a proof | signer gate | cryptographic encodings | outside TLC |
| Overlay build (`native-overlay.js`, `install-native-artifacts.js`) | libraries, prebuilds, provenance manifest | select, hydrate, import, clone, build, stamp, inspect | git, cargo, bare-make, the developer's edits | edits while it compiles; failures and crashes between file writes | what the manifest vouches for is what was built |
| Distribution and staging (`native-distribution.js`, `stage-android-addons.js`) | wrapper package, payload packages, managed output directory | hydrate, stage, verify; staged copy and swap | npm, Gradle | overlapping commands, damage between check and copy | never a mixed set that verifies |
| Binary inspection (`android-elf.js`, `android-staging-elf.js`) | none | RELRO, lifetime, flags and import checks | nm, readelf, the loader | page rounding, table order | what is accepted is protected and loads |
| Release contract, credentials, archive check, build, CI | none | comparisons of files | | | not behaviour of the program |

The `components` of `PROJECT.json` say which are modelled, `hazards` lists what
is hard to test, at its line, with the properties that cover it.

## Modules

| Module | Models |
|---|---|
| `HandleRegistry` | `binding.cc`'s registry and every handler, finalizer and callback that touches it |
| `NativeOwnership` | the abstract promise of the registry: what may happen to nodes and signers |
| `SignerGate` | `with_state` and `shutdown` of `NativeExternalSigner` |
| `RevocableStore` | the abstract promise of the gate: no locks, admission and release |
| `SnapshotPolicy` | the snapshot policy, its files, the guards, the setter and the status call |
| `SessionTeardown` | `SessionTasks`, `start_lightning` with its rollback, the listener and reconnect loops, `stop_node`, `NodeHandle::shutdown` |
| `SignerAttach` | attaching native and foreign signers, message proofs, their checks, and shutdown |
| `VssRestore` | `vss_restore.rs`: prepare with its staging, key, receipt and promotion; info |
| `Facade` | the classes of `index.js` and a program that uses and leaves them |
| `JsonBoundary` | `json-boundary.js`: numbers and texts between JavaScript and native |
| `Preparation` | one `prepare-native` command: selection of targets, sources, inspection of symbols |
| `ArtifactOverlay` | `ensureOverlayArtifacts` file by file, over several runs |
| `NativeDistribution` | `hydrateDistribution`, `stagePayloads`, `verifyDistribution` file by file |
| `AndroidStaging` | `stage-android-addons.js` step by step |
| `ManagedOutput` | the abstract promise of the staged directory: one complete set at a time |
| `AndroidElf` | the ELF checks of the three routes, and the loader they protect against |
| `*_proofs` | theorems: `HandleRegistry`, `SignerGate`, `SessionTeardown`, `SignerAttach`, `VssRestore`, `Facade` (also about `JsonBoundary`), `SnapshotPolicy`; `Packaging_proofs` is about `Preparation`, `ArtifactOverlay`, `NativeDistribution`, `AndroidStaging` and `AndroidElf` |
| `MC*` | model-checking instances |

The parts meet as follows. `Facade` sits on the addon and takes from
`HandleRegistry` only what a handler returns. `SignerAttach` and
`SessionTeardown` are two views of one node: the first keeps who may sign and
shortens the stop to its beginning and its end, the second keeps the stop and no
signers. `SignerAttach` relies on `RevocableStore`'s promise where the code calls
through the gate. `VssRestore` and `SnapshotPolicy` share the VSS store but never
run on one wallet at the same time: prepare is refused once the wallet is
unlocked. `Preparation` decides what `ArtifactOverlay` and `NativeDistribution`
then do; `AndroidStaging` reads the manifest that `ArtifactOverlay` writes, and
`AndroidElf` is the inspection both of them call.

Mutants are operators whose comment starts with `mutant`. They stand before the
definition they are a wrong version of, and nothing uses them.

### HandleRegistry

One thread per Bare environment. A handler runs to completion on its thread, so
it is one action, except where it calls `rln_sdk_node_shutdown` or drains nodes
without the registry lock: there the thread's frame keeps the raw pointers of the
C++ stack and the handler goes on in a second action, after anything other
environments did. `handles` and `refs` are the registry list and the wrappers'
memory; an address is free again after `free`, and `register_handle` may give it
to another wrapper. `hooks` is libjs's list of teardown callbacks, `held` and
`garbage` the externals a program still reaches and those waiting for their
finalizer. Native calls may return an error each time. A native object used
outside its contract becomes `"corrupt"`, and `NativeContract` says that none
ever does.

`NativeOwnership` forgets wrappers, identities, finalizers and callbacks. A node
is stopped before it is freed, a signer whose environment is closing is revoked
only when no live node holds it, and a freed object is gone. The refinement maps
`closed` to the environments that no longer run and everything else by name.

The registry takes each native stop to be new: after one that failed, another may
succeed. That is more than RLN does, which records the outcome of a terminal stop
(see `Facade`), and what holds here holds of less.

What the model shows about the code and the README of the addon does not say:
after a failed native stop, `signer_teardown` gives up the signer's callback, so the
signer stays held and not revoked, whatever a later stop of the node does; a
signer wrapper collected late is freed without having been revoked. Neither
violates the C-FFI contract, and `RetainedOnlyAfterFailure` allows the first.

### SignerGate

Threads hold clones of one signer. `with_state` is: look at the flag, take a read
guard, look again, use the state, leave. `shutdown` is: raise the flag, take the
write guard, drop the state (its destructor may panic and poison the lock), clear
the poison. The lock may give itself to any waiting thread, readers before
writers included, as std documents no order.

### SnapshotPolicy

Every operation of the policy holds the wallet mutex, so there is one `op`, at
one `at`; but between any two effects the process may die (`Crash`), lose the
directory entries it had not synced (`PowerLoss`), or another client may write
the store (`ForeignUpload`). `seen` is the directory as system calls show it and
`kept` what a power loss leaves; `write_atomic` is `io`, with its rename, sync,
rollback and the failure of each. `mem` is the four atomics and is lost with the
process. The wallet is the bit `saved`; the SDK's `dirty` flag may miss a change,
which is why the marker exists. `vss_backup_info` runs beside all of it in three
reads. `hist` is history the properties need: the last acknowledged choice,
whether the marker of the current changes could be written, whether a panicking
operation skipped its upload.

The model assumes what the code assumes: that a sync's effect shows in balances,
transactions or unspents, and that an applied upload contains the wallet. It
follows the code in two corners worth knowing. A panicking operation leaves
the marker but neither uploads nor raises the failure flag; and after a choice
became unknown, a manual backup clears the failure flag although automatic
uploads stay off until the restart. In both the status still says that a backup
is required (`UnsavedIsKnown`), and `FailureIsShown` excepts them by name.

### SessionTeardown

There is at most one session, in `sess`. `reg` holds its two `SessionTasks`
registries: `tasks` owns the workers, `completions` the monitor writes and
broadcasts. `task` is the future behind each handle; a handle that was reaped or
joined is `"none"` again, so a session may spawn workers without end and the
state stays finite. Whatever one critical section of the registry's mutex does is
one step, and nothing else is: `join` is close and take, the awaits, the final
take (`JoinTakes`, `JoinAwaits`, `JoinReaps`), each for either registry.

Three kinds of future matter. A `Loop` worker watches the cancellation and may
return or panic at any time; it stands for the chain pollers, fee refreshers,
sweeps, announcements and gossip lookups. A `Conn` ends only when its peer leaves
or is disconnected. A `Completion` ends by itself, or, when the stores are cut
off, only once they are stopped. The two dialers, the accept loop and
`do_connect_peer` (the reconnect loop; `ConnectionNeeded` workers do the same),
hold a connection between setting it up and handing it to the registry, and await
it themselves when the registry has closed meanwhile.

`stop` walks through `stop_node` statement by statement (`stop.at`), under the
teardown mutex; a startup that fails goes through the two joins as `"unlock"`. A
shutdown raises the cancellation, waits for `changing_state` and enters; a REST
lock raises `changing_state` first and leaves the database open. The bodies of
unlock and lock are not in the patch: their check and their flag are taken to be
one step, and the flag to be lowered on every way out.

`TerminalClosesDatabase` fails, and is kept as the run `session_database`:
`stop_node` looks at the cancellation once to decide on closing the database pool
and once more to decide on keeping its outcome. A shutdown that cancels between
the two, while a lock is in `stop_node`, later finds the lock's Ok and returns it
with the pool open, where `SIGNER-LIFECYCLE.md` says that a terminal shutdown
closes it. A lock that performed the teardown is the only way there
(`OpenOnlyForALock`, a part of `SessionInv`); without locks every shutdown that
returns Ok has closed it (theorem `ClosedWithoutLocks`).

`WaitsCanEnd`, another part of `SessionInv`, says that no stop waits for what
nobody will end: a worker under `join` is cancelled and its link is down, a
connection a dialer awaits itself too, the processor was told to exit, and
completions are awaited once the stores have given up. The order of `stop_node`'s
statements is there to make it true.

The model also shows what `FailureIsReported` does not promise. Only the caller
that tore the session down is told of its failures: a lock's Err is not recorded,
and a shutdown after it finds no session and returns Ok, while the fence stays. And
Ok does not say that the fence is free: its release is a remote call which may be
cut off, and nobody looks at its outcome (patch:2636, 1885), so `SettleFence` may
leave it as it is. What does hold is the other direction, in `SessionInv`: a fence
is freed only by a stop in which nothing failed.

### SignerAttach

A thread that attaches a native signer checks the cancellation, asks the host for
its bootstrap without any lock, publishes the attachment under its mutex, and in a
second step binds the signer for BIP-322 proofs, if the attachment is still the
one it names. A proof reads the session's bootstrap and `key_source.json` under
the API mutex and then keeps the attachment's mutex while it signs; the two
mutexes are implied by the places of the threads (`ApiFree`, `AttachedFree`).
Shutdown raises the cancellation, takes the attachment and stops the node. Unlock,
lock and detach are upstream code and one external step each, and a bootstrap read
through the gate is one step, as `RevocableStore` allows. When the second half of
an attach fails the attachment stays published without a signer of messages: the
call returned an error, and a proof is refused until the next attach.

### VssRestore

`prepare` goes place by place (`job.at`): scan for a wallet, version, download,
extract, the second read of the version, the receipt key, the receipt, the
marker, the syncs, the rename that never replaces, the last sync. A wallet
directory is its archive's version, the version and key its receipt names, and
which parts programs see and a power loss keeps; a key is named after the node
that made it; an archive that is malformed, too large or of another identity is a
download that fails. Effects fail, processes die between effects, and power losses
undo renames no sync has covered, in order when `OrderedRenames` (as a journaling
file system does; see the observations). Nobody edits the directory by hand, and
the remote version does not go back. Unlock and lock are external steps; an unlock
of a restored wallet consumes its marker. `AcknowledgedStays` is about the prepare
that promoted the wallet: one that only finds a wallet in place reports it without
a sync of its own.

### Facade and JsonBoundary

A method runs to completion on JavaScript's thread and is one action; `Facade`
sorts the methods by what they do with arguments and answers (`Json`, `JsonVoid`,
`Plain`, `Stub`, and the few with checks of their own), and lets native calls
return or fail. The program is part of the model, as far as the documentation
obliges it: it may repeat a call that failed before native access (README.md:131
and 147), it shuts a signer down only when no node that it has not closed uses it,
and when it leaves it retries what threw. Garbage collection is left to
`HandleRegistry`.

A failing native shutdown is not the same for a node and for a signer. The outcome
of a node's terminal stop is recorded and given to every later call (patch:2501,
2669; `Recorded` of `SessionTeardown`), so a node whose stop failed
(`native = "failed"`) throws for ever, stays open, and keeps the signers it holds. A
signer's shutdown throws when the backend's destructor panics, has revoked the
signer by then, and succeeds when called again (`SignerGate`). `LeavingReleases` says
what is left of a program that leaves: nothing but such a node and its signers
(`Released`).

`JsonBoundary` has the widths as constants, and TLC scales them down together:
numbers of 3 significant bits for 53, amounts up to 63 for 2^64 - 1, counts up to
3. A held value may be answered, computed with, sent back or burnt. Rounding is
round-half-to-even at the exponent the value needs, for integers of any size
(`Power`, `Round`). A caller that goes on computing with a number that is already
unsafe is outside: `checkedNumber` is what makes such a number visible. UTF-16
texts are sequences of unit classes; the scan is compared with a definition that
does not scan: every high surrogate stands before a low one and every low after a
high (`Paired`), and the length is the sum of what the units count (`Utf8Length`).

### Preparation, ArtifactOverlay, NativeDistribution

`Preparation` is one command without interference: the selection of targets from
environment, argument, EAS platform and host, then hydration, reuse, import or
build, then the inspection. One artifact stands for all targets. Whether the
manifest vouches for a prebuild is nondeterministic there; `ArtifactOverlay` says
when it may. Its files carry what went into them (release, source tree, wrapper,
build recipe), and equal hashes mean equal files. What a manifest is stamped with
is split by when a run reads it: the pins of the release (versions, commits, patch,
toolchains) once, and it hands them to every command; the wrapper's hash at the start and
again after the build; the recipe's hash at the start only, while the scripts are
run from disk. Between any two steps of a run the developer edits the wrapper, the
recipe or the source tree, or takes an edit back, takes a new release, or replaces
the directory that is imported; a write of the manifest is not atomic and a crash
may tear it.

The code does not notice all of that (see the observations), so `StampedIsBuiltFor`
and `SuccessMeansCurrent` name what they except. A run is `disturbed` when another
run was at work beside it, when the recipe changed before the run used it for the
last time, when the wrapper or the source became again what the run had read
during its build, or when the directory changed while it was copied; a target is
`doubtful` when a disturbed run stamped it, until another run stamps it again. Both are
history that no action reads. Everything else is promised: any edit before a build,
any edit that is still there when it ends, kept entries, torn manifests, half-copied
sets, and deaths at any point.

Where the code loops over targets, a run keeps the set it has
yet to do and takes them in any order: the order is that of the configuration, and
nothing may depend on it.

`NativeDistribution` has two commands that overlap freely over the wrapper and its
payload packages: hydration compares, copies to a private directory, compares
again and renames slice by slice; staging fills the workspaces; verification walks
the payloads one after another, in any order. The environment may damage a payload, upgrade or
reinstall it between any two steps. A crash leaves what a failure leaves. Wrapper
files are not rebuilt while a command runs, and payload workspaces change during
commands by staging only. The debug-profile check and the JS-only mode of the
publication check are left out.

### AndroidStaging, ManagedOutput, AndroidElf

A staging run reads the manifest and the prebuilds, plans, copies into a private
directory with a hash check of each file (the copy and its hash are one step),
moves the old output aside, moves the new one in, and rolls back when that fails.
The files of a directory are copied, linked and inspected in any order (`todo`).
Two runs overlap, inputs are rebuilt or linked again at any time, any file
operation may fail and the process may die. `ManagedOutput` says that there is one
complete set, made of files that existed together, and that only another such set
takes its place; `Current` maps the output, or the backup of the run that moved it
aside (`moved`, which changes only when a complete set is moved), to that set.

`AndroidElf` runs the checks in each route's order over one object. The loader
beside it is the platform's: it seals whole pages of RELRO and takes the last of
several dynamic entries. Numbers that are not safe integers never reach the
checks; flag words are sets of the bits that matter; a device has pages of 4 KiB
or, on 64 bits, of 16 (`DevicePages`).

## Runs

| Run | Instance | Shows |
|---|---|---|
| `handle_registry` | 2 environments, 3 addresses, 2 nodes, 1 signer, 3 identities; symmetry; 401,967 states | `RegistryInv`, the C-FFI contract, a signer outlives its nodes, no leak without a failure, refinement of `NativeOwnership` |
| `handle_teardown` | 1 environment, 2 addresses, 2 nodes, 2 signers, 2 identities; 110,533 states | late finalizers under reused addresses and exhausted identities; a teardown ends, whatever fails |
| `signer_gate` | 4 threads; 1,593 states | no admission after the flag, no starvation, refinement of `RevocableStore` |
| `snapshot_policy` | 2 manifest versions; 1,579,753 states | the five properties of the policy |
| `session_teardown` | 1 loop worker, 1 connection, 1 completion, 2 shutdowns, 1 lock; symmetry; 1,062,242 states | the safety properties of the session |
| `session_returns` | 1 connection, 1 shutdown, 1 lock; 498,263 states | a shutdown returns |
| `session_database` | no loop workers; expected violation | the finding above |
| `vss_restore` | 2 nodes, 2 remote versions, 4 faults; 180,510 states | what is in place is whole, verifiable and marked; an acknowledged restore stays; preparations resume |
| `signer_attach` | 3 threads, 2 signers of one node id, a foreign host; symmetry; 259,150 states | bound is attached, proofs are the wallet's, nothing late |
| `android` | 8,285 objects on 3 routes and 3 targets; 2 staging runs of 2 ABIs, 2 rebuilds; symmetry; 780,035 states | accepted objects are protected and load; `StagingInv`; refinement of `ManagedOutput` |
| `facade` | 2 signers, 2 contract fields, 2 tries; numbers from -18 to 66, texts of up to 3 units; 277,426 states | retried calls run once; leaving releases what can be released; the boundary is exact |
| `preparation` | every environment worth telling apart; 2 targets, 2 starts, 2 edits; 2 payloads, 2 commands, 2 disturbances (changes, at most 1 stop); symmetry; 1,063,541 states | what is vouched for is what was built, and sets stay whole |

Three of the runs put independent components side by side (`android`, `facade`,
`preparation`): they share no state in the code, and a behaviour of the run is a
behaviour of one of them while the others stay where they start. So the run
explores the sum of the components and not their product, and every property is
checked on every behaviour of its component.

Bounds. Two environments are enough for every interleaving of two frames, and the
registry has no state that a third would add; three addresses hold two nodes and
their signer, so that a drain has something to skip and something to stop. The
teardown run has fewer addresses and identities than objects, so both are reused and
exhausted. Four threads give the gate two queued readers, a reader inside and a
revoker at once. Two manifest versions hold an upload of ours and one of
another client, in either order, and a lost acknowledgement followed by a retry;
the wallet and the files are finite without a bound. One connection is held by
either dialer while the session closes (with two, held by both at once, the same
properties hold in 3,302,306 states); two shutdowns and a lock give an owner
of the teardown, one that waits for it and one that finds its outcome; sessions
follow each other without a bound. Two nodes make two receipt keys, and four
faults allow a failed sync, a crash, a power loss and one more on the way back.
Three threads are two that attach against each other and one that shuts down or
proves. Every shutdown of the façade may fail, without a bound. Two rebuilds make
two versions of each of two ABIs, so a copy that mixes them exists to be refused (with
one, none does). Two overlay runs after one another and two edits give an edit during
a build, one that is taken back, and a later run that finds the result (with two runs
at once and one target `OverlayInv` holds in 5.07 million states); refused metadata is
release 2. Two payloads let a command stand
between them, and one stop interrupts it there; `MaxDisturbances` = 2 lets two changes,
or a change and a stop, meet in one distribution (with all three at once, two changes
and the stop, the same properties hold in 1.91 million states). Symmetry is used only in
runs without liveness.

Deadlock is not checked in the runs of the registry and of the session, nor in the
sums: when every environment is dead and every object spent the process has nothing
left to do, a node that was shut down stops, and a command ends. It is checked in
the others, where something can always happen.

Fairness. In `HandleRegistry` a thread that is inside a handler, or in a teardown,
goes on: native code returns and libjs runs its callback list to the end. Nothing
obliges a program to call, or the engine to collect. In `SignerGate` a thread that
has begun goes on when it can; that the lock is not starved follows from the flag,
not from fairness of the lock. In `SessionTeardown`
the runtime polls what is ready: `stop_node` and the dialers go on, a loop worker
returns once cancelled (its waits are `select!`s on the token), a connection's
future once its link is down, completions and the final flush once the stores
have stopped; callers get the teardown mutex in turn, as tokio's is a queue. Peers
never have to leave and stores never have to answer. In `VssRestore` a prepare
that is inside goes on, a shutdown ends and a user starts the node again and
prepares again; faults are bounded, so the claim is about what comes after the last
one. In `Facade` a program that leaves calls what is left to call, again if it threw;
that a call succeeds at last is not assumed. `SnapshotPolicy`
has no liveness property: the code has no timer that retries an upload, so nothing
must happen by itself. The scripts have none either: a command that fails is
repeated by a person or not at all.

## Proofs

All theorems hold for all values of the constants under the named assumptions
(`ConstantsAssumption`, `NullAssumption`, `NoneAssumption`, `ConfigAssumption`,
`AnswersAssumption`, `FilesAssumption`, `DistinctAssumption`, `MaxVersionAssumption`,
`StagingIsBounded`, `PackagesAreBounded`, `BoundaryHasWidths`), which TLC evaluates in the runs, and under
the hypotheses a theorem states itself; those are named below.

* `RegistryInvariant`: `RegistryInv` is inductive. `NativeContract` alone is not:
  that a finalizer frees the right object needs that wrappers own distinct objects
  (`WrappersDistinct`), that flags say what state the object is in
  (`WrappersAgree`), that a frame's pointers name registered wrappers of its own
  environment (`FramesAgree`), and that a drain without failures has left no node
  behind its cursor (`DrainsComplete`), which is what makes revocation safe.
  `HooksAgree` and `HookAgreement` are about libjs's list and rest on identities
  being unique below `next_handle_id`. One lemma per action; frames that an action
  does not touch are carried by shared lemmas. `TypeCorrect`, `ContractKept`,
  `FramesValid`, `LiveNodesKeepTheirSigner` and `HooksAgreeWithLibjs` follow.
* `RegistryImplementsOwnership`: under `RegistryInv` every step is a step of
  `NativeOwnership` or a stutter.
* `ExternalsFindTheirWrapper` adds `ExternalsInv` to it: every external carries an
  identity below `next_handle_id`, and one whose address and identity are registered
  is of that wrapper (`ExternalsDated`); one a program reaches names a registered
  wrapper (`HeldNamed`); and while a finalizer stops a node the program reaches no
  external of it (`CollectedUnheld`). So an address alone identifies the wrapper of an
  external in use, and a late finalizer, which compares identities, never takes a
  reused address for its own.
* `RetainedForAReason` adds `RetentionInv`: in an environment without a failure every
  wrapper has its callback still to come or is in the frame of the callback now
  running (`HooksCover`), a drain that met a failure has recorded it
  (`FramesRecorded`), and a signer that is not freed has its wrapper
  (`BoxesAccounted`). When the last callback has run, no wrapper is left to cover.
* `GateInvariant`: who holds which guard, and what the flag and the state are at
  each point; `ReturnReleases`, `NobodyAdmitted` and `GateKeepsPromise` (the safety
  part of the refinement) follow.
* `SignerAttach_proofs`: an invariant that ties each place of a thread to what it
  has read, and to the mutex it holds there; from it `BindsTheAttached`,
  `ProvesForTheWallet`, `ShutdownDrainsProofs` and `ShutdownEndsPublication`.
* `SessionTeardown_proofs`: `TeardownInvariant`, for any number of workers,
  connections, completions and callers. `OwnInv` says that whatever runs is behind a
  handle of a registry or of the join in progress, and that a linked peer belongs to
  such a worker or to a dialer (`DialInv`); `StageInv` says what each stage of a stop
  leaves behind, so that nothing is left once both joins are done; `FailInv` says
  where a failure is on record between the worker it happens to and the outcome.
  `SessionIsSafe`, `NothingIsLeftBehind`, `CompletionsAreNeverRefused`,
  `FailuresAreReported` and `ShutdownsWait` follow. `WaitInv` adds who will lower
  `changing_state` (`ChangeInv`), that a peer whose worker is awaited has been
  disconnected (`PeerInv`), what the flush was told (`FlushInv`) and for whom the
  database stays open (`DatabaseInv`); from it `NoStopIsStuck`,
  `OnlyALockLeavesItOpen` and `ClosedWithoutLocks`.
* `VssRestore_proofs`: `RestoresWhole`, `AcknowledgedForGood`, `MarkerStays` and
  `UnlockedMeansChecked` (together `ChecksAreMade`) and `NothingReplaced` need no
  order of renames. Their invariant says what the private directory holds at each
  place and which parts are durable from the flush on. `ResumesWhenOrdered` assumes
  `OrderedRenames`, and adds that the key's rename is ahead of the wallet's in
  `pending` whenever both are.
* `Facade_proofs`: `SignerOutlives` and `FlagsHold` rest on the program's promise;
  `RunsOnce` assumes that answers hold no integers written with an exponent, as
  serde_json never does.
* On `JsonBoundary`: `BoundaryHolds`, for every precision, every width of amounts,
  any integers and texts of any length, with `InstanceIsBoundary` for the run.
  Powers of two and the scan are recursive functions; what they compute is proved
  by induction. The library's induction theorems need an operator for the
  predicate, so the induction is over sets (lemma `Inductive`, from the least
  number principle): the set of lengths at which the scan agrees with `Paired` and
  `Utf8Length` contains 0 and is closed under successor (`ScanIsExact`). For numbers:
  what is within the safe range is not rounded (`SafeIsExact`), and what is not
  stays outside when it is rounded (`UnsafeStaysUnsafe`), so the check after the
  conversion sees it.
* `SnapshotPolicy_proofs`: `PolicyInvariant`, for any number of manifest versions,
  crashes and power losses. `PlaceInv` says what each place of an operation has
  established, `IoInv` how far a write has come and what the two views of the
  directory may then hold, `ReceiptInv` that a receipt names an upload the store
  acknowledged, in either view, `ChoiceInv` how the choice in memory, in the file and
  in the last answer agree. The core is `KnownInv`: a change the store does not have
  and the SDK's flag does not show has its marker in both views and in whatever a
  write in progress may restore, or, when the marker could not be written, the flag in
  memory while that process lives. `ShownInv` and `InfoInv` are about the status. From it
  `SnapshotSafe`, `UnsavedStaysKnown`, `InfoIsHonest`, `FailuresShow` and
  `ChoiceIsFollowed` (an action property).
* `Packaging_proofs` on `Preparation`: `PreparationHolds` (from `ConsumersNeverBuild`,
  `BuildsFit`, `UnreadStaysOut` and `MissingStaysOut`) for every environment and
  whichever names occur inside others (`Occurs`).
* On `AndroidElf`: `ProtectionHolds`, for any layout, through the arithmetic of page
  rounding: an end aligned to the larger page is aligned to the smaller, and a start
  rounded down stays above whatever ends at or below it on a page boundary.
  `LifetimeHolds` is about the last entry of the dynamic table, `LoadableHolds` about
  what an accepted object still needs when it is loaded.
* On `AndroidStaging`, for any number of runs, ABIs and rebuilds: `StagedAsReported`
  (`StagingInv`) and `StagingIsManaged`, the refinement of `ManagedOutput`. The
  invariant `StagedInv` says what each directory holds at each place of its run
  (`RunsInv`), that every complete set was hashed against its report (`SetsInv`),
  and whose backup is the current set (`MovedInv`). That the files of a set existed
  together, although they are copied one by one while others rebuild, rests on
  contents never coming back (they are counted upward): each file was planned before
  copying began and still has its planned content when it is copied and hashed, hence
  it had that content in between, when copying began.
* On `ArtifactOverlay`, for any number of runs at once: `OverlayHolds`. `OverlayIsTrue`
  says that what a manifest lists was built for the manifest's identity unless it is
  doubtful (`ManifestTrue`), also in an import (`BundleTrue`), what a run has
  established where it stands (`RunsWell`), and that a run at work makes every other
  one disturbed (`OverlapSeen`). The step that matters is the recheck after the build:
  an edit makes the source or the wrapper different from what the run began with
  (`SourceLost`, `WrapperLost`), and it stays so until the recheck refuses, or until
  it is taken back, and then the run is disturbed. `ManifestHolds` assumes
  `OneRunAtATime`; the code takes no lock, and without that it is false (see the
  observations).
* On `NativeDistribution`: `DistributionHolds` and `SetsHold`, for commands that overlap
  freely. `DistributionIsTrue` says what each command relies on at each place
  (`CommandsTrue`): the manifest it read is the wrapper's, a slice about to be
  installed was compared equal to the hash that manifest gives, and, in a checkout,
  only publication writes payloads and writes into them what the wrapper names.
  `ArtifactsHold` puts `OverlayHolds` and `DistributionHolds` together.
* The safety half of each liveness property, in two theorems (one for `VssRestore`): wherever the promise is
  still open somebody has a next step, written out as the guards of the actions; and
  every step brings its end closer, by a measure that cannot go on forever. What is
  left to the temporal conclusion is that whoever has a step takes it.

  | Liveness property | Never stuck | Moves on |
  |---|---|---|
  | `TeardownCompletes` | `TeardownNeverStuck` | `TeardownMovesOn`: callbacks only leave libjs's list, and each is at most 2 * `MaxId` + 2 steps long, as the cursor passes an identity once |
  | `RevocationCompletes` | `RevocationNeverStuck` | `RevocationMovesOn`: each step takes one thread forward and none back |
  | `ShutdownReturns` | `NoStopIsStuck` | `StopsMoveOn`: at most sixteen stages, and what a stage awaits only shrinks |
  | `PreparationResumes` | no theorem: a prepare waits for nobody, and each of its effects may succeed | `PreparationsMoveOn`: at most twelve places, and no refusal for what an interrupted prepare left |
  | `LeavingReleases` | `LeavingNeverStuck` | `LeavingMovesOn`: every call that changes anything, also one that throws, leaves less to release; at most one for the node and three for each signer |

Proved but in no run, as the run checks a property that contains or implies them, or
the liveness property they are half of:
the type invariants of the registry and of the restore, `PolicyInv`, `FramePointersValid`,
`HookAgreement`, `GateInv`, `ReturnedMeansReleased`, `AcceptedStaysLoaded`,
`SignerOutlivesNode`, `FlagsTellTheTruth`, `NoProofOutlivesShutdown`,
`NeverReplaced`, the two halves `OverlayInv` and
`DistributionInv` of `ArtifactsAreGenuine`, `OpenOnlyForALock` and `WaitsCanEnd` (parts
of `SessionInv`), `TerminalClosesDatabase` without locks, and `TeardownCanStep`,
`TeardownAdvances`, `RevocationCanStep`, `RevocationAdvances`, `StopAdvances`,
`PreparationAdvances`, `LeavingCanStep` and `LeavingAdvances`, which are defined beside
their proofs.

Only model-checked: the conclusions of liveness under fairness, which are beyond the
prover (`TeardownCompletes`, `RevocationCompletes`, `ShutdownReturns`,
`PreparationResumes`, `LeavingReleases`, and with them the fairness in
`ImplementsPromise`, whose safety part is `GateKeepsPromise`). Every other property of
a passing run is a theorem.

## Observations

What the models show of the code beside `session_database`. None is a run of its
own; each can be reproduced from the module it names.

* `ArtifactOverlay`: the manifest is stamped (`scripts/native-overlay.js:703`)
  before the artifacts are inspected (755). A run whose artifact fails the
  inspection fails, and the next one finds the artifact stamped and reuses it (713),
  which is why `SuccessMeansCurrent` speaks of what an artifact was built from and
  not of its symbols.
* `ArtifactOverlay`: two preparations at once drop each other's manifest entries,
  as each writes what it had read (497). With `Runs = {p, q}`, `HashesNotLost`
  fails; `scripts/native-overlay.test.js:317` tests two platforms in sequence.
  `TornManifestStays` fails too, when one writes over what the other tore, and
  without their exception `StampedIsBuiltFor` and `SuccessMeansCurrent`, when one
  builds over what the other has checked.
* `ArtifactOverlay`: what a manifest says can be untrue of a single run, too.
  `CHANGELOG.md:67` says that artifacts are bound "to the exact overlay commit, patch,
  toolchain, targets, and content hashes". Without the exceptions `StampedIsBuiltFor`
  and `SuccessMeansCurrent` fail in three ways. The hash of `build-cffi.sh` and
  `build-prebuilds.sh` is read at the start (`scripts/native-overlay.js:359`) and
  stamped, but the recheck does not compare it
  (698-702, `scripts/runtime-contract.js:9-19`), so scripts edited meanwhile build what
  is stamped with the hash of the earlier ones. The wrapper and the source directory
  are compared before and after the build, so an edit that is compiled and taken back
  before the comparison is not seen. And an import verifies the directory, copies it,
  and then writes a fresh manifest of what it copied (583), so when the directory is
  replaced in between, the manifest vouches for artifacts of another release. The pins
  themselves (versions, toolchains, NDK) are stamped truly, as a run reads them once and
  hands them to its commands.
* `ArtifactOverlay`: a torn manifest is never trusted and never replaced; it has to
  be removed by hand (`TornManifestStays`).
* `AndroidStaging`: the output is found to be this tool's own early, and moved aside
  later. A file someone puts into it in between is moved with it and removed with
  the backup.
* `Preparation`: symbols are looked for as substrings of nm's output (554), so a
  longer name stands for a shorter one it contains: an artifact without
  `rln_get_consignment` passes with `rln_get_consignment_path`, one without
  `rln_sign_message` with `rln_sign_message_bip322`, and so on for every name of the
  list that begins another. `scripts/native-overlay.test.js:257` says that
  verification "requires every contract symbol"; in the instance of `preparation`,
  which has the second pair, `AcceptedDefinesAll` fails. `MissingIsRefused` says what
  holds: a name is lacking only where a longer one stands for it.
* `Facade`: `NativeExternalSigner.create` enforces the full policy unless told
  otherwise (`index.js:510`); the comment above it says "Defaults to permissive".
* `VssRestore`: a receipt key that is found in place is used without a sync
  (patch:6712), although the prepare that made it may not have synced it yet. On a file system that may lose an older
  rename and keep a younger one (`OrderedRenames = FALSE`), `ResumeVerifies` fails,
  and `VSS-SAFETY.md:88` promises that a later process can resume.
* `Facade`: a failed terminal stop is final. RLN records it and returns it to every
  later call (patch:2501, 2669), so `SdkNode.shutdown` throws for ever, and the node
  and the signers it holds are never released before the environment goes, although
  the message says "Node shutdown failed; handle retained for retry" (`binding.cc:637`).
* `HandleRegistry`: see its section, on signers that are not revoked.

## Not modelled

The C-FFI functions (one native call each, no state), BIP-322 encodings
(cryptography), the release contract, credential helpers and the Python archive
check (comparisons of strings that a release makes once), build description and CI,
the superseded v0.15.0 patch. Of the session: wallet-only sessions, the common
persistence worker's abort, and destructors that run only when an owner unwinds. Of
the handle: the bodies of unlock, lock and detach, and what the chain pollers poll,
which are upstream code outside the repository.

## Plan

Every invariant and action property of the passing runs is a theorem, and every
liveness property has its safety half. What is left:

1. A property for the order of stamp and inspection in the overlay
   (`scripts/native-overlay.js:703`), the one hazard without one. The code as it is
   would violate it; it is worth stating once a run inspects before it stamps, or
   inspects what it finds stamped.
2. The conclusions of liveness, when the prover has rules for them: the theorems of
   the table above are the premises of the usual rule for weak fairness.
