# Cassetta: a TLA+ model of the server

Cassetta moves *bundles* (a few files with a manifest) between agents. Each agent
has an inbox, there is a shared store, and a bundle is small enough to travel
inside a JSON answer (inline) or is streamed over HTTP under a short-lived JWT
(reference mode for downloads, batch mode for uploads). This directory models the
parts of the server in which something can go wrong over several steps, checks
them with TLC and proves their main invariants with TLAPS.

All paths below are relative to `src/src/cassetta/`.

## Inventory

| Component | State | Operations | Hard behaviour |
|---|---|---|---|
| Inbox and claims (`routes/inbox.py`, `downloads.py`, `claims.py`, `backends/filesystem/claim_storage.py`) | bundles of an inbox; per path a lock file; per claim a sidecar `{jti}.json` | get, pick, pick latest, delete, list; issue, mark_fetched, delete a claim | several pickers; claim expiry against slow downloads; crash between two files |
| Download endpoint (`routes/download.py`) | open streams | check token, stream, account | what was read before the stream is used after it |
| Loops (`gc.py`, `app.py`) | none of their own | sweep orphans, sweep claims, delete expired bundles | they know nothing of uploads and picks in progress |
| Streamed upload (`routes/upload.py`, `streaming.py`) | bounded queue, pump task, parser thread, handler | feed, read, write_file, commit, abort | thread and event loop wait for each other |
| Bundle storage (`backends/filesystem/storage.py`) and its writers (`routes/files.py`, `routes/agents.py`, `mcp_server.py`) | a directory tree; per upload the set of written names | open, write, commit, abort, list, delete, overwrite, broadcast | uploads in progress look like leftovers; nesting |
| JWT keys (`auth/jwt_hot_reload.py`, `auth/jwt_tokens.py`) | two key slots, time of the last rotation | SIGHUP rotation, restart, sign, verify | tokens that are out during a rotation |
| Key store (`backends/filesystem/keystore.py`, `routes/keys.py`) | keys in memory, `keys.json` | setup, create, revoke, rotate, load, save | memory and file differ after a failed save |
| Sends and broadcasts (`send_init.py`, `routes/uploads.py`, `routes/agents.py`, `auth/manifest_validation.py`, `limits.py`, the send and broadcast tools of `mcp_server.py`) | none on the server: the upload token carries the session | phase 1 checks and signs, phase 2 (inline or batch) compares and writes; broadcast deletes and writes in every visible inbox | what phase 1 saw has changed by phase 2 (keys, limits, the inbox); a fan-out that fails for some |
| TTL cleanup and its lease (`app.py`, the leases of `backends/filesystem/storage.py`) | a flock, a dictionary of leases, the loop of every process | acquire, pass, release, shutdown | several processes over one directory; failing calls; cancellation |
| Access policy, rate limiter, aliases, configuration, CLI, logging | little or none | | see *Not modelled* |

How they interact: *send-init* signs an upload token; the *upload* endpoint (or
`send_inline`) verifies it and writes through a `FilesystemBundleWriter`; the
commit of `meta.json` makes the bundle visible in the inbox. *pick* of a large
bundle issues a claim and a download token; the *download* endpoint verifies the
token with the *JWT slots*, streams a file and afterwards records it in the claim;
the last file deletes bundle and claim. The *reaper* completes or releases claims
that are overdue and removes directories without `meta.json`; the *TTL cleanup*
removes expired bundles. All share the directory tree, and nothing else: there is
no lock between them besides the claim's lock file.

A server process has one event loop, and no filesystem backend awaits
anything, so a handler is atomic except where it really suspends: at the body of a
download, the chunks of an upload, the parser thread. That is what decides how
handlers are cut into actions.

## Modules

**`InboxClaims`** is one inbox. `bundle` is what `read_bundle_meta` finds at each
path, `lock` and `claim` are the files of `FilesystemClaimStorage`, `token` the
credentials clients hold, `stream` the downloads in progress. A download is two
actions: `OpenDownload` (all of `download_file`) and `FinishDownload` (all of
`_post_stream_claim_accounting`), or `AbortDownload` in its place. `Sweep` is a pass of
`sweep_claims`, `TTLCleanup` one of `_ttl_cleanup_loop`. A `delete_bundle` that raises
is `FinishFails` in the accounting (which then skips the settlement) and the set `F` of
claims in a sweep (which settles them all the same). `Crash` adds the ends of
the process inside `issue`, the accounting and the sweep, each with the files it
leaves. History variables and fields say what the code does not record:
`claim.own` (the names streamed under a claim, each with the bundle it came from),
`lost` (completions that removed a bundle not streamed from) and `bundle.kept` (the
reaper settled a claim on the bundle and could not delete it).

**`UploadBridge`** is one `POST /upload`: handler, pump and parser thread. The
blocking `Queue.put` on the event loop is the state `pump = "feed"` or `"close"`,
in which nothing that needs the loop is enabled. What the archive contains is a
free choice of the parser's next step. The model begins with an accepted token:
`Open` is `open_bundle_write` and the start of pump and thread, `Refused` the 409.
Seen from the disk the three actors are one writer of `BundleDirs` (`Tree`, `WriterOf`,
`ImplementsWriter`): open, write each file once, then commit all or abort, which is
what `BundleDirs` takes for granted of every upload.

**`Mailbox`** is what an inbox promises about a large bundle, without files: a
pick gives one reader an exclusive hold on a path, the hold lasts `HoldTTL` unless
all of the bundle was handed over, and consumes the bundle it was given for only
then. It says what can happen to one path (`Arrives`, `Taken`, `HandedOver`, `Settled`,
`Goes`, `Lapses`, `Ages`, and `CutShort` for a server that fails or dies between consuming
the bundle and ending the hold), and composes the paths:
requests are about one, housekeeping and time about all. `InboxClaims` implements
it (`MBox`, `MHeld`, `ImplementsMailbox`): the hold on
a path is the lock file together with the sidecar it names, what was handed over are
the names in `claim.own` that came from the claimed bundle. With crashes the same is stated path by path (`PathPromise`), for every
path on which no sidecar has lost its lock (`NoOrphanClaim`). A
bundle that came in place of the held one is not protected, since the code does not
compare bundle ids (run `claims_replaced`).

**`BundleDirs`** is the directory tree of a namespace. Directories have files, a
`meta.json`, and an age since their last change; `MakeDir`, `Remove`, `RemoveNested`,
`AddFile` and `AddMeta` are the system calls, including what they do to a parent's
mtime. File names in `Nested` lie in a subdirectory of the bundle, which changes
what `_looks_like_bundle_dir`, `list_bundles` and the reaper make of it.
`CutOff` is an `rmtree` that stops at any point, for any set of files and
directories that is gone by then: in a crash (`CrashInRemove`), with an error that ends
the request or is logged by the reaper (`RemoveFails`), or unnoticed in an abort, whose
`rmtree` ignores errors (`AbortFails`). Three history variables say when somebody got in
the way of an upload, which the code does not notice: `hurt` (uploads in progress whose
directory was removed under them), `torn` (paths whose bundle such an upload
committed, or whose removal was cut off) and `crossed` (some upload was hurt,
or a bundle was opened below an upload in progress or below files the collision
check does not recognise). `MCBundleDirs` gives the instance a tree.

**`CleanupLease`** is `_ttl_cleanup_loop` in several processes with one storage root,
and the filesystem lease: a flock that the kernel gives up with the process, and
the dictionary `_leases`. `ttl_seconds` is ignored by this backend, and the renewal
task never runs, since a pass does not suspend before it cancels that task; hence
there is no expiry and no renewal in the model. Reading a `meta.json` and deleting
the bundle are two actions, since another process may act in between. `Fault`
bounds failing calls, crashes and shutdowns. `Ends` is the end of a process,
`Cancel` and `CancelLost` what the shutdown does to a loop that sleeps and to one
that awaits its renewal task (it swallows the cancellation).

**`Delivery`** is how bundles get into inboxes: `SendInit` (all of
`prepare_send_init`, by REST or MCP), then `SendInline`, or `BeginUpload` and
`CommitUpload` or `AbortUpload`; and `Broadcast`, the whole handler. Keys are revoked and
created, limits change with a `Restart`, bundles are taken and directories reaped
between the phases. A session is what its token says. Whom a sender sees and may write
to is a free choice in `Broadcast`, and so are the writes that fail (`bad`) and those of
them whose old bundle survived (`kept`). There is one bundle path per inbox.

**`ManifestNames`** has the check of a manifest's names: a name is a sequence of
character codes, `Before` Python's order, `Neighbours` the pairs the loop compares,
`Collide` what the loop looks for, `Intervenes` the case it does not see.
`MCDelivery` gives the two an instance.

**`JwtRotation`** has the key file, the key of the process start (`boot`), the two
slots, and the unexpired tokens with the key they were signed with. The operator may
change the key file and the secondary of the next start (`second`) at any time and in any
way. `Restart` is a start after a shutdown or a crash: both slots come from the
configuration, nothing of an earlier rotation stays (`init_jwt_key_slots`). The history
field `dropped` marks tokens whose key the last restart did not find there.

**`KeyStore`** has memory and file of `FileKeyStore`; each operation takes the
outcome of its save (`saved`, `failed`, `torn`) as a parameter, and the process may
stop at any time, also inside a write. A torn `keys.json` keeps the server from
starting, which is why the run does not look for deadlocks.

The modules do not share variables: each abstracts the others to the steps that
reach it (a delivered bundle in `InboxClaims` is a `Commit` or `Send` of
`BundleDirs`; an `Open` ... `Commit` in `BundleDirs` is one run of `UploadBridge`;
`BeginUpload` ... `CommitUpload` in `Delivery` is the same upload, with the checks around
it).
The definitions named `...NoExcl`, `...Unchecked` and so on, each announced as a
faulty variant, are not used by any specification: they are the bugs each property
is tested against (`mutants` in `PROJECT.json`).

## Runs

| Run | Shows |
|---|---|
| `claims` | no crashes: exclusive claims, tokens within claims; locks are released, bundles leave; the inbox implements `Mailbox` |
| `claims_crash` | with crashes the claimed bundle is still not lost, a completely fetched bundle is consumed although the process died or the delete failed in between (unless the reaper's own delete fails), a lock that a claim leads to goes away, and every path without an orphaned claim keeps the promise of `Mailbox` |
| `claims_replaced` | *violated*: a bundle that replaced the claimed one during a download is deleted, although no file of it was streamed |
| `upload` | failures leave nothing behind, commits are complete, every step leaves less to do and nothing but a clogged queue stops a request, the whole implements the writer of `BundleDirs`, small bodies are always answered |
| `upload_backpressure` | *violated*: the event loop can block for good |
| `dirs` | a committed bundle is whole unless `torn`; until something is `crossed`, committed bundles are visible, and stay until somebody asks to remove or replace them or a directory they lie in, and what dead uploads and cut-off removals left is swept |
| `dirs_reaped` | *violated*: the reaper removes a committed bundle below a directory without `meta.json` |
| `lease` | one cleanup pass at a time, over all processes; a pass removes a bundle it did not judge only if a handler had removed the judged one; expired bundles go; a shutdown ends |
| `delivery` | bundles are within the limits they were admitted under, no token of a revoked label is accepted after `upload_token_ttl`, phase 2 can complete what phase 1 accepted, a broadcast's answer is true |
| `jwt` | tokens survive one change of the primary key, unless a restart finds their key nowhere |
| `jwt_sign` | *violated*: a token issued in the overlap after a SIGHUP rotation is rejected when the overlap ends |
| `keystore` | one key per label, revocations final, issued keys work, one setup |

The violated runs state what a comment or a document of the repository says;
`findings` in `PROJECT.json` quotes it. In short: completion of a claim does not
compare bundle ids; the upload queue blocks the loop its consumer waits for; the
reaper does not look below a directory it takes for an orphan; tokens are signed with
the key of the process start, not with the slot a rotation fills.

### What the properties exempt, and what that tells about the code

The properties of the passing runs hold of everything the models do, within the limits
given under *Not modelled*. Where a property names an exception, the exception is a
behaviour the models have, that the property does not catch, and that a reader should
know of:

- `torn`: an upload whose directory a delete, a broadcast or the reaper (after
  `passive_gc_min_age` of silence) removed goes on, makes the directory again, and
  commits a `meta.json` that names files which are no longer there: `commit` asks the
  writer's memory. A crash or an error inside `rmtree` can leave `meta.json` without
  its files.
- `crossed`: a bundle opened below an upload that has no file yet (or only nested
  ones) is hidden by that upload's later files and goes with it.
- `CommittedStays` forbids nothing to a request to delete or replace a directory, for
  the bundles in that directory. An MCP put and the broadcasts remove them all
  (`Replace`), before the collision check could answer with a conflict, as it does for
  `PUT /files`; the MCP tool's description says "Overwrites are rejected".
- `kept`: when `delete_bundle` raises in the reaper, the claim is settled all the same. The
  bundle, delivered completely, is listed and can be picked again; without a
  `default_ttl` it stays.
- `dropped`: a restart takes both slots from the configuration. After a SIGHUP rotation
  a crash or a plain restart rejects every token of the demoted key, unless the
  operator has made it the configured secondary by then.
- Revocation: an upload whose token was accepted in time may commit at any later time;
  `RevokedStops` is about the acceptance of tokens.
- Files are what makes a leftover visible: an upload that died before its first file
  leaves an empty directory that no sweep removes and that refuses its path to
  every later upload (`OrphanSwept` is about directories with files).
- `NoOrphanClaim`: a crash between the two unlinks of a settlement (lock, then sidecar)
  leaves a sidecar without a lock. The path can be picked again, and when the reaper
  settles the old claim it unlinks the new one's lock: that hold is not exclusive.
  `PathPromise` says that nothing else costs a hold, and `ClaimedBundleNotLost` that the
  bundle survives even this.
- A crash inside `issue` after the lock file and before the sidecar leaves a lock that no
  sweep finds; `HeldLockReleased` is about locks that a claim leads to.
- `Hopeless`: sends that phase 1 accepts and nothing can complete. An empty manifest; a
  negative size; with no `per_file_max` set, a file above the upload's fallback of
  100 MiB; names that collide with another one sorted between them, such as `a`, `a-b`,
  `a/c`, although the validation promises that "no entry is a strict path prefix of
  another". A manifest of `a` and `a-b` alone is not among them.
- `Jammed`: an exception of `acquire_lease` is outside the loop's `try` and ends the
  loop; a failed `LOCK_UN` skips `os.close`, and the open file keeps the lock until
  its process ends.
- `hung`: a shutdown that cancels the loop while it awaits the renewal task waits for ever.
- A broadcast deletes before it writes: an inbox reported as failed may have lost its
  old bundle, and content that cannot be stored empties every inbox it reaches.
- A token is good until it expires: the same inline send can be repeated after the
  recipient picked the first one.

### Bounds

- `InboxClaims`: one path, two files, two token identifiers, two downloads, two
  bundles. Claims of different paths share no state but `latest`; two bundles are
  enough for a replacement, two identifiers for a re-pick while an old download
  runs, two files for a partly fetched bundle. An identifier is used again only
  when no trace of it is left. `ClaimTTL = 2`, so that the truncated token lifetime
  (`ClaimTTL - 1`) still allows downloads; `DefaultTTL = 1` expires a bundle during a claim, `0`
  (crash run) never does. Ages saturate where comparisons stop changing.
- `UploadBridge`: the code's queue size 8, bodies of up to 10 chunks (both sides
  of every boundary at 7, 8 and 9), two files.
- `BundleDirs`: a directory and one below it, a flat and a nested file name, an
  upload beside the inline writers, which open and write below and above it and in its
  place; `MinAge = 2` leaves room for a tick between two writes. Two uploads at a time in
  a chain of two directories always cross, and then only `CommittedWhole` says something;
  it is proved for any number of uploads (`BundlesWhole`). `dirs_reaped` has two.
- `CleanupLease`: two processes, one path, two bundles (the expired one and the one
  that comes in its place), three faults: enough for a failed release, a crash and a
  shutdown in one behaviour.
- `Delivery`: two labels and the operator, one session (sessions meet in the
  inbox only, and broadcasts, picks and the reaper change it as another session
  would), seven manifests (empty, one file below and above each limit, two
  files, a negative size, a collision found and one missed), two sets of limits, one
  of them without `per_file_max`; `UploadTTL = 2`. The labels are interchangeable and
  the run has no liveness property, so the symmetry is sound. The view leaves out
  `report`, which no action reads; `BroadcastTruthful` is about steps, and TLC evaluates it
  on every step it generates. Recipients without a key (`Bare`) are left to the proofs.
- `JwtRotation`: three keys, so that a token can see two rotations, each also as the
  secondary of the next start; two tokens;
  `OverlapTTL = TokenTTL`, the smallest overlap the documentation allows.
- `KeyStore`: two labels, three keys: create, rotate, and one more.

### Fairness

- `InboxClaims`: time passes and both loops keep running (`LoopFairness`): they are
  `while True` with a sleep and catch what a pass raises. Nothing is assumed of
  clients: downloads may hang for ever, senders may stop. The passes are fair
  only weakly; nothing disables an overdue claim but the sweep or its completion.
  A sweep whose deletes fail is a sweep too. A TTL pass whose delete fails changes nothing
  and is no step: `BundleLeaves` assumes that some pass succeeds.
- `UploadBridge`: event loop and thread run when they can, and the client's body
  ends at some time, or its connection does (`WF(Client)`; bodies are bounded).
- `BundleDirs`: time passes and the reaper keeps running, both weakly, so that in the
  end a pass removes what it finds; removals may fail (`RemoveFails`) before that. Uploads
  may stay open for ever.
- `CleanupLease`: the loop of a process that is up goes on (weak, per process), and
  the shutdown coroutine gets its turn whenever the loop sleeps or awaits, again and
  again (strong). Faults, handlers and restarts are not fair; a process may stay down.
- `Delivery`, `JwtRotation` and `KeyStore` state safety only.

## Theorems

For every value of the constants, from the named assumptions on them only:

| Module | Theorem | Says |
|---|---|---|
| `InboxClaimsProofs` | `TypeCorrect`, `SpecTypeCorrect` | `TypeOK`, with and without crashes |
| | `Exclusive` | `ClaimsExclusive`, without crashes |
| | `HiddenBundlesHeld` | `HiddenIsHeld`, without crashes: a bundle the listing hides is under a lock (no run of its own, it follows from `ClaimsExclusive`) |
| | `TokensWithinClaims` | `TokenWithinClaim`, with crashes |
| | `NoClaimedBundleLost` | `ClaimedBundleNotLost`, with crashes |
| | `MailboxImplemented` | `ImplementsMailbox`, without crashes |
| | `PromiseKeptThroughCrashes` | `PathPromise`, with crashes |
| `BundleDirsProofs` | `TypeCorrect`, `BundlesWhole`, `BundlesListed`, `BundlesStay` | `TypeOK`, `CommittedWhole`, `CommittedListed`, `CommittedStays`, for any tree |
| `CleanupLeaseProofs` | `TypeCorrect`, `SweepersExclude`, `FreshBundlesSpared` | the three invariants of the run |
| `DeliveryProofs` | `TypeCorrect`, `BundlesWithinCaps`, `RevocationTakesEffect`, `AcceptedSendsComplete`, `BroadcastsTruthful` | the four invariants and the action property of the run |
| `ManifestNamesProofs` | `NeighboursSuffice` | for every finite set of names, comparing neighbours finds every collision, or some name intervenes |
| | `NeighboursExact` | where no name intervenes, `ValidNames` accepts exactly the sets without collision and without `meta.json` |
| | `SortedIsUnique` | `Before` is a strict total order, so "neighbours" does not depend on the sort |
| `UploadBridgeProofs` | `TypeCorrect`, `FailureRollsBack`, `CommitsComplete`, `SmallBodiesNeverBlock` | the first four invariants of the run |
| | `EveryStepRunsOut`, `OnlyClogStops` | `RunsOut`, `StuckOnlyClogged`: finitely many steps, and one deadlock |
| | `WriterImplemented` | `ImplementsWriter` |
| `JwtRotationProofs` | `TypeCorrect`, `TokensSurviveRotation` | the two invariants of the run |
| `KeyStoreProofs` | `TypeCorrect`, `LabelsUnique`, `RevocationsHold`, `IssuedKeysKept`, `SetupAtMostOnce` | the five invariants of the run |

The inductive invariants, and why each is needed:

- `ClaimsExclusive` is inductive with `TypeOK`. The step that needs it most is
  the completion: it unlinks the lock of the claim's path, and only because that
  lock names this very claim does no other claim lose it. With crashes it is false.
- `NoClaimedBundleLost` needs `LossInv`: where the names in a claim's
  `files_fetched` came from. Bundle ids grow (`IdsKnown`), so a claim's bundle, once
  gone from its path, never returns; token, stream and claim agree on the path
  (`TokensMatch`, `StreamsMatch`); hence, while the claimed bundle is there, every
  download under the claim reads it and captured its manifest (`StreamsRead`), and
  every recorded name was streamed from it (`FetchedOwn`). A sweep whose delete fails
  leaves id and files of the bundle alone (`SweptBundle`). None of this depends on
  locks, which is why the theorem holds with crashes, where two claims on one path
  are possible.
- `MailboxImplemented` needs both: exclusiveness makes the hold of a path the claim
  of its lock, and `LossInv` turns "all names recorded" into "all of the bundle handed
  over". Each action of `InboxClaims` is shown to be an action of `Mailbox` or a
  stutter; the sweeps and the TTL pass are `Housekeeping`, path by path.
- `PromiseKeptThroughCrashes` has only `LocksOwn` (a lock leads to a claim of its own
  path) and `LossInv`, which hold with crashes, and `NoOrphanClaim` of the path as
  its hypothesis, in place of exclusiveness. The lemmas per action (`PickStep`,
  `AccountStep`, `SweepStep`, ...) ask for no more than this of a path and serve both
  theorems; without crashes `ClaimsExclusive` gives it for all paths at once.
- `BundleDirs`: `WholeInv` adds to `CommittedWhole` that parents of what exists exist
  (`Closed`) and that an upload that was not hurt has on disk what its writer
  remembers (`Safe`). `Untangled` adds, until something is `crossed`, that nothing lies
  below a directory with files or below one that an upload is to fill, and that uploads
  do not share a directory (`NoNesting`, `Alone`); visibility and permanence follow from it.
  A removal that stops half-way keeps parents before children and takes nothing outside
  its tree (`CutOffFacts`, `CutOffKeeps`), whoever began it.
- `CleanupLease`: a process in a pass owns the flock (`Owned`), so two of them
  are one; a pass's target is still at its path or a handler removed it (`Judged`).
- `Delivery`: a session passed the checks under the limits it records (`Admitted`), and so did
  every bundle (`AdmittedBundles`); an active label has not been revoked for any time
  (`Present`). `RevokedStops` needs `Wanes`: a token's remaining life and the time
  its labels have been revoked add up to at most `upload_token_ttl`, since phase 1
  only names labels that are active. `AcceptedSendsComplete` cites `NeighboursSuffice`.
- `NeighboursExact` is the other half: neighbours that collide are a collision.
  `SortedIsUnique` takes the first position at which two names differ (`LeastNat`).
- `NeighboursSuffice`: of the names inside x take one with the fewest names between
  x and it (`WFMin`, over the finite sets). If something is still between, it begins
  with x, and then it is inside x with fewer names in between, or intervenes.
- `UploadBridge` needs `HandlerInv` (what the handler's state says about the
  worker's, the pump's and the directory's: no `write_file` is pending once the
  thread is over) and `QueueInv` (a put that blocks means that at least `QueueSize`
  chunks were sent, since the sentinel comes last; the queue is closed exactly when
  the pump is done, and nobody reads behind the sentinel). `Left` is the variant: four for
  each chunk still to come, two for each in the queue and each file not written,
  and what the states of the actors add; every step lowers it (`LeftFalls`, action by
  action). `OnlyClogStops` goes through the handler's states. The two together are the
  safety half of `SmallBodyAnswered`: an upload takes finitely many steps and, below
  `QueueSize` chunks, does not stop before the answer.
- `WriterImplemented` rests on `HandlerInv`: while the writer is open the directory is
  partial, before and after there is none, so that `Tree` and `WriterOf` change together.
- `BundlesWithinCaps` compares a sum with a limit, so the sum has to be a number. `SumIsInt`
  proves it of the library's fold: its recursion has a solution over a finite domain
  (`SumExists`, from k elements to k + 1), and a smallest subset with a sum that is
  not a number cannot be.
- `TokensSurviveRotation` needs `HeldInv`: the key of a token that has seen one
  change is the primary or, unless `dropped`, the secondary, and in the second case no
  rotation has happened since the start or the time since it and the token's remaining
  time add up to at most `TokenTTL`.
- `KeyStore` needs `StoreInv`: `Sound` of memory and of the file separately, since
  after a failed save they differ; the histories move only when the file does.

Only model-checked: all liveness (`LockReleased`, `BundleLeaves`, `FetchedConsumed`,
`HeldLockReleased`, `SmallBodyAnswered`, `OrphanSwept`, `ExpiredGoes`, `ShutdownEnds`),
which is outside what the prover does. Where a proof needs an induction it takes a
least counterexample (`WFMin`), as the library's induction theorems cannot be used.
That the conditions `ClientCan`, `PumpCan`, `WorkerCan` and `HandlerCan` in `StuckOnlyClogged` are
those of the actions is by their reading: `ENABLED` is out of the prover's reach.

## Not modelled

- The moving window of the rate limiter (state and clock are the `limits` library's),
  and the access policy, identities and aliases beyond what `Delivery` says of them:
  they only refuse. The models permit everything, or choose freely.
- The validation of a single path (a regular expression), the capabilities document,
  envelopes, MIME types, logging, metrics, the parsing of environment variables, the
  CLI clients. They compute or print and keep no state.
- The object API of the storage backend (`put`, `get`, `list`): nothing in the server
  calls it.
- In `InboxClaims` the size that decides between inline and reference is the
  bundle's `ref` flag.
- Answers of the read routes. `pick latest` answers 404 while the newest bundle is
  claimed although older ones are free; the model has the refusal, no property.
- Several processes in other parts than the cleanup: the repository provides a lease
  for that loop only.
- A sidecar or `meta.json` that cannot be read for other reasons than a crash.
- What a failed `rmtree` leaves of a bundle's files is the subject of `BundleDirs`;
  `InboxClaims` only asks whether `meta.json` is still there. `UploadBridge` ends a failed
  upload with the `rmtree` that succeeds; `AbortFails` is the other outcome.
- In a pass of the reaper over several orphans either all removals succeed (`Sweep`) or
  one of them fails (`RemoveFails`, and the rest in the next pass).

## Plan

1. *(done)* `InboxClaims` with crashes, `UploadBridge`, `BundleDirs`, `JwtRotation`,
   `KeyStore`, their runs and proofs.
2. *(done)* `BundleDirs` with nested names and cut-off removals, and its proofs;
   `Mailbox` and the refinement; `CleanupLease`; `ManifestNames` and `Delivery`, with
   their proofs.
3. *(done)* The promise of `Mailbox` through crashes; the upload as the writer of
   `BundleDirs`; termination and the only deadlock of an upload; the order of names; the sum
   of a manifest without an assumption.
4. Left: two bundle paths in `Delivery`, which needs a smaller set of manifests to stay
   in reach; `Delivery`'s inboxes as those of `InboxClaims`.
