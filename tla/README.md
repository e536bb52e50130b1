# VQLab in TLA+

VQLab compresses language models on one to a few Apple-silicon machines. Much
of it is numerical code; around the numbers is everything this directory
models. Many processes on one box want one GPU; queues of hour-long steps are
stopped, killed and resumed; agents launch jobs through MCP servers; fitters
and builders keep their work in folders that other folders link into, and die
between two files; gates vouch for files that somebody rebuilds meanwhile;
kernels cut codes out of packed words under barriers; a speculative decode loop
must leave no trace of the drafts it drops. The models are checked with TLC,
and what matters most of them is proved with TLAPS.

Paths below are relative to the package, `src/vqlab/`, unless they start with
`tests/` or `docs/`. `PROJECT.json` maps every definition to the lines it
stands for, and lists the runs, mutants, findings, hazards and theorems.

- [The system](#the-system)
- [The modules](#the-modules)
- [What the runs show](#what-the-runs-show)
- [What is proved](#what-is-proved)
- [Where the code and its words disagree](#where-the-code-and-its-words-disagree)
- [What is not modelled](#what-is-not-modelled)
- [Plan](#plan)
- [Running it](#running-it)

## The system

### Components, their state and who touches it

Coordination between processes and machines:

| Component | State | Operations | Hard behaviour |
|---|---|---|---|
| GPU lease, `core/box/gpu_lease.py` | one file: its flock and the holder's JSON | `acquire_lease`, `release_lease`, `lease_holder` | polling against a deadline; a stamp rewritten in place; probes that lock for an instant; holders that die |
| Queue runner, `queue/runner.py`, `queue/files.py`, `queue/steps.py`, `queue/report.py` | `state.json` and `runner.pid` per queue, a pinned worktree, outputs, one process per step | `run`, `--resume`, `--detach`, `--preflight`, `stop`, `wait` | SIGTERM at any line, SIGKILL, step processes that outlive the runner, a detaching parent that saves late, two runners of one queue |
| MCP runs, `ops/runs.py`, `ops/supervisor.py`, `bench/box_quiet.py` | `meta.json` per run, a supervisor and a job process | `launch`, `stop`, `status`, `list_runs` | three processes write one file from separate copies, by truncating it; signals; retries; a guard that asks for the lease its own parent holds |
| Findings log, `ops/findings.py` | an append-only file, one lock file per reserved number | `next_f_number`, `findings_append`, `release_f_number` | reads and creations of several sessions interleave; locks expire after six hours; sessions die |
| Jobs page, `agents/jobs.py` | one-use tokens, starts under way | plan, start, resume | a page that acts on what it read; a CLI given up on that goes on |
| Downloads, `agents/downloads.py`, `agents/_fetch.py` | `downloads.json`, the child's flock, its exit file | start, stop, list | several server threads; restarts; a stop that meets a completion |
| Reservations, `queue/reserve.py`, `queue/remote.py` | a shared and a local JSON file | reserve, release, launch on another box | check before lock; two names of a box; a drive that comes and goes |
| Validation queue, `queue/validate.py` | one JSON list | add, run, clear-done | a run that saves the list it loaded hours before |
| Locations and settings, `config.py`, `agents/first_run.py`, `agents/config_cmd.py`, `agents/settings.py` | the config file's `[paths]`, the temporary file of a set, what an older install left, `$VQLAB_*` | first run, `config set`, `init`, the Settings page, portable names in records | one temporary file for all writers; a table read once per process; defaults that follow the lab folder |
| Model scan, `agents/model_scan.py`; onboarding, `agents/teachers.py`, `agents/onboard.py` | an index; `onboard.json`, runs, two caches | scan, profile; a driver called again and again | scans beside scans; a command killed between launch and save |

Making and shipping an artifact:

| Component | State | Operations | Hard behaviour |
|---|---|---|---|
| Recipe compiler, `plan/recipe_queue.py` | none; compiled queues | compile | a chain must close for every family and option, in the preflight too |
| Fitters, `fit/fit_moe.py`, `fit/geo_build.py`, `fit/reselect.py` | shards, parts, ledgers, records in folders that outlive a run | fit, resume, assemble | torn files, parts of other flags, work filed too late |
| Fit store, `core/source/fit_store.py`, `fit/fits.py` | data files, sidecars, an index | put, file, index, retag, reindex | several commands append while one rebuilds |
| Builders, `build/`, `bundle/`, `gate/pin.py` | an artifact's files, many of them links | thirteen in-place and deriving tools, the pin | tools killed between two files, folders that link into each other |
| Bundles, `bundle/`, `gate/check_bundle.py` | the runtime text and the defaults baked into it | bundle, rebundle, check, the page's kept verdicts | a repository that moves on, certified old revisions, caches by mtime |
| Skip-zero, `skipzero/` | artifacts with rows left out | sz-pack, sz-resident, checks | packs on packs, refits of packs, new bundles |
| Build records, `records/provenance.py` | a record, its history, the config | record, amend, `--portable`, verify | three files under ids that children hold |
| Scratch survey, `agents/scratch.py` | none; reads everything | survey | evidence that is itself about to be deleted |
| Release gate, `gate/check_release.py`, `ship/publish.py` | none; reads an artifact for minutes | check, publish | files rebuilt under it |

Running and measuring it:

| Component | State | Operations | Hard behaviour |
|---|---|---|---|
| Packed codes and kernels, `runtime/vq_pack.py`, `runtime/vq_switch.py`, `runtime/vq_dense.py` | threadgroup memory, registers | six readers of a code; the decode and prefill kernels | shifts at word ends, barriers and early returns |
| The host side of them | plans, routings, tiles and weights remembered between calls | one call of a layer | a remembered thing that serves another call |
| Speculative decoding, `mtp/loop.py`, `mtp/caches.py`, `mtp/capture.py`, `mtp/sampling.py` | attention, recurrent and head caches, the captured hidden state | `mtp_stream_generate` | two kinds of cache roll back by different means; a caller may stop at any yield |
| KL instrument, `score/kl_ladder.py`, `score/kl_pair.py` | teacher passes, arrays, records, an index | build, score, resume, pair | models, teachers and packages that change between two rungs |
| Streamed scorers, `score/stream_score.py`, `score/referee/`, `score/score_tasks_streaming.py` | one block at a time, its caches, padded buckets | score | chunks, n-gram ids across chunks, rows summed by owner |

`PROJECT.json` names all 28 components with their files and says of each what is
modelled, and why the rest is not.

### How they interact

- The **GPU lease** is the one thing every GPU user shares. A queue runner
  holds it for the length of its drain, an MCP supervisor from before its
  first attempt to after its last. `runs._refuse` and `box_quiet.guard` only
  probe it. Holding it does not tie the job's process to the holder: step and
  job processes run in sessions of their own.
- The **Jobs page and the CLI** start queue runners, and find them again
  through `state.json` and `runner.pid`; **reservations** refuse a start.
- An **MCP server** starts supervisors and writes beside them in `meta.json`.
- **Servers and CLIs of several sessions** share the findings log's folder.
- The **recipe compiler** writes queue files; their steps call **fitters**,
  **builders**, **gates** and **scorers**, which meet in artifact folders. A
  preflight runs the same chain with every output moved aside.
- Fitters file what they fit in the **fit store**; the **scratch survey** trusts
  the store, the build records and the caches' registry.
- A **bundle** is the runtime's text in the artifact: what `runtime/` is that
  day. The serving adapter (`ship/serve.py`) runs it, and calls the decode
  loop with a cache and processors of mlx-lm's server.

### What makes each component correct

- Lease: tenants take turns on the GPU; the file names its holder; a wait ends.
- Queue: steps run in order; a pass is never lost or redone; `passed` means
  all of it; the tree outlives the work; a runner ends and gives the lease back.
- MCP runs: jobs nobody stopped never share the GPU; what is recorded is true.
- Findings: no two sessions hold one number; no number is burnt.
- Pages: a confirmation starts one queue; a download is `done` when it is whole;
  the index lists what is there.
- Settings: none is lost, records find what they name, nothing moves a location
  that nobody set.
- Compiler: every chain finds its inputs, in the preflight too, and what was
  checked is what is pinned.
- Fitters and store: a finished build is what was asked for, whatever died on
  the way; no fit is lost.
- Folders: index, shards, config and record of a finished folder agree; a
  tool in a derived folder leaves its source alone; what is deleted is elsewhere.
- Gates: a pass means what it says of what is uploaded; a verdict is true.
- Runtime: codes, products and rows do not depend on reader, thread order,
  kernel, earlier calls, skip-zero history or streaming.
- Decoding: what is emitted is what the trunk alone would emit; nothing of a
  dropped draft stays in any cache.
- Scores: a recorded number is of the model, teacher and build it says.

## The modules

| Module | Models | Extends / uses |
|---|---|---|
| `GpuTurns` | abstract: tenants take turns, only a killed one leaves a job behind | |
| `GpuLease` | the flock, the stamp, polling, probing, death | instance of `GpuTurns` |
| `QueueRunner` | one queue directory and all its runners | |
| `McpRuns` | run directories, launchers, supervisors, stoppers, jobs | shown to implement `GpuTurns` |
| `FindingsLog` | the log, the lock folder, sessions | |
| `Reservations`, `ValidateQueue`, `Downloads`, `GuiStarts`, `ModelScan`, `Onboard` | one store of one file or folder each, and the processes at it | |
| `FitStore` | data, sidecars and index, and the commands at them | |
| `Release`, `Bundles` | the gate under edits; the runtime text, its certified revisions and kept verdicts | |
| `KlLadder` | teacher passes, rungs, records, resumes and pairings | |
| `Locations` | the table of places, its writers and readers, portable names | |
| `RecipeChain` | a step's arguments, redirection and validation, and the compiler, as operators | |
| `RecipeRun` | a compiled chain run on files, as preflight and for real | `RecipeChain` |
| `FitMoe`, `GeoBuild`, `Reselect` | fitters and the folders they resume from | |
| `ArtifactDirs` | thirteen tools and the pin on an artifact, a derived folder and a donor | |
| `Provenance` | the build record and its history | |
| `Scratch` | the survey and what its `rm` lines delete | |
| `PackedRow` | the packed row and its readers, bit by bit; the walk | |
| `Threadgroup` | threads, barriers, early returns | |
| `FusedKernel`, `GemmSeg` | the decode kernels; the prefill kernel | `Threadgroup` |
| `VqSwitch`, `DenseHost` | which kernel serves a call and what is remembered; dense layers | |
| `SkipZero` | packs, loaders, refits and bundles of artifacts without dead rows | |
| `StreamedPass`, `TaskScores` | block-by-block scoring against the resident model; tasks by owner | |
| `PlainDecode` | abstract: one token at a time from the trunk | |
| `MtpDecode` | one generation of the drafting loop | instance of `PlainDecode` |
| `GpuLeaseProofs`, `QueueRunnerProofs`, `McpRunsProofs` | theorems | their module and TLAPS |
| `KeepingProofs` | lemmas about two parts of `MCLocalStores`: fit store and settings | `MCLocalStores` and TLAPS |
| `LocalStoresProofs` | lemmas about the other parts, theorems about all of them | `KeepingProofs` |
| `BuildsProofs` | lemmas about six parts of `MCBuilds`, theorems | `MCBuilds` and TLAPS |
| `RuntimeProofs`, `PackedRowProofs` | lemmas about three parts of `MCRuntime`, theorems | `MCRuntime` and TLAPS |
| `MCLocalStores`, `MCBuilds`, `MCRuntime` | modules that share no state, side by side | instances |

Each module has its state as the variables, and one action for each stretch of
code between two points at which another process, a signal or a crash can make
a difference. Operators marked `Mutant:` are plausible bugs; `PROJECT.json`
says which property each of them breaks. They are not part of a specification.

The three modules at the end check many small components in one run. A
behaviour is one part's: the initial state chooses it, the parts take turns at
the variables `v1` to `v10`, and each property of the run is a conjunction of
implications, one for each part it speaks of. Nothing is lost by this, since
parts that are checked together share no file and no process; where components
do share one (`RecipeRun` uses `RecipeChain`, the kernels `Threadgroup`) their
modules extend each other.

### GpuLease and GpuTurns

`flock` is the kernel's lock, `stamp` the file's content, `pc` each process's
place in `acquire_lease` or `lease_holder`. `Open` creates the file without
truncating it; `TakeFlock`, `PollAgain` and `GiveUp` are the polling loop, with
`MaxPolls` for the attempts that fit before the deadline; `Truncate` and
`WriteStamp` are separate because a probe may read between them. `Die` is a
SIGKILL: the kernel drops the flock, the job goes on. A probe locks for an
instant and so may cost a waiting tenant one attempt.

`GpuTurns` is what the protocol is for. Under the mapping in `Turns`, opening,
polling, giving up, stamping and probing are stutters, `TakeFlock` is `Take`
and `Release` is `Give`.

### QueueRunner

A runner loads `state.json` once (`mem`), changes its copy and saves it whole
(`disk`), so two runners of one queue overwrite each other, as they do in the
code. `Places` follow `run` and `_drain`: wait for the lease, claim, then for
each step admit or refuse it, try it, register its process, judge it, record
the verdict. `Popen` and `Register` are apart because the signal handler looks
at `_stop["proc"]`. `Signal` runs the handler wherever the runner is, `Kill`
ends it and leaves its step alive. `ParentLoads` and `ParentSaves` are the two
halves of `_detach`; `GuiCheck` and `GuiResume` those of `jobs.resume`.

Data is cut to what the properties tell apart: a step is a number, its path
arguments are `Inputs`, its output is its membership in `products`; the pin,
exo placement and disk checks before a step are one action, `GateRefuses`,
that may happen or not.

### McpRuns

`meta` is the file, `mine` and `stopper` are the copies of supervisor and
stopper, the launcher's copy is fixed. `_write_meta` truncates and then
fills, so each write is two actions and a reader in between gets an empty
record. `AfterTerm` is the supervisor's handler: where SIGTERM takes it from each
place of `supervise`. `GuardRefuses` and `GuardPasses` are `box_quiet.guard`
in the job. `Resumable` are the runs of commands that may be tried again, and
`MaxRetries` bounds the retries a launch asks for.

### FindingsLog

A call reads the log, lists the locks, unlinks those it found stale or
published, creates its own with `O_EXCL` and, for an append, writes and
unlinks: each its own action. `Expire` lets six hours pass for one lock.
`expired` is a history variable, used to say which numbers a property speaks
of. Any lock may expire, that of a session still at its experiment too.

### Stores and pages: Reservations, ValidateQueue, Downloads, GuiStarts, ModelScan, Onboard, FitStore

These follow one pattern. The file is a variable, each process has a place and
a copy of what it read, and whatever the code does under its lock, or in one
atomic replace, is one action. What has no lock is as many actions as it has
reads and writes. `Killed`, `Dies`, `Restart` and the like end a process at any
place and keep its files.

- `Reservations`: `Check` is made before the lock is taken and `Write` after;
  `Remount` makes the shared folder come and go, and with it which file is
  written. A box answers to its configured name and its hostname.
- `ValidateQueue`: the list is a function from entries to their status, loaded
  and saved whole; `overlap` remembers
  whether commands did.
- `Downloads`: `fetch` is the child's place, `lockpid` what its file says,
  `rc` its exit file, which may be an older fetch's; `own` whether this server
  started it, which decides by what it is judged alive.
- `GuiStarts`: `Edit` changes the queue file between the page's reading and the
  CLI's; `Abandon` is the CLI killed after 120 seconds, at any of its steps.
- `ModelScan`: a scan walks the places one after the other while folders
  change; the server drops a scan asked for while one is at work, a command's
  scan it cannot see.
- `Onboard`: each call polls what runs, records, and launches what is due;
  `astray` says that a call died between launch and record.
- `FitStore`: `index`, `file`, `retag` and `reindex` load the index whole; `torn`
  and `overlap` remember which guarantees a history has forfeited.

### Locations

A place is a path, a sequence of names. `Raw` is the lookup of one key, in the
environment before the file; `Lab`, `Scratch`, `ModelsFolder`, `Teachers`,
`Records`, `FitStore`, `Roots` and `RunLog` are the functions of `config.py` of
a view: environment, table and what an older install left. A process reads the
table once (`read`) and again only after its own writes. A setting is three
actions: `Edit` (the lines as they are now and one key), `WriteTemp` (one file,
whoever writes) and `Replace`. `Walk`, `Enter` and `Answer` are `init` without
flags, which asks for one key after the other and shows where each was when it
began; `InitUnder` is `init --root`, `FirstRun` the first command of an install,
`Emptied` the end of an older install's data. `Record` names an artifact by
`Portable`, and `Resolve` finds it again. `kept` is the table the settings made
add up to, `recs` the records whose places nobody set anew, `strayed` what moved
a location or a run log otherwise.

### Release and Bundles

An artifact of `Release` is a set of flaws, each in a file and each visible to
some of the gate's checks. Stages see the files as they are when they
run, `Edit` rebuilds a file at any time, and `publish` compares two digests
around the gate. The same walk is taken by the three smoke arms.

In `Bundles` the repository's runtime moves on (`Land`, with a certification
that it gives the same output, or without), certifications are withdrawn, a
bundler reads the shipped text's defaults and writes the text in place, and a page
looks: it reads the text, judges it, and keeps the verdict under the files' times.

### KlLadder

`passes` are the teacher passes made, `cache` what the cache folder's files are
of (a killed rebuild mixes them), `arr` and `side` a rung's array and the
record beside it. `Edit` changes a model in place, `Upgrade` the installed
packages. `ScoresAreHonest` says which of the conclusions the records support.

A rung holds one of `Contents`, and `Looks` says what `measured` sees of each: the
name, size and first megabyte of every shard, and `model.py`. The ladder compares
looks, so a same-size edit past the first megabyte is no change to it, and neither
is a rung that was written and brought back before the end. `IndexNamesBytes`
therefore says that an indexed number was computed from weights that look like
those it is filed under, unless the rung looked otherwise at some time in between
(`away`, which no step reads, keeps those; it is copied to the line as `back`).
That they *are* the weights of the line is not so.

### RecipeChain, RecipeRun

A path is a sequence of parts, a step an optional command with pairs of flag
and path. `RecipeChain` gives, for each of the families' kinds and each mode,
the refusals and the chain of steps; `RecipeRun` runs it over `files`, which maps a
path to its provenance: the set of steps that made it and what went in. That is
enough to say that the pin holds everything the recipe asked for, and that the
checks before it looked at the same bytes.

### FitMoe, GeoBuild, Reselect

`FitMoe`: a shard is whole or truncated and has the geometry of its run's flags;
`config` is what the run writes at its end from what it finds. `GeoBuild`: a part
is `none`, `torn`, `fit` or `reuse`, and the ledger of origins is written after
it. `Reselect`: Gram matrices are of integers; codes are chosen by the code's
expanded form of the error, and compared with the least error by definition.

### ArtifactDirs, Provenance, Scratch

`ArtifactDirs` gives each of thirteen tools and the pin the list of files it writes, in its
order, with what it read when it began; `Step` writes the next, `Die` leaves it
there, and `owed` remembers which unfinished tool must be run again before
`FinishedAgrees` speaks of the folder. Links are part of a file's value, so that
writing through one changes another folder. What a tool may write through them
is `Through`: splice-ple copies a shard that is not there, and where the name is a
link that leads nowhere the copy lands in the source. Four tools before it make
such a link, more than the run starts; simulation showed it.

`Provenance` counts contents and ids; `sound` says that nothing but the tools
has touched the files. Record and history are written in place: `Die` may leave the
record torn, `DieInHistory` a build's line without its end, or of an amendment,
which empties the history and writes it again, any first part of it. The next
build writes on in a line without an end and spoils it (`Spoilt`); an amendment
ends it first (`Mended`). A build over a record it cannot read stops with its files
written (`Unreadable`), and `--portable` refuses such a record or line. `cut` says
that a kill hit a write of the history, or a `--portable` between two of its
writes: from then on `ChainIsWhole` promises nothing of the chain.

`Scratch` takes the survey's list at its word: all `rm` lines run at once. A folder
has bytes (`data`) and a version it looks like (`shown`); any folder may be edited
plainly or so that it does not show. The survey takes a source for what was packed
by its record's id and its shards' sizes and first megabytes, with `--full` too,
which reads every byte of the pack and none of the source. So the property
excepts sources in disguise (`Disguised`): of one that was edited where it does not
show, the only copy is listed and may go.

### PackedRow, Threadgroup, FusedKernel, GemmSeg

In `PackedRow` a bit is its address in the row, so reading code `j` right means
returning the addresses `bits*j` to `bits*j + bits - 1`, for whatever codes; shifts
drop and fill as the 32- and 64-bit words of the kernels do. The walk
(`Init`, `Next`) is a loop over a buffer, the other readers are operators.

A kernel is a list of instructions and `Threadgroup` runs it: any process may
take the next one, a barrier waits for every process that has not returned, and
a process that returns before one leaves it missing (`NobodyIsMissed`).
`FusedKernel` has one description of the decode kernels, with the
properties in which they differ (who owns a row, what is staged, how many
tokens share a threadgroup); shared memory starts as junk. `GemmSeg` has
the switches its source is compiled with.

### VqSwitch and DenseHost

`VqSwitch` is one call after another to one or two modules that share the process's
memos: launch plans by shape, sorted routings by identity and content, host
copies by address (an address is used again after its array has gone), expanded
weights by module. `DenseHost` counts what is decoded and not yet freed.

### SkipZero, StreamedPass, TaskScores

`SkipZero` keeps for each folder which rows are stored, which map and hook it
has, which runtime its bundle is, and `truth`, the rows as an omniscient reader
knows them. `StreamedPass` and `TaskScores` compute symbolically: a value is a
record of all it was made from, so two ways of computing give equal values exactly
when they use the same inputs in the same order.

### MtpDecode and PlainDecode

A cache is the sequence of tokens it has read. `attn` and `rec` stand for the two
kinds in a `make_cache()` list, kept apart because `restore` trims the one and
replaces the other; `rows` is what the last forward left for `get_h` and for
the logits. When the two caches hold different tokens `Logits` may be
anything, so drift shows in what is emitted.

A trunk answers a context with the set of tokens it may give. Greedy decoding
is the case of one token; at a temperature it is the support of the
distribution. `Accept` and `Reject` are then one rule for both: an accepted draft is
in the support, a replacement is in the support and is not the draft. That the
sampled verdict has exactly the right probabilities is left out. The head
proposes any token at all.

`held` is what a caller-supplied cache already holds, `copies` and `inplace`
what `mtp/registry.py` says of a family and what its architecture does;
`RequestAssumption` is what `check_snapshot_semantics` measures before a family
may go without copies.

`PlainDecode` is `plain_greedy` of `tests/test_mtp_loop.py` with mlx-lm's two
ways to end.

## What the runs show

| Run | Expectation | Bounds | Shows |
|---|---|---|---|
| `lease_turns` | pass | 3 tenants, 1 prober, 2 polls; 170 000 states | exclusion, the stamp, refinement of `GpuTurns`, every wait ends |
| `queue_single` | pass | 3 steps, 2 runner lives one after the other, signals and kills; 21 000 | order, worktree, passes, chain, outcome, termination |
| `queue_modes` | pass | 3 steps, a models-dir link, a skip, 2 runners; a crowd, a detaching parent, a preflight; 206 000 | the lease keeps GPU steps apart, a draining runner is the one `state.json` names, a preflight judges every step |
| `queue_stop_recorded` | violation | as `queue_single`, no kills | a stop between two steps |
| `mcp_pair` | pass | a build with one retry, a timed command, one stop each, another tenant; 399 000 | GPU exclusion, true outcomes, supervisors end |
| `mcp_guard` | violation | as `mcp_pair` | a timed command refuses itself |
| `findings_unique` | violation | 2 sessions, 3 numbers | one number published twice |
| `local_parts` | pass | eleven parts, below; 1.3 million | stores, pages, settings, gate, bundles, each under its own interleavings and kills |
| `builds_parts` | pass | seven parts, below; 830 000 | compiled chains, fitters, folders, records, the scratch survey |
| `runtime_parts` | pass | ten parts, below; 1.8 million | decoding, codes, kernels, the host's memos, skip-zero, dense layers, streamed scores, KL ladders |
| `regbuf_codes` | violation | widths 1 to 31, rows of 1, 33 and 64 codes | a register window one word too short |
| `mtp_processors` | violation | as the decode part, one banned token | the second token of a pair is judged by raw logits |

The runs are kept to a dozen; the bounds are chosen for what they let happen.

- **Three tenants** are needed for a waiter to be passed by two others, and for
  a death while two wait. The lease's argument does not depend on their number,
  which the theorems show.
- **Three steps** give a first, a middle and a last one, the middle one allowed
  to fail, with the third depending on both others. **Two runner lives** suffice
  for a kill and a resume; a third life starts from a file the second could
  have started from, since a runner reads nothing of the first but the file.
- **A build and a timed command** are the two kinds of run that treat the lease
  differently; the build is the one with retries.

`local_parts`:

| Part | Bounds | Why they are enough | Property |
|---|---|---|---|
| findings | 2 sessions, 3 numbers, deaths, expiry | two race for a lock while one cleans up; for any number of sessions there is a proof | `HoldersDiffer`, `NothingBurnt` |
| gate | every call, one flaw at most, 2 edits of each of 2 files | an edit before and one after each digest; flaws do not interact but by keeping stages from running | `ReleaseIsGated` |
| reservations | 2 callers on 2 hosts, both names, a drive that comes and goes | the two sides of every refusal | `ReservationsHold` |
| validation queue | 3 commands, 2 entries | one that runs, one that adds, one that clears | `ResultsAreTrue` |
| fit store | 2 fits, 2 commands at once, 4 in all | each pair of writers over each other, then a rebuild | `FitsAreKept` |
| downloads | 2 requests, 3 fetches, restarts | a stop, a second fetch and the first one's exit file | `DownloadsAreTrue` |
| starts | 2 versions, 3 tokens, 3 queues, 1 cut; past the second token only histories of one version are followed (`Followed`) | an edit under a token; a preflight and two full runs | `StartsAreSingle` |
| scan | 3 models, 2 overlapping places, 2 scans, 2 changes, 2 profiles | two scans over one change, two copies of one model | `StartsAreSingle` |
| onboarding | 4 commands, 3 runs, one step redone; not followed (`Followed`) once a run is lost, since nothing is claimed then | each step launched, failed and launched again | `ResultsAreTrue` |
| settings | 2 processes, 2 sets, 1 record, 2 environments, 3 leftovers, 3 places to set; not followed once two wrote at once (`Followed`), since nothing is claimed then | a killed set and the next one; a table read before another's set; teachers apart from the models | `SettingsStand` |
| bundles | 1 further revision of each part, or 2 of one, 1 bundler, 1 look, 1 withdrawn or added certificate | stale once and twice, bundled between two looks | `ReleaseIsGated` |

`builds_parts`:

| Part | Bounds | Why they are enough | Property |
|---|---|---|---|
| recipes | every family, mode and option, a base for dense ones only | all there are | `ChainIsSound` |
| fit-moe | 2 shards, one with another geometry, 2 sets of flags, 3 runs | a shard torn by one run, skipped or redone by the next | `FitIsWhole` |
| geo-build | 2 modules, 2 geometries, a pool of 2, 3 runs | a part copied, fitted, torn, and served to another geomap | `BuildIsAsRecorded` |
| folders | 3 tools in a row, each may die | one dies, another works, the first is rerun | `FoldersAgree`, `SourcesSurvive` |
| reselect | 3 modules, 2 teachers, 2 texts, 2 banks, 2 runs | parts of one run taken up by another | `FitIsWhole` |
| records | 2 files, 1 edit, 3 jobs | build, then two of amend, portable and build, the last after a kill of the one before, at or in any of its writes | `BuildIsAsRecorded` |
| scratch | 1 edit, plain or not, every kind of folder once, packs of packs, links | each piece of evidence gone stale once | `ReclaimIsSafe` |

`runtime_parts`:

| Part | Bounds | Why they are enough | Property |
|---|---|---|---|
| decode | 3 tokens, prompts of 1, 2 and 4, limits 1, 4 and 5, chunks of 1 and 2 | ends on either token of a pair after one full cycle and on the very first; the trunk depends on every token and their order | `DecodesPlainly`, `ResultsAreHonest` |
| codes | 11 widths of 1 to 31, rows of 1, 33, 64 | widths that divide a word, straddle it, and its ends; rows short of, past and equal to whole blocks | `CodesAreRead` |
| decode kernels | every kernel, 2 lanes, 2 or 3 processes, 1 or 3 rows and groups, tiles of x of 1, 2 and 4 tokens | a row without a process's work, a block of one group and a rest | `KernelsAreRight` |
| prefill kernel | every combination of switches its source allows, 2 simdgroups, up to 2 groups | one octet less and one more than a tile | `KernelsAreRight` |
| host | 12 settings, 6 modules, 4 routings, 3 steps, memos of 2 | a memo hit, missed, evicted and reached by another object at the same address | `PathsAgree` |
| skip-zero | 2 modules of 3 rows, each fitted twice, 3 folders, 2 thresholds, 3 runtimes | a pack of a pack, a refit of a pack and a bundle of either | `PathsAgree` |
| dense | 2 linears of 6 shapes, 16 settings, 2 tables, 1 and 100 rows | both ways of each layer, after each way of the one before | `PathsAgree` |
| streamed | 5 scorers, up to 4 positions, chunks of 1 to 3, 2 blocks of either kind | a chunk ends before, at and behind the sequence | `PathsAgree` |
| tasks | pairs and triples of requests, 2 calls, buckets of 2, 2 blocks | two in a bucket and one in the next; a swallowed seam, no context, no continuation | `PathsAgree` |
| ladders | 2 rungs, 3 environments, 3 contents of which two look alike, 2 passes, 2 ladders, 2 edits or upgrades | a resume across an edit, an upgrade and a rebuilt teacher; a rung changed unseen, and one changed and brought back | `ResultsAreHonest` |

Deadlock is not an error where processes simply end: `CHECK_DEADLOCK FALSE`
stands in every passing configuration. Where something may not stop, a property
of `runtime_parts` says so: a kernel (`NobodyIsMissed`) and a streamed pass
(`NeverStuck`).

Symmetry is used only where no liveness property is checked.

Many properties name the histories they do not hold for (`~cut`, `~overlap`,
`\ torn`, `mixed`): those are limits of the code, found by first checking the
property without them, and are listed below.

### Fairness

- `GpuLease`: weak fairness of each tenant's next step of `acquire_lease` and of
  a probe under way. The loop sleeps and polls; nothing blocks it. No fairness
  of releasing, asking or dying: `WaitEnds` holds against holders that keep the
  lease forever, because of the deadline.
- `QueueRunner`: weak fairness of a live runner's steps and of its parent's, and
  of the end of a step that was told to end or has a `timeout_s`. Nobody must
  start, stop or kill anything. `Terminates` is checked with all steps `Timed`:
  a step without a time limit may run forever, and its runner with it.
- `McpRuns`: weak fairness of launcher, supervisor and stopper, and of the job,
  which is taken to end by itself; there is no time limit in `supervisor.py`.

The other modules have safety properties only: their processes may stop
anywhere. No strong fairness is used.

## What is proved

TLAPS checks these for every value of the constants that satisfies the named
assumptions of the modules. `PROJECT.json` lists the theorems a reader should
know of; each inductive invariant below was checked by TLC before it was proved.

**`GpuLeaseProofs`** (any number of tenants, probers and polls). The inductive
invariant `IInv` is `TypeOK` and `LeaseInv`: a tenant past `TakeFlock` and not
yet released is the owner of the flock, a locked prober likewise, a job's tenant
holds or is dead, and the holder's stamp stands. `GpuExclusive` alone is not
inductive: it says nothing of the flock that keeps the second tenant out. From
`IInv`: `LeaseTypes`, `LeaseExclusion`, `LeaseStamp`, `LeaseKept` (an action
property) and `LeaseTakesTurns`, the refinement of `GpuTurns` step by step.

**`QueueRunnerProofs`** (any queue, any number of runners, retries and inputs)
climbs through four invariants.

- `TypeInv`: typing, and `VerdictReady`, that a runner about to record has a
  verdict: without it a step's status could be `none`. Gives `QueueTypes`.
- `LeaseInv`, for runners started in any way: a runner at a step is at one of
  its own steps (`AtWork`), a live job belongs to a runner waiting for it or dead
  (`JobPlaced`), and a runner at work on a queue whose steps to do need the GPU
  holds the lease (`LeaseSpans`). The last is the argument of the code: the lease
  is taken once, for the whole drain, if any step still to run needs it, so
  exclusion does not depend on which runner reads which `state.json`. Gives
  `QueueGpuExclusion`.
- `OwnerInv`, for one start at a time (`OneAtATime`): one runner is present, and
  from its claim on the file and its copy name it, whether its detaching parent
  has saved or not. Gives `QueueFindable`.
- `SoloInv`, until a Jobs page is opened: the copy is what is on disk (`InStep`),
  what is to do has no lasting record and what is not has one to go on from
  (`TodoOpen`, `TodoLeft`), a runner at a step is at the first to do (`AtFirst`),
  a pass has its output (`Made`), a drain ends early only for a stop, the tree
  is gone only when all is done and nobody holds the state (`TreeGone`), and an
  outcome says what it means (`Outcomes`). For queues run from a shell
  (`OneOperator`) it gives `QueueInOrder`, `QueueTreeOutlivesWork`,
  `QueuePassedMeansAll`, `QueuePassIsKept` (an action property) and
  `QueueChainFindsInputs`, the last for real runs; `QueuePreflightJudges` holds
  beside a Jobs page too. The hypotheses are not for the prover's sake: with two
  runners of one queue, or a parent that saves late, these properties are false
  of the code, as the list below says.

**`McpRunsProofs`** (any number of runs, retries and stops). `HoldsInv`: from the
moment a GPU run's supervisor has the lease until it gives it up the lease is its
(`LeaseHeld`), and a job nobody told to stop runs only inside that stretch
(`JobInside`). It gives `RunsExclusive`. `OutcomeInv` follows a verdict from the
loop (`LoopIsOver`) to the supervisor's copy (`CopyIsTrue`) and from there to the
file (`FileIsTrue`), past the other writers of the file, which never hold a
terminal status unless the file did; it gives `RunsOutcome`. `RunsTakeTurns` is
the refinement of `GpuTurns`: taking and giving the lease are its turns.

**`PackedRowProofs`** (any set of widths between 1 and 31 bits, any lengths:
`RowAssumption`). A bit of memory is its address, so that a reader is right when it
returns the addresses `bits*n`, `bits*n+1`, ... of code `n`.

- What `pack` writes: `PassWrites` says which bit of which word the pass over
  place `i` fills; `OnePlace` that a bit of a block belongs to one place, found by
  halving the block five times, since the provers know no division by a
  variable. `PackWrites` follows: or-ing 32 passes leaves each bit where it
  belongs, and in one place.
- What is cut out of words: `CutReads` is the shift and the mask, in one word or
  across two; `CodeInRow` keeps every bit inside the row; `CutsCode` is the two
  together for a reader that has loaded words from some `base` on. `VQ_CODE` and
  unpack (`VqCodeReads`), block registers (`LcReads`), gemmseg's words (`CvecReads`:
  at most five of six are needed), one-byte codes (`BytesRead`), the embedding's
  three bytes (`PleReads`) and the window of a group of sixteen (`FunnelReads`:
  an odd width starts every other group in the middle of a word) follow. The
  window of groups of eight is wrong, as `regbuf_codes` shows.
- The walk: `WalkInv` says that the 64-bit buffer holds the next `nb` bits of the
  row and zeros above them, that `32*w = bits*j + nb`, and that the last code taken
  was right. `FetchAppends` shows that shifting a word in and or-ing it appends 32
  bits, `TakeShifts` that a code taken leaves the next; `RowHoldsCodes` bounds the
  words by the row's length.

`RuntimeCodes` is `CodesAreRead`, all of it; `WalkIsRight` the walk by itself.

**`RuntimeProofs`**, the drafting loop (any vocabulary, trunk, head, requests and
limits). `DecodeInv` climbs along the loop of `mtp_stream_generate`:

- `DecodeTypes`: the two kinds of cache have read the same tokens.
- `PromptRead`, `BeforePair`: what they have read is the prompt as far as it was
  fed, and between pairs exactly what was given out; the head has a row for each
  of these tokens and the one to come.
- `PairIsRead`: from the verification on they have read the pair, and its two rows
  are of the state before the second token and after it, wherever the caller has
  got to, whether the draft was kept or replaced.
- `SavedBefore`: what a rejection goes back to, an offset of one kind and a copied
  state of the other, is the state the pair was read in.
- `TokensAllowed`, `EndedRead`: the tokens at hand are the trunk's own after those
  before them, and a generation that ended has read what it gave out and at most
  the token after it.

`StateInStep` and `LogprobsHonest` follow for any processors, and for generations
without them the refinement of `PlainDecode`, step by step: giving out a token is
its `Emit`, everything else a stutter. `CachesAgree` alone is not inductive; it
does not say which prefix the two agree on. The theorems state two
hypotheses about the operators that stand for a model: trunk and processors answer
with tokens (`AnswersTokens`) and, for the refinement only, no processor changes an
answer (`Unprocessed`). They are not `ASSUME`d since TLC cannot enumerate all
sequences; the constants of the run, `MCTrunk` and `NoProcessor`, satisfy them by
definition. Without `Unprocessed` the refinement is false, as `mtp_processors` shows.

The KL ladder (any rungs, environments, passes, edits, upgrades and resumes).
`LadderInv`: a record beside an array tells the teacher, positions and build it
was computed with (`SidesSound`), a ladder at work finds every rung looking as it was
stamped first, or has seen it away, and scored each cell so (`LadderAtWork`), and both
halves of the property (`RecordsVouch`, `IndexNamesBytes`). With the drafting loop
it gives `RuntimeResults`, for any contents and any `Looks` of them: a promise about
what weights look like, as in the code. `LadderAssumption` says that the reference is
a rung, the edited are rungs, the first content one of the contents and the
first environment one of those.

**`BuildsProofs`** (any modules, geometries, shards, flags, files and numbers of
runs, each killed anywhere). Six invariants, put together in `BuildersInv`:

- `BuildInv` (geo-build): a run has behind it only whole parts (`Behind`), the ledger
  notes a part as what it is or not at all (`NotedTrue`), a fitted part is archived
  or about to be, unless a kill came between (`Archived`), and what is assembled
  is of the parts there are (`Assembled`).
- `MoeInv` (fit-moe): a shard the run has passed is whole or shipped whole
  (`ShardsPassed`, `ShippedWhole`), every shard's geometry is one that flags of some run
  asked for (`OfFlags`), and what stands or is shipped is filed (`FitsKept`).
- `SelInv` (reselect): every part is what one selection made of the target, Gram and
  scale it is by (`PartsMade`), and so are the report and the folder
  (`Reported`, `FolderMade`); that no other code has a smaller error is the lemma
  about the choice itself.
- `RecInv` (build records): what a command at work will have left when it is
  through is chained, and finds every id a child named (`Traces`); a history that no
  kill cut has only lines that can be read (`Intact`), and holds the replaced
  record before the new one is written (`Works`); a record that
  nobody has edited behind tells the bytes there are (`Stands`).
- `VolInv` (scratch): where folders lie and which caches are registered never
  changes. `BuildsReclaimSafe` is the action property on top: it compares the survey's
  list with the volume it was made of, whatever happened before, and excepts
  sources in disguise.
- `LinkInv` (artifact folders, any number of tools): the artifact itself holds no
  links, and of the derived folder's files the model's never is one (`LinksOK`); what a
  tool still has to write, away from what it may write through, goes where no link
  is and none will be made, or where a swap first puts a file of its own and none
  comes later (`Apart`). It is shown of each tool's plan when the tool starts
  (`SplicePlan`, `InPlacePlan`, `CopyPlan`, `LinkPlan`) and for every write
  (`LinkStep`). `BuildsSourcesSurvive` is the action property.

They give `BuildsAsRecorded`, `BuildsFitWhole`, `BuildsReclaimSafe` and
`BuildsSourcesSurvive`, theorems of `BuildsSpec`. `SelectAssumption` types the codebook and the Grams; that the Gram sums
are integers is among it because they are folds, and what a fold computes needs
induction. `RecordAssumption`: the config is one of the recorded files.

**The parts of `MCLocalStores`** are proved one by one and put together at the
end. For each part there is an inductive invariant and three kinds of lemma: it
holds at first, every step of the part keeps it, and it implies what the run's
property says of the part. `PartsInv` of `LocalStoresProofs` is the conjunction
of `part = ... => ...`, and the theorems named `Local...` are of the very
specification, `LocalSpec`, and the very properties the run checks.

- The parts that give a verdict. `GateInv`: what each stage that is behind has looked at is
  clean in every file nobody has rebuilt (`LookedSoFar`), and a file rebuilt once
  differs from what was hashed (`Hashes`). `BundleInv`: what the registry certifies is
  so (`Certifies`), a text about to be written changes no default but the chosen
  (`ToolTypes`), and a verdict kept under the files' present times is of the
  bundle as it is (`LooksStand`). `NightInv`: a result in any list was earned, and
  unless commands overlapped each one's copy is the file (`HoldsFile`) and every
  entry is there or cleared (`Lossless`). `TeacherInv`: a run that is out is one its
  step knows of (`KnownRuns`), a cache is the work of the run its step names
  (`Traced`), and a verdict compares caches that are done (`Compared`), in the file
  and in every call's copy.
- `KeepingProofs`. `StoreInv`: typing and the shape of each command, what was put
  keeps data and sidecar whatever happens (`Kept`), and, unless files raced, a
  retag is alone, sidecars are beside their data and a list says `copy` only of
  what is there (`Unraced`); without overlap the index and every list that will
  be the index find each fit (`ListsFind`). That a killed retag leaves an index
  that still finds its fits but one is the hard case.
  Then the settings. First that a setting, a first run and the end of older data
  leave every other location where it was, and that a portable name resolves to
  the path it was made from, for sequences of any length. Then `SetInv`: a
  process that did not set anything itself still finds its log; and unless two
  wrote at once the file is the settings made (`FilesAgree`), one process writes
  (`OneWriter`), records resolve (`RecordsThere`), and each process is sound:
  its lines are the file's and one key, the temporary file is those lines, and
  the places `init` showed are in the file as far as they were asked.
- The other stores: the findings log (`Inv`: the log a session
  read is older than the log there is, `ReadsAreOld`; the lock of a number held
  and never expired stands, `LocksStand`; an unlinking append has published,
  `WrittenFirst`; holders differ and nothing is burnt), reservations (`BoxInv`:
  what was seen under a name was no other session's), downloads (`HubInv`: one
  child at most works and the entry has it; an exit file of 0 beside an entry
  that downloads means that all files are there), starts (`GuiInv`: a token is
  spent once, a queue is what was shown, a runner more than one only after a
  cut) and the model scan (`LibInv`: the rows of a scan tell the truth of the places
  it has been to, unless a folder changed behind it).

Theorems: `FindingsTypes`, `FindingsHolders`, `FindingsNothingBurnt`,
`LocalReleaseIsGated`, `LocalResultsAreTrue`, `LocalFitsAreKept`,
`LocalStartsAreSingle`, `LocalSettingsStand`, the action properties
`LocalReservationsHold` and `LocalDownloadsAreTrue`, and `LocalLogIsTheLog`, which
carries the first three over to `LocalSpec`. They assume `LogAssumption`,
`LibraryAssumption` (the scan's places reach the models there are),
`LocalAssumption` (`None` is no session) and `SettingsAssumption` (paths are of
`Words`, among them the names the code itself uses).

**Only model-checked.**

- Liveness (`WaitEnds`, `Terminates`, `Settles`):
  temporal reasoning with fairness is beyond the prover.
- `KernelsAreRight` and `PathsAgree`: a kernel's program, a routing's order and a
  streamed pass are put together from sequences by sorting, flattening and
  folding, and what these return needs induction over data.
- `ChainIsSound`: the compiled chains are finitely many, and the run has them all.
- `FoldersAgree`: what an unfinished tool may leave of a folder, and what running
  it again mends, is a relation of its own for each of the tools.

## Where the code and its words disagree

Runs that end in a violation:

- `queue_stop_recorded`: a stop that arrives between two steps makes
  `_attempts` return `None`, `run_step` fails on it, and no outcome is recorded.
- `mcp_guard`: a timed command launched over MCP finds the lease held, by its own
  supervisor, and refuses to run.
- `findings_unique`: a number chosen from an old read of the log is locked
  after its publisher has unlinked its own lock, and is published a second time.
- `regbuf_codes`: the d8 decode kernel that keeps a group's words in registers
  sizes its window from the last group's first bit; at groups of 8 codes and
  widths of 3, 7, 11 and 15 an earlier group starts at a higher bit, and its last
  codes lose their high bits. The kernel is off by default.
- `mtp_processors`: with logits processors the second token of a pair is judged
  by logits they have not seen, so a token that is banned may be emitted.

Others were met while modelling and have no run of their own. Of the lease, the
queue, MCP runs and findings:

- `lease_holder` reads a file between truncation and stamp as `{}`, which its
  callers take for "nobody" (`core/box/gpu_lease.py:38`).
- A tenant that is killed frees the lease while its job still has the GPU; the
  properties say so explicitly.
- SIGTERM between `Popen` and `_stop["proc"] = p` leaves the running step alone
  (`queue/runner.py:145-147`).
- A stop after the last step passed ends as `stopped` with the worktree already
  removed, so that it cannot be resumed (`queue/runner.py:283`).
- A runner started in the foreground waits for the lease before it saves its
  pid; the Jobs page may start a second one meanwhile (`queue/runner.py:309`).
- `_detach` saves the state it read at its start, over a runner that has already
  finished: outcome and passes are lost (`queue/runner.py:384-389`). This is why
  `PassIsKept` and the rest are checked for queues that are not detached.
- In a resumed preflight a step that names a passed step's output is pointed at
  the real path, since `outmap` starts empty (`queue/runner.py:239`). This is
  why `ChainFindsInputs` is checked for real runs.
- A failed preflight unlinks the models-dir entry of a step that passed
  (`queue/runner.py:269-272`); one stopped after its last pass leaves an entry
  that dangles.
- The supervisor may read `meta.json` before the launcher's second write, drop
  the pid with its own, and be reported `lost` while it runs
  (`ops/runs.py:152`, `:167`).
- Two sessions that both find one lock out of date may unlink it twice, the
  second time when it is somebody's fresh lock (`ops/findings.py:82`).
- The supervisor releases the lease 30 seconds after it told its job to end,
  though the job may still live (`ops/supervisor.py:53`).
- The second `stat` of the findings scan is outside its `try`: a lock unlinked
  between the two makes the call fail (`ops/findings.py:86`).
- The hidden state of the trunk is captured at one point per model: two
  generators on one model would read each other's (`mtp/capture.py:68`).

Of stores and pages:

- Two people can hold one box at once, one under its name and one under its
  hostname; `reserve` checks before it locks (`queue/reserve.py:174`).
- Commands of the validation queue that overlap erase each other's entries.
- A retag that died midway cannot be run again, and a command that saves
  the fit index whole drops what others appended (`core/source/fit_store.py`);
  `reindex` repairs it, and nothing calls it.
- A comment has the download's child write its pid "just before locking"
  (`agents/downloads.py:119`); it writes it after. A server that dies before
  that leaves a fetch that is shown as stopped; a start right after a stop
  is answered "downloading" while the old child dies.
- A preflight's queue file that is edited between the page's reading and the CLI's
  is run unseen; a start killed between `Popen` and the save gets a second runner.
- Every process that sets a place writes the same temporary file, each from
  lines of its own: of two sets at once one is lost, or fails
  (`agents/config_cmd.py`). `SettingsStand` excepts such histories.
- A record of an artifact in a later fit store resolves to the first one, and
  `<root>` is not resolved at all (`config.py`); a command that sets the lab folder or the
  records' logs its end elsewhere than its start.
- A scan asked for while one is at work is dropped; a scan of the command line
  overlaps with the server's, and the older one may be written last.
- Onboarding: `--redo` resets one step, so that a verdict outlives its
  caches; a call killed between launch and save leaves a run nobody knows of
  (`agents/onboard.py:296-305`); a profile that fails on a later call
  switches the cache tool, and two tools' caches are called "NOT deterministic".
- KL ladder: a resume compares the paths, the mlx builds and the variant, not the
  model's fingerprint; the array is saved before its record; a torn record makes
  every rerun fail; a rebuild without `--save-full` leaves an old `teacher_full`
  that is preferred (`score/kl_ladder.py:212-226`).
- `measured` says of its fingerprint "same bytes <=> same value"
  (`records/provenance.py:181`); it hashes the size and first megabyte of each shard.
  A rung edited behind them during a ladder, or edited and put back, is
  indexed under the stamp taken first (`score/kl_ladder.py:291`), which promises
  to leave out what changed.

Of fitters and builders:

- fit-moe killed between the rename of a shard and its filing never files it; a
  resume with other flags describes the old shards by the new ones.
- geo-build killed between saving and noting a part records it as `resume` and
  never stores it; a parts folder that served another geomap puts foreign
  geometries into the artifact.
- reselect's parts are keyed by `--out` alone: a part made under other grams or
  another target is taken up, and the record names the new flags (`mixed`).
- A preflight's release check does not see the draft head that the build ships
  (`PreflightServesTheHead` of `RecipeRun` fails; the run's own check does see it).
- `pin.py` says that a pin's links keep what was smoked (`gate/pin.py:6`); pack-ple
  replaces a shard under the name the pin links. A pin killed midway has no
  record, and `check_pin` lets a folder without one pass.
- ple-swap into an existing folder keeps links to another base; unpack-dense
  leaves a stale `total_size`; a second splice-ple with another fit forgets the
  first one's tables; pack-ple killed between its last files is refused from then
  on; vision-layout links config and index, so that later tools write through, and
  splice-ple copies its shards where a link to nothing leads.
- Records and histories are written in place (`records/provenance.py:261`, `:275`,
  `:595`). A build killed in its append leaves a line without an end; the
  next build's line is written on in it, and both are lost. An amendment
  killed in its write loses what it had not yet written of a file it had emptied:
  every earlier record, maybe. `lineage` stops at such a line, `--portable` refuses
  it, and a torn record stops the next build after its files are written (`:259`).
- `--portable` killed between its writes can lose the record that children named,
  or leave one that never verifies; run on a config edited by hand it records
  the edit as built (`records/provenance.py:338`).
- The scratch survey's `packed` class compares the recorded `realpath` as written:
  records since 2026-10-10 hold `<scratch>/X` and are never listed.
- The survey says that "the source still IS what was packed"
  (`agents/scratch.py:20-21`); it looks at the record's id and the shards' sizes and first
  megabytes (`:182-187`), with `--full` too. A source edited behind the
  first megabyte is listed, and its only copy deleted.

Of gates, bundles and skip-zero:

- The cluster and knurlogic arms run no prefill smoke, and publish runs no
  check-bundle. An edit after publish's second digest goes up unseen.
- `model.py` is written in place: a bundler killed amid the write leaves a text
  from which the next one reads only some of the shipped defaults
  (`bundle/add_model_file.py`); a dense bundle's backup is then overwritten by it.
- A certification covers three flags; a bundle whose other defaults differ from
  those of the test is still called byte-identical.
- `mix` takes `vq_skipzero` for a map of modules and empties it; sz-pack of a
  bundle of today's runtime does not load before `bundle` is run again; an
  incremental sz-pack copies onto a link, into its source; one at another
  `--tiny` fails sz-check.

Of runtime and scorers:

- Comments say that the walk flags are off by default where they are on
  (`runtime/vq_switch.py:913` and `:923`, and two more pairs).
- `_d8_regbuf_ok`, `dense_fits` and the caps on threadgroup memory each leave a
  kernel unguarded: packed dense d2 with groups other than 64, and unpacked d4
  and d8 in the legacy kernels. No shipped geometry reaches them.
- `VQEmbedding.dims` and `as_linear` ignore packing.
- Streamed task scores: a request with no context tokens, or with no
  continuation, makes the stacked targets one short; they are padded at the end,
  so that every later request of the call is scored on shifted targets
  (`score/score_tasks_streaming.py:366-384`). `ScoresAreOwn` excepts such calls.
- The classic referee equals the chunked scorers only for models without
  recurrent blocks.

## What is not modelled

- **Arithmetic**: k-means, assignments and scales, attention, the draft heads'
  tensors, KL sums. Floating point is out of TLC's reach; the models say
  which inputs reach a number, not what it is.
- **Tools that write one new folder from an old one** and nothing else:
  stream-convert, build-dense, minibase, slice-teacher, patch-arch, sanitize.
- **Dispatch**: CLI, API, GUI pages, MCP adapter; the model families' tables.
- **Measurement**: benches, generative tasks, decode timelines, selftests.
- In **QueueRunner**: the check of a pid against a recycled one. Runners do not
  share output directories with other queues.
- In **McpRuns**: `list_runs`, `status`, the path and exo refusals, launchers
  that die. Runs told to stop are outside `GpuExclusive`, since a job may
  outlive the 30 seconds it is given.
- In **FindingsLog**: `use_reserved` is called with a number the session was
  given; the exception of the second `stat` of the scan, which leaves no state.
- In **MtpDecode**: probabilities, and with them the branch that accepts a draft
  whose own probability came out as 0 (`mtp/sampling.py:118-120`); several generations on one model, the text
  of the detokenizer, timing and statistics, batch and head loading.
- In **RecipeChain**: bits, geometries, sizes, prices and time limits; a build is past
  this box's memory or it is not.
- In **Locations**: the `[boxes]` and `[card]` tables, the Hugging Face cache,
  symbolic links to roots.
- In **Release**: what a check reads of a file, and the card's text.
- In **VqSwitch**: one `walk` flag stands for four, the gemm flag of d8 modules
  and the pipelined variant's own are left out. In **DenseHost**:
  the arm of `VQ_DENSE_REF`. In **SkipZero**: modules that straddle shards,
  which the tools never pack.
- In **Scratch**: sizes and totals.

## Plan

Next, proving. The invariants to strengthen are conjunctions of named parts in
each module; a type invariant is the first step where there is none yet.

1. `Threadgroup`: that a barrier separates what lies before it from what
   lies after it, for any number of processes, as a lemma of both kernels.
2. `QueueRunner` implements `GpuTurns`.
3. `FoldersAgree` for any number of tools: an invariant that says of every folder
   what the tools not run to their end may have left out of step.

Later, extending the model: two generators over one capture point; `QueueRunner`
and `Reservations` composed, one box's queue under another's reservation;
fit-dense and fit-ple, which keep less than the fitters here.

## Running it

    tlasany GpuLease.tla
    tlc -config GpuLease_turns.cfg GpuLease.tla
    tlapm GpuLeaseProofs.tla

Each configuration `X_y.cfg` belongs to `MCX.tla`, or to `X.tla` where there is no
such module. The three runs of parts take two to three minutes each with two
workers, the others less. `RuntimeProofs`, `LocalStoresProofs` and `KeepingProofs`
take about ten minutes each, `BuildsProofs` seven and `PackedRowProofs` five, the
other proofs one to two.
