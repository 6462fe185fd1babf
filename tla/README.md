# TLA+ models of the nytrix build and test tooling

This directory holds TLA+ models of the Python tooling under
`src/etc/tools/`, together with the TLC configurations that check them. The models cover four parts:
- the test-execution engine (`test.py`);
- the host profiler that sizes build and test worker pools (`main.py`, `test.py`);
- the `py make` build driver with its optional perf and sanitizer gates (`main.py`, `cmake.py`, `commands.py`, `std.py`, `perfgate.py`);
- the LLVM C header stager (`deps.py`), which concurrent checkouts share through the temp directory.
`PROJECT.json` lists the components, runs, mutants, definition-to-source map,
findings and hazards in machine-readable form.

## 1. The system

`test.py main()` is one coordinating loop that runs three suites (benchmark,
runtime, std) in order. For each suite it does the following:

1. **Load.** It loads two JSON tables under the cache root:
   - `test_timings.json` (TimingStore): suite → path → duration.
   - `test_results.json` (ResultCache): suite → path → `{sig, ok, aot, repl, elf, total_dur}`.

   `load_*_db` returns `{}` when the file is missing or unreadable.
2. **Classify.** For every matched file it computes `test_sig` (SignatureEngine). The signature is a SHA-1 over the cache revision, platform, repl/native flags, the script's own digest, the test source digest, `compiler_cache_sig` and environment flags. `cache_hit` then decides whether the entry in `suite_results` answers the test. Hits are reported at once, and their stored duration goes into `suite_timings`.
3. **Order.** It sorts the files longest first by `max(hist duration, suite_cost_hint)` (lines 1678–1690). Misses become `pending_specs` in that order.
4. **Pool.** It runs a pool of `live_jobs = max(1, min(suite_jobs, len(pending_specs)))` workers:
   - It submits while there is room (1782).
   - It calls `wait(FIRST_COMPLETED)` (1797).
   - For each done future it records the duration and, with the cache on, a new entry, then refills (1852).
5. **Worker.** Each worker executes `run_test` (PhaseRunner), which has three phases:
   - The direct (JIT/AOT) phase.
   - The REPL phase.
   - The native phase. It reuses the artifact `ny_bin_<native_cache_key>` when `native_cache_fresh` holds, and otherwise compiles one and then runs it (NativeArtifactCache).
6. **Suite end.** `timings_db[suite_key] = suite_timings` and `results_db[suite_key] = suite_results`. The `finally` block of `main` saves both tables, whether the run completed or was interrupted by KeyboardInterrupt.

`suite_results` *is* the dict inside `results_db` when that suite's table was loaded (line 1697). Entries written during the pool are therefore already part of `results_db` when an interrupt reaches the `finally` block. On a first run they are not.

The two other modelled parts:
- **HostProfiler** supplies the worker budgets. They come from two independent places:
  - `main.py`'s `_resolve_jobs`, which computes `cmake --build -j` from `os.cpu_count()` with its own ARM memory tiers;
  - `test.py`'s `auto_threads`, `recommended_jobs` and `effective_jobs`, for the test pool.

  `jobs.py` holds an older copy of the worker policy, but nothing imports it, so it is not modelled.
- **BuildDriver** is `main.py main()`. It walks the command list (`py make clean test`, ...). Per command it does the following:
  - checks whether install can reuse the existing artifacts;
  - `ensure_std_bundle_fresh`;
  - `cmake_build`, which configures once per process through the `CONFIGURED` memo;
  - the runner: `run_test` starts `test.py` with `NYTRIX_BUILD_STD_PATH` set to the build's `std.ny`.

  After a passing `test` (or `all` when a gate is on), `_run_optional_gates` runs `perfgate.py`, which compares with `build/cache/perf_gate_baseline.json`, and each sanitizer gate, which is a child `make test` with `BUILD_DIR=<build>/<san>`.

  `clean` removes `BUILD_DIR` and the test and compiler caches. Across invocations the driver and the test engine share the build directory, and nothing else.
- **HeaderStager** is `resolve_llvm_headers`, which `main()` calls once per invocation. It uses an installed LLVM's include root when `find_llvm_c_include_root` accepts one. Otherwise `ensure_llvm_c_headers` stages the headers into `BUILD_DIR/third_party/llvm/headers/include`:
  - from the per-version cache `<tmp>/nytrix-cache/llvm-headers/<tag>/include`, when that has the eight required headers;
  - otherwise from the archive at `<tmp>/.../<tag>/llvm-project-<tag>.zip`, downloaded with retries over two URLs. After extraction it copies the headers back into the cache.

  The cache and the archive are shared by every checkout on the machine.

Parts that are not modelled:
- Reporter (`print_res`, summaries, profile JSON) only displays results. Its pass verdict is modelled as `phases_ok`.

## 2. Inventory of state and hazards

| component | state | operations | hard behaviour |
|---|---|---|---|
| Scheduler (main) | pending_specs, submit_idx, pending futures, live_jobs | submit, wait, collect, refill | completion in any order; saturation; termination |
| SignatureEngine | digest memo | test_sig, native_cache_key, compiler_cache_sig | an input missing from a key gives stale hits |
| ResultCache | results_db, suite_results (aliased) | cache_hit, entry write, save in finally | interrupt before suite end; aliasing; a kill inside the save |
| NativeArtifactCache | files in NATIVE_CACHE_DIR | native_cache_fresh, compile writes file | reuse of an artifact built from old inputs; partial files |
| HeaderStager | hdr_root per checkout; shared cache_inc and zip_path per LLVM version | health check, cache staging, download/retry, extract, copy to cache | a copy killed part-way; two processes on one zip_path; retry exhaustion |
| BuildDriver gates | perf baseline; sanitizer build directories | run_perf, run_sanitizer | clean removing the baseline; a child build's own std bundle |
| TimingStore | timings_db, suite_timings | sort key, save | interrupt loses a suite's timings |
| PhaseRunner | per-phase results | run_test, run_proc (timeout) | phase failures; a raising worker |

The hazards, with their lines and the properties that cover them, are in
`PROJECT.json` under `hazards`.

## 3. Modules

### `TestOrchestrator.tla`

This module models one suite across `MaxRuns` invocations of the script. Its variables fall into three groups:

- **`world`**: the developer's working tree. The contents of test files, compiler sources, the built binary and the std tree are version numbers.
- **`store`**: what persists across runs.
  - `timingsDB` and `resultsDB` are this suite's tables.
  - `artifacts` maps a native key to the inputs the file was built from.
- **`coord`**: the state of main in the current run. The names follow the code: `suiteResults`, `suiteTimings`, `specs` (pending_specs), `submitIdx`, `liveJobs`, `pending`. Two more variables model the pool itself:
  - `batch` holds the futures returned by the last `wait`.
  - `finished` holds worker results not yet collected.

A SHA-1 digest is modelled as the record of the fields it hashes. It is therefore injective, which is the intent of a cryptographic hash. Fields that do not change between runs (platform, flags, revision) are left out. `Basis(t)` is a ghost value: the inputs that really determine a test's outcome. Every result records the `basis` it was produced from, and its native phase records the `elfBasis` of the artifact it ran.

| action | code |
|---|---|
| `StartRun` | main 1595–1736: use_result_cache, load, aliasing, classification by `cache_hit`, `SortedFiles`, `live_jobs`, initial submission loop |
| `run_test(t)` | run_test 1369–1439, one atomic worker step with nondeterministic phase outcomes and durations; artifact reuse or compile |
| `Wait` | `wait(pending, FIRST_COMPLETED)` 1789–1819 |
| `Collect(t)` | loop body 1820–1857: duration, entry, refill |
| `EndRun` | 1859–1875: table updates and the save in `finally` |
| `Interrupt` | KeyboardInterrupt during the pool; the `finally` block 1869–1873. A compile in flight may leave a partial `ny_bin_<key>` |
| `run_test_raises(t)` | `open()` of a test deleted after globbing raises inside the worker (1380–1387) |
| `Abort(t)` | `fut.result()` re-raises it in the coordinator (1825), and `finally` saves the tables as on an interrupt |
| `SaveCuts`, `save_tables` | the `finally` block (1869–1873) with `save_timings_db`, `save_results_db` and their loaders (802–836) |
| `EditTest`, `EditCompiler`, `Rebuild`, `EditStd` | the developer between runs |

Each artifact records whether the file is whole. A successful compile writes a whole file. With `PartialArtifacts`, a failed compile, or one killed by an interrupt, may leave a partial file at the same path, as `run_proc(..., "-o", elf_fn)` does. `native_cache_fresh` cannot tell the two apart. `WorkerRaises` enables the raising worker.

With `CrashDuringSave`, the process can die inside the `finally` block: in `save_timings_db`, between the two saves, or in `save_results_db`. A second Ctrl-C does this, because KeyboardInterrupt is not an `Exception` and escapes the saves' `except`. Each save opens its file with `"w"`, so a cut file fails `json.load` and loads as `{}`. A save that never started leaves the old file. `EndRun`, `Interrupt` and `Abort` all end in this block.

Workers run the phases inside one step. The coordinator's only window onto a worker is `wait`, so splitting the phases further adds no interleaving that the coordinator could observe.

`MCTestOrchestrator.tla` gives the cost hints: the last file is the heaviest by hint, so a cold run starts it first and history can then overturn that order.

### `AbstractPool.tla` and the refinement

`AbstractPool` states what the worker pool of one suite run promises, without caches, signatures, phases or tables:
- the cases of a run are fixed when it starts (`AStart`);
- at most `W` are submitted and not yet returned by `wait` (`running`);
- `AWait` returns a nonempty set of them (`ready`);
- `ACollect` handles one returned case once, and then refills the pool to `W` or to all that is left;
- `AComplete` ends a run only when nothing is left to submit, run or handle;
- `AStop` ends it early, on an interrupt or a worker's exception.

`TestOrchestrator` ends with the refinement mapping `AP == INSTANCE AbstractPool WITH ...`:

| abstract | concrete |
|---|---|
| `apc` | `pc` |
| `todo` | the paths of `specs[submitIdx+1..]` during a pool, else `{}` |
| `running` | `pending` |
| `ready` | `batch` |
| `done` | the tested files this run timed, `DOMAIN suiteTimings \ hits` |

The pool run checks `PoolRefinement == AP!ASpec` as a PROPERTY. Every concrete step is either an abstract step or a stutter:
- `run_test` and the edits between runs are stutters;
- `Interrupt` and `Abort` are `AStop`;
- `EndRun` is `AComplete`.

The mutant that lets `Collect` take a future that `wait` has not returned breaks it.

### `HostProfiler.tla`

This module models host detection and job sizing as pure operators over a host record: OS, architecture, logical and physical CPU counts, memory. One call is made per state, so the state space is the product of the inputs. The host is drawn from every CPU shape up to `MaxLogical`.

| definition | code |
|---|---|
| `detect_physical_cores`, `smt_factor_ge/le` | test.py 295–332 |
| `default_test_jobs_soft_cap` | test.py 334–345 (above 64 cores the ceiling is `max(24, int(0.75n))`) |
| `auto_threads` and its parts, `arm_test_cap`, `arm_floor` | test.py 347–400, the test-workload branches (test.py calls it only with `"test"`) |
| `recommended_jobs`, `effective_jobs`, `EffectiveJobs` | test.py 404–421 |
| `mem_total_gib`, `parse_int_env`, `resolve_jobs`, `ResolveJobs` | main.py 183–233 |
| `env_int`, `env_bool` | utils.py 34–46 |

Float arithmetic is modelled as integer arithmetic: `int(n*0.6)` is `n*6 \div 10`, and a ratio test `l/p <= 1.2` is `5*l <= 6*p`. Environment variables are strings, parsed by `env_int` over the texts `-99..99`, so a malformed value takes the default, as in the code.

The module also models how the build directory is chosen for a user without root, which is `context.py`'s `resolve_build_dir` followed by `cmake.py`'s `guard_build_permissions`. The variable `fs` holds the state of the file system and `bd` holds the result.

The state in `fs` has these parts:
- the user;
- `BUILD_DIR` from the environment: unset, a sanitizer subdirectory, or another path;
- the default directory: absent, uncreatable, writable, or not writable;
- a tree of up to `MaxTree` entries per probe root, each entry writable or not;
- whether the fallback `~/.cache/nytrix-build` can be created;
- the build kind.

| definition | code |
|---|---|
| `can_write` | context.py 97–101 (`os.access(W_OK)`, with root allowed everywhere) |
| `walk`, `probe_walk`, `first_unwritable_path` | 103–135: the four probe roots, the walk over them, and the cap of `max_checks` entries |
| `ensure_dir_writable` | 137–152 |
| `resolve_build_dir` | 154–186 |
| `find_unwritable_artifacts`, `guard_build_permissions` | cmake.py 139–178: only `CMakeFiles` of the kind's directory is examined |
| `ResolveBuildDir` | the call at cmake.py 366 |

The probe visits `max_checks = 256` entries. Its walk is the concatenation of the root walks, in order.

### `BuildDriver.tla`

This module models `main()` across `MaxRuns` invocations. The file system is a finite tree of `Paths` with a `Parent` function. `intact` holds the paths that still exist.

| variable | code |
|---|---|
| `art[dir]` | per build kind, and per sanitizer build directory: `std_sources.sha1` (`sig`), the std version bundled in `std.ny` (`bundle`), the configured `CMakeCache.txt` options (`cache`), whether `ny` etc. exist (`bins`), and the prefix `install_manifest.txt` lists (`manifest`) |
| `env` | the shell's environment: NYTRIX_TEST_CACHE_DIR, prefix and CC, NYTRIX_RECONFIGURE, PERF and SAN |
| `inv` | the process: remaining commands, the optional gates still to run, `clean_seen`, the `CONFIGURED` memo, the perf verdict and the error that ended it |
| `baseline` | whether `build/cache/perf_gate_baseline.json` exists |
| `lastTest` | the std bundle the last test run used, and the std tree it ran against |
| `stdSrc` | the version of the `std/` tree |
| `installed` | the prefixes that hold an installed nytrix |

| action | code |
|---|---|
| `Start` | main 293–317 |
| `Clean` | main 332–366, `_safe_remove_path`, `_clean_test_caches`, `_clean_compiler_caches` (116–172) |
| `Command` | main 368–429: the install reuse check, `ensure_std_bundle_fresh`, `cmake_build` and `cmake_configure`, the runners `run_test`, `run_std`, `run_install` (with `cmake --install` writing `install_manifest.txt`) and `run_uninstall`. repl ends the process, a failing build or test ends the invocation, and passing tests queue the optional gates (`OptionalGates`, 245–280) |
| `PerfGate` | `run_perf` → `perfgate.main`: measure, write the latest snapshot, then compare with the baseline or skip (perfgate.py 128–258) |
| `SanitizerGate` | `run_sanitizer` with `_sanitizer_env`: a child `make test` on `BUILD_DIR/<san>`, with its own `CONFIGURED` memo and no gates |
| `Interrupt` | KeyboardInterrupt, 432–435 |
| `EditStd`, `WriteBaseline` | the developer between invocations; `perfgate.py --write-baseline` run by hand |

The model makes these assumptions:
- When the std tree changed but an old `std.ny` survives, whether `cmake --build` regenerates it depends on the dependencies CMake tracks, so both outcomes are allowed (`BuiltBundles`).
- Edits happen between invocations. An edit during a build is not modelled.
- `Start` leaves unset the variables that no command of the line reads. `NYTRIX_TEST_CACHE_DIR` varies only for lines with `clean` (`Cleans`), and PERF and SAN only for lines with `test` or `all` (`Gated`). No step of that invocation reads the other fields, and the next `Start` sets them again, so the reduction drops no behaviour.
- `PREFIX` is set in every modelled environment, so `run_install` always passes `--prefix`.
- `_enable_real_test_env` (clean+test, NYTRIX_TEST_REAL) only turns off `test.py`'s caches, which TestOrchestrator models. It is abstracted away here.

The `fuzz` and `repl` commands end the invocation early, like a failed test:
- `fuzz` chooses one outcome from `FuzzOutcomes` per run. `fuzz_fails` is `fuzz.py`'s exit verdict: a crash or a timeout always fails the run, and a panic fails it only under `--fail-on-panic`.
- `run_repl` never returns (`run_repl_returns` is FALSE), so no command after `repl` runs.

### `HeaderStager.tla`

A directory is the set of files it holds. `llvm-config.h` carries the LLVM version it was synthesized for. The archive at `zip_path` is a record: the process that created the file, and whether that process's download completed. Every step reads or writes at most one shared file, so two processes interleave as the file system lets them. Copies are one file per step, so a crash can stop a copy part-way.

| variable | code |
|---|---|
| `hdr[p]`, `hdrVer[p]` | process p's `hdr_root` and the version in its `llvm-config.h` |
| `cache[v]`, `cacheVer[v]` | `cache_inc` of tag v, shared |
| `zip[v]` | `zip_path` of tag v, shared |
| `st[p]` | the call in progress: program counter, tag, attempt, URL, files left to copy |
| `res[p]` | how p's last call ended: the returned root, or SystemExit, or killed |
| `llvm` | the version `detect_llvm_version` reports |

| action | code |
|---|---|
| `Start` | `resolve_llvm_headers` / `find_llvm_c_include_root` (an accepted installed root is returned as it is, `ReturnInstalled`), then deps.py 305–326: the healthy check, the tag, the rmtree before cache staging |
| `StageFile`, `StageDone` | copytree from the cache, synthesize, `canonical_llvm_c_include_root` (327–331) |
| `Probe` | NYTRIX_NO_NET, and the existing-archive check (333–360) |
| `Open`, `Fetch`, `Verify`, `Retry` | the download loop 364–395: unlink and create zip_path, write, `is_zipfile`, the next URL or attempt, then SystemExit |
| `Unzip`, `ExtractFile`, `ExtractDone` | 397–412 |
| `CacheFile`, `CacheDone` | copytree into the cache with its errors swallowed, then synthesize and the final checks (414–423) |
| `Crash`, `Upgrade` | a process killed mid-call; an LLVM upgrade between calls |

The `NYTRIX_LLVM_HEADERS_ZIP` override is not modelled.

## 4. Runs

All runs use `VIEW Observed`, which identifies states that differ only in *which* phase failed. Every run sets `CHECK_DEADLOCK FALSE`, because after `MaxRuns` invocations the system stops by design.

| run | bounds | properties | result |
|---|---|---|---|
| pool | 3 tests, 2 jobs, 2 runs, no edits | TypeOK, Saturation, LongestFirst, CompletedRunCovers, Termination, PoolRefinement | pass (224k states) |
| native | 1 test, 3 runs, binary compiler signature, edits of test, compiler and std, lagging builds, partial artifacts | ArtifactReuseCurrent | pass (46k) |
| strict | 1 test, 3 runs, binary compiler signature, lagging builds, raising workers, kills during the save | CachedOutcomeCurrent | pass (40k) |
| stdtree | 2 tests, 2 runs, std edits | CachedOutcomeCurrent | **violation** |
| lagbuild | 1 test, 3 runs, source signature, lagging builds | CachedOutcomeCurrent | **violation** |
| interrupt | 2 tests, 2 jobs, 2 runs | InterruptKeepsProgress | **violation** |
| partial | 2 tests, 2 jobs, 2 runs, edits of test, compiler and std; partial artifacts | ReusedArtifactWhole | **violation** |
| hostjobs | every CPU shape up to 70 logical CPUs, 4 OSes, 7 profiles, ARM caps, 4 memory sizes; build-dir resolution over every file-system state with trees of up to 2 entries | SoftCeilingGrows, TestPoolBounded, ArmPoolWithinCap, BuildJobsFitMemory, ResolverExact | pass (1.4M) |
| build | 15 paths, 9 command lists, 3 invocations, 2 std versions, 2 prefixes, PERF on/off, SAN off/asan, 4 fuzz outcomes, failing installs | TestUsesCurrentStd, ConfigurationCurrent | pass (639k) |
| cleanpath | NYTRIX_TEST_CACHE_DIR = the checkout's parent | ProtectedPathsSurvive | **violation** |
| headers | 2 processes, 2 LLVM versions, 2 headers, 2 URLs, 1 attempt, failing downloads, no-net, 1 crash, 2 calls each, no installed root, a complete one, or one without llvm-config.h | ReturnedRootUsable | pass (1.3M) |
| headerpartial | 1 process, 1 crash | ReturnedRootComplete | **violation** |

Why these bounds are enough:
- Three tests with two workers is the smallest pool with both a queue and a refill.
- Two runs give history-driven ordering and cache hits.
- Two versions give one edit of every input.
- The lagging-build scenario needs three runs: run with the stale binary, rebuild, then the stale hit. The native run has three runs of one test for the same reason: its property is about binary mode with lagging builds, and its mutant (the default source mode) reuses an artifact compiled by the stale binary in the third run. One test with one worker is enough there, because the pool's interleavings are the pool run's subject and do not change which artifact a key names.
- For HostProfiler, 70 logical CPUs passes every step of the soft ceiling (16/32/48/64) and the Windows test cap of 6. The test-cap texts are unset, `1` and `2`: `2` is an explicit ARM cap below the default of 4, and `1` is the cap the floor overrides.
- HeaderStager needs two headers, one that the health checks name and one they do not, for a partial copy to be told apart from a complete one. Two processes are the smallest case with a shared archive and cache. One attempt over two URLs already covers both loops of the retry logic.
- Build-dir resolution uses trees of up to 2 entries under each of 4 probe roots, which is at most 8 entries, far below `MaxChecks = 256`. `ResolverExact` is stated only for trees the cap covers. The cap itself would bite only on trees of more than 128 entries, which are out of TLC's reach, so it is listed as an unchecked hazard.
- The build run's SAN modes are off and asan. ubsan and both take the same path with another directory.
- The build run's paths include every banned directory, an ancestor of one (`~/src`, reached in cleanpath), and the default and fixed cache candidates. Three invocations allow build → edit std → build → test.

Each property of a passing run is broken by a mutant, listed in `PROJECT.json`:

| property | mutant |
|---|---|
| TypeOK | a pool ignoring the job budget |
| Saturation | wave scheduling |
| LongestFirst | ascending sort |
| CompletedRunCovers | results saved only through the alias |
| Termination | done futures left pending |
| CachedOutcomeCurrent | test source missing from `test_sig` (strict run) |
| ArtifactReuseCurrent | std tree missing from `native_cache_key`; also broken by the default source-mode compiler signature |
| SoftCeilingGrows | soft cap halved above 64 cores |
| TestPoolBounded | `effective_jobs` taking `--jobs` as given without NYTRIX_TEST_FORCE_JOBS |
| ArmPoolWithinCap | the ARM test cap taken with `max` instead of `min` |
| BuildJobsFitMemory | memory tiers tested in the wrong order |
| TestUsesCurrentStd | `ensure_std_bundle_fresh` not unlinking the stale bundle |
| ConfigurationCurrent | `cmake_configure` checking only whether a cache exists |
| ReturnedRootUsable | `_is_healthy` without its llvm-config.h check |
| PoolRefinement | `Collect` taking a finished future that `wait` has not returned |
| ResolverExact | `first_unwritable_path` not checking the root itself |

## 5. Findings

1. **stdtree.** `test_sig` hashes no std tree digest, although spec §3 lists one and `native_cache_key` includes it (line 753). After a `std/*.ny` edit, stale outcomes are served from the cache. Under `py make test` this is masked: `commands.run_test` sets `NYTRIX_BUILD_STD_PATH` to the build's `std.ny` (commands.py 95), `test_sig` adds that file's signature (test.py 1001–1005), and `ensure_std_bundle_fresh` regenerates the bundle after a std edit. The stale hit happens when `test.py` runs on its own, or with `NYTRIX_STD_PREBUILT` naming an old bundle. The model's `test_sig` leaves out the `NYTRIX_STD_PREBUILT` and `NYTRIX_BUILD_STD_PATH` signatures, so the run shows that direct invocation.
2. **lagbuild.** In the default `source` mode the compiler signature is taken from the compiler sources, not from the binary. A run between an edit and its rebuild caches the old binary's outcome under the new signature. `native_cache_key` uses the same signature, so the native artifact compiled by the old binary is reused too (the native run's mutant).
3. **interrupt.** After an interrupt, the tables are saved without the interrupted suite's timings, and without its results on a first run. Spec §8 says the k completed entries are persisted.
4. **partial.** `run_test` compiles straight to `ny_bin_<key>`. A compile killed by Ctrl-C or `PROC_TIMEOUT` leaves a truncated file there. `native_cache_fresh` (line 628) accepts any non-empty file, so later runs reuse the broken binary until an input of the key changes.
5. **cleanpath.** `_safe_remove_path` bans directories by equality only, and `clean` rmtrees `BUILD_DIR` with no check. An ancestor of the checkout given as the cache directory is removed with the checkout inside it.
6. **headerpartial.** `ensure_llvm_c_headers` copies the extracted headers into the shared cache with a non-atomic `copytree` whose errors are swallowed (deps.py 414), and it trusts the cache when the eight required headers are present (324). After a copy killed part-way, every later call removes its complete root (326) and stages the incomplete cache. The returned root then lacks headers the archive had, such as `llvm-c/ExternC.h`, which `Core.h` includes.

These issues are reachable in the models but are not runs. They are listed as hazards in `PROJECT.json` with the reason:
- `ensure_std_bundle_fresh` swallows a failed unlink of `std.ny` and still writes the new signature (`StdLocked`).
- `cmake_configure`'s up-to-date check ignores the compiler. `ConfigurationCurrent` is about the install prefix only, and the build run keeps one compiler.
- The ARM floor raises `NYTRIX_TEST_ARM_JOBS_CAP=1` to two workers; `ArmPoolWithinCap` is stated for caps of two or more.
- `clean`'s protected paths: the build run no longer checks `ProtectedPathsSurvive`, because its cache directories there are the empty one and home, which the equality test refuses. The cleanpath run checks it with an ancestor of the checkout.
- `CONFIGURED` survives `clean`, so `bin clean bin` fails.
- `clean` removes the perf baseline, so the next PERF gate skips its comparison.
- `find_llvm_c_include_root` accepts a root without `llvm-config.h`.

## 6. Fairness

- Each worker step is weakly fair. Every phase runs under `PROC_TIMEOUT` (`run_proc`), so a busy worker finishes.
- The coordinator's steps are weakly fair. It polls `wait` with a timeout of at most 5 s.

Starting a run, interrupting it and editing files are the user's choice, so none of them is fair.

HeaderStager checks safety only and assumes no fairness. Every call ends after a bounded number of steps (the retry loop is bounded by `NYTRIX_LLVM_DL_RETRIES` and the URL list), so a termination property would hold by the shape of the loops and is not stated.

HostProfiler and BuildDriver also check safety only, and assume no fairness. Their runs set `CHECK_DEADLOCK FALSE`, because the profiler answers one call and the driver stops after `MaxRuns` invocations.

## 7. Not modelled

- **ToolchainAndDeps**, apart from the header stager:
  - `detect.py`'s probes for CMake, LLVM, the Windows SDK and MSVC, and `configure_toolchain`;
  - `ensure_deps`;
  - `cmake.py`'s `llvm_flags`;
  - the Windows import-library and runtime staging.

  They are sequential probes of the host, and BuildDriver keeps only their outcome, the configured options and compiler.
- **Reporter**: formatting only.
- **The web, docs, fmt, tidy and matrix tools**: they read build outputs and write reports, with no state the driver or the test engine reads back.
- **ReplSmoke, LegacyRunner, and the fuzz and thread-stress harnesses**: separate programs with their own loops. Only the fuzz exit verdict is modelled, because the driver acts on it.
- **A sudo build across invocations.** HostProfiler resolves the build directory for one call over every file-system state. BuildDriver does not model a root-owned tree that a sudo build leaves for the next invocation, because a sudo choice per invocation doubles the build run past its time limit.
- **`guard_build_permissions` outside `CMakeFiles`.** The guard inspects only `CMakeFiles`, so an unwritable output elsewhere in the tree passes it. This is listed as a hazard.
- **A property for `uninstall`.** BuildDriver models `install_manifest.txt` per build directory and `run_uninstall`. The build run reaches an `uninstall` that fails with SystemExit after `clean` removed the manifest, while a prefix still holds an install. A later install into another prefix also overwrites the manifest, so the first prefix can no longer be uninstalled. No property is stated: the spec promises nothing about uninstall, and the tool reports the missing manifest. This is listed as a hazard.
- **`docs`, `fmt`, `tidy` and the other report commands** of BuildDriver: they leave nothing that a later command reads.

## 8. Plan

1. **Done.**
   - `TestOrchestrator`, with partial artifacts and raising workers.
   - `HostProfiler`.
   - `BuildDriver`, with the optional gates.
   - `HeaderStager`.
   - `AbstractPool` and the refinement `PoolRefinement`.
   - Build-dir resolution in `HostProfiler`, and the fuzz verdict in `BuildDriver`.
2. Several suites in one invocation, `seen_files`, and `--pattern` replacing a suite's timing table.
3. Hazards that are listed but not yet covered:
   - edits during a run
   - the repl flag in the native key
4. `run_thread_stress`, the fuzz harness and the legacy `run_tests.py`.
