-------------------------- MODULE TestOrchestrator --------------------------
(***************************************************************************)
(* The test orchestrator of src/etc/tools/test.py (main, run_test,         *)
(* test_sig, native_cache_key, cache_hit and the persistence helpers),     *)
(* for one suite, across several invocations of the script.                *)
(*                                                                         *)
(* A run loads the timing and result tables, classifies every matched test *)
(* as a cache hit or as pending, orders the pending ones longest first,    *)
(* and drives a bounded pool: the coordinator submits up to liveJobs       *)
(* futures, waits for the first completed ones, records each result and    *)
(* refills the pool. Worker threads execute run_test: the direct phase,    *)
(* the REPL phase and the native compile-and-run phase, which reuses a     *)
(* native artifact file keyed by native_cache_key. Between runs the        *)
(* developer edits test files, the compiler sources, the binary and the    *)
(* std tree. A run either completes the suite or is interrupted, and in    *)
(* both cases the finally block of main saves the tables.                  *)
(*                                                                         *)
(* Data is abstracted to what the properties tell apart: file contents are *)
(* version numbers, a SHA-1 digest is the (injective) tuple of the fields  *)
(* it hashes, a duration is a small integer and a phase outcome is one of  *)
(* "pass", "fail" (non-zero exit or timeout) and "skip".                   *)
(***************************************************************************)
EXTENDS Integers, Sequences, FiniteSets, TLC

CONSTANTS
    NumTests,         \* files matched by the suite glob, 1..NumTests in path order
    Jobs,             \* effective_jobs(args.jobs): the worker budget
    MaxRuns,          \* bound: invocations of test.py
    MaxVersion,       \* bound: edits of any one input file
    Durations,        \* observed total durations of a test (abstract units)
    CostHint,         \* suite_cost_hint: [1..NumTests -> Nat]
    ReplOn,           \* repl_phase_enabled_for_path for this suite
    NativeOn,         \* native_phase_enabled for this suite
    CompilerSigMode,  \* NYTRIX_TEST_COMPILER_SIG: "source" or "binary"
    StdEdits,         \* whether the std tree may change between runs
    LaggingBuild,     \* whether compiler sources may change without a rebuild
    PartialArtifacts, \* whether a killed or failed compile can leave its output
    WorkerRaises,     \* whether run_test can raise (e.g. a non-UTF-8 test file)
    CrashDuringSave   \* whether the process can die inside main's finally block

Tests == 1..NumTests
Versions == 1..MaxVersion

ASSUME /\ NumTests \in Nat \ {0}
       /\ Jobs \in Nat \ {0}
       /\ MaxRuns \in Nat \ {0}
       /\ MaxVersion \in Nat \ {0}
       /\ Durations \subseteq Nat \ {0} /\ Durations # {}
       /\ CostHint \in [Tests -> Nat]
       /\ ReplOn \in BOOLEAN /\ NativeOn \in BOOLEAN
       /\ CompilerSigMode \in {"source", "binary"}
       /\ StdEdits \in BOOLEAN /\ LaggingBuild \in BOOLEAN
       /\ PartialArtifacts \in BOOLEAN /\ WorkerRaises \in BOOLEAN
       /\ CrashDuringSave \in BOOLEAN

VARIABLES
    \* the developer's working tree (inputs of a test's behaviour)
    srcVer,        \* content version of each test file
    compSrcVer,    \* version of the compiler sources src/*.c, CMakeLists.txt
    binVer,        \* compiler sources the binary build/ny was built from
    stdVer,        \* version of the std/*.ny tree
    \* persisted state under TEST_CACHE_ROOT
    timingsDB,     \* test_timings.json, this suite's table: path -> duration
    resultsDB,     \* test_results.json, this suite's table: path -> entry
    artifacts,     \* NATIVE_CACHE_DIR: native key -> [from: inputs, whole: written out]
    \* the coordinator (main) of the current run
    pc,            \* "idle" between runs, "pool" while the suite runs
    runs,          \* invocations so far
    useCache,      \* use_result_cache of this run
    aliased,       \* suite_results is the dict stored in results_db
    suiteResults,  \* suite_results
    suiteTimings,  \* suite_timings
    specs,         \* pending_specs, in submission order: <<[path, sig]>>
    submitIdx,     \* submit_idx
    liveJobs,      \* live_jobs
    pending,       \* futures submitted and not yet returned by wait()
    batch,         \* futures returned by the last wait(), not yet handled
    finished,      \* results of workers that returned: path -> result
    raised,        \* workers whose run_test raised instead of returning
    \* observation
    hits,          \* tests this run answered from the result cache
    lastEnd        \* how the last run ended: "none", "completed", "interrupted",
                   \* "aborted" (a worker's exception)

world == <<srcVer, compSrcVer, binVer, stdVer>>
store == <<timingsDB, resultsDB, artifacts>>
coord == <<pc, runs, useCache, aliased, suiteResults, suiteTimings, specs,
           submitIdx, liveJobs, pending, batch, finished, raised, hits, lastEnd>>
vars == <<world, store, coord>>

NoFn == [t \in {} |-> 0]    \* an empty table

MinOf(a, b) == IF a < b THEN a ELSE b
MaxOf(a, b) == IF a > b THEN a ELSE b

(***************************************************************************)
(* Signatures.                                                             *)
(***************************************************************************)

\* What a test's outcome really depends on: its source, the std modules it
\* imports and the binary that runs it.
Basis(t) == [src |-> srcVer[t], std |-> stdVer, bin |-> binVer]

\* Fault variant: the NYTRIX_TEST_COMPILER_SIG mode is ignored.
compiler_cache_sig_source_only == [source |-> compSrcVer]

\* compiler_cache_sig: a digest over the compiler sources' mtimes and sizes
\* by default, over the binary itself in "binary"/"strict" mode.
compiler_cache_sig ==
    IF CompilerSigMode = "binary" THEN [binary |-> binVer]
                                  ELSE [source |-> compSrcVer]

\* Fault variant: the test source's digest is left out of the signature.
test_sig_no_src(t) ==
    [path |-> t, repl |-> ReplOn, native |-> NativeOn,
     compiler |-> compiler_cache_sig]

\* test_sig: the fields hashed into the result cache key.
test_sig(t) ==
    [path |-> t, repl |-> ReplOn, native |-> NativeOn,
     src |-> srcVer[t], compiler |-> compiler_cache_sig]

\* Fault variant: the std tree signature left out of the artifact key.
native_cache_key_no_std(t) ==
    [path |-> t, repl |-> ReplOn, native |-> NativeOn, src |-> srcVer[t],
     compiler |-> compiler_cache_sig, std |-> 1]

\* native_cache_key: the fields hashed into the native artifact file name.
native_cache_key(t) ==
    [path |-> t, repl |-> ReplOn, native |-> NativeOn, src |-> srcVer[t],
     compiler |-> compiler_cache_sig, std |-> stdVer]

(***************************************************************************)
(* Result entries and phase results.                                      *)
(***************************************************************************)

Phase == {"pass", "fail", "skip"}
passed(p) == p # "fail"

\* print_res's verdict: every phase that ran passed.
phases_ok(r) == passed(r.aot) /\ passed(r.repl) /\ passed(r.elf)

\* cache_hit: an entry for this path whose signature matches, that passed,
\* and that has a REPL phase whenever the REPL phase is now required.
cache_hit(tbl, t) ==
    /\ t \in DOMAIN tbl
    /\ tbl[t].sig = test_sig(t)
    /\ tbl[t].ok
    /\ ReplOn => tbl[t].hasRepl

\* native_cache_fresh: the artifact file exists (and is not empty) and
\* neither NYTRIX_TEST_CACHE=0 nor NYTRIX_TEST_NO_NATIVE_CACHE is set.
native_cache_fresh(key) == useCache /\ key \in DOMAIN artifacts

(***************************************************************************)
(* Scheduling order.                                                       *)
(***************************************************************************)

\* The sort key of main: max(hist.get(path, 0.0), suite_cost_hint).
sort_key(t) ==
    MaxOf(IF t \in DOMAIN timingsDB THEN timingsDB[t] ELSE 0, CostHint[t])

\* Fault variant: the sort without reverse=True (shortest first).
SortedFiles_ascending ==
    SortSeq([i \in 1..NumTests |-> i],
            LAMBDA a, b: sort_key(a) < sort_key(b)
                         \/ (sort_key(a) = sort_key(b) /\ a < b))

\* files: sorted by path, then stably sorted by descending key.
SortedFiles ==
    SortSeq([i \in 1..NumTests |-> i],
            LAMBDA a, b: sort_key(a) > sort_key(b)
                         \/ (sort_key(a) = sort_key(b) /\ a < b))

\* Fault variant: wave scheduling, refilling only a drained pool.
Refill_wave(pend, idx, sp, lj) ==
    LET k == IF pend = {} THEN MaxOf(MinOf(lj, Len(sp) - idx), 0) ELSE 0
    IN  [pending |-> pend \cup {sp[i].path : i \in idx + 1 .. idx + k},
         submitIdx |-> idx + k]

\* The submission loop: submit specs while the pool has room.
Refill(pend, idx, sp, lj) ==
    LET n == MinOf(lj - Cardinality(pend), Len(sp) - idx)
        k == MaxOf(n, 0)
    IN  [pending |-> pend \cup {sp[i].path : i \in idx + 1 .. idx + k},
         submitIdx |-> idx + k]

\* Fault variant: the pool sized by the pending count alone, ignoring the
\* suite's worker budget.
live_jobs_no_budget(suiteJobs, n) == MaxOf(1, n)

\* live_jobs: the pool size, at least one and at most the pending count.
live_jobs(suiteJobs, n) == MaxOf(1, MinOf(suiteJobs, n))

(***************************************************************************)
(* Initial state: a working tree at its first version and an empty cache   *)
(* root, as on a fresh checkout.                                           *)
(***************************************************************************)
Init ==
    /\ srcVer = [t \in Tests |-> 1]
    /\ compSrcVer = 1
    /\ binVer = 1
    /\ stdVer = 1
    /\ timingsDB = NoFn
    /\ resultsDB = NoFn
    /\ artifacts = NoFn
    /\ pc = "idle"
    /\ runs = 0
    /\ useCache = FALSE
    /\ aliased = FALSE
    /\ suiteResults = NoFn
    /\ suiteTimings = NoFn
    /\ specs = <<>>
    /\ submitIdx = 0
    /\ liveJobs = 1
    /\ pending = {}
    /\ batch = {}
    /\ finished = NoFn
    /\ raised = {}
    /\ hits = {}
    /\ lastEnd = "none"

(***************************************************************************)
(* main, from loading the tables to the first submissions: the result      *)
(* cache is on unless NYTRIX_TEST_CACHE=0 or NYTRIX_TEST_REAL is set; the  *)
(* suite's table is aliased when it was loaded; every file with a valid    *)
(* entry is answered from the cache, the rest become pending_specs in      *)
(* longest-first order and the pool is filled.                             *)
(***************************************************************************)
StartRun ==
    /\ pc = "idle"
    /\ runs < MaxRuns
    /\ \E cache \in BOOLEAN :
         LET al == cache /\ resultsDB # NoFn
             sr == IF al THEN resultsDB ELSE NoFn
             hit == {t \in Tests : cache /\ cache_hit(sr, t)}
             todo == SelectSeq(SortedFiles, LAMBDA t: t \notin hit)
             sp == [i \in 1..Len(todo) |->
                      [path |-> todo[i], sig |-> test_sig(todo[i])]]
             suiteJobs == MaxOf(1, MinOf(Jobs, NumTests))
             lj == live_jobs(suiteJobs, Len(sp))
             sub == Refill({}, 0, sp, lj)
         IN  /\ useCache' = cache
             /\ aliased' = al
             /\ suiteResults' = sr
             /\ hits' = hit
             /\ suiteTimings' = [t \in hit |-> sr[t].dur]
             /\ specs' = sp
             /\ liveJobs' = lj
             /\ pending' = sub.pending
             /\ submitIdx' = sub.submitIdx
    /\ pc' = "pool"
    /\ runs' = runs + 1
    /\ batch' = {}
    /\ finished' = NoFn
    /\ raised' = {}
    /\ UNCHANGED <<world, store, lastEnd>>

(***************************************************************************)
(* A worker executes run_test(t): the direct phase, the REPL phase when    *)
(* enabled, and the native phase, which reuses a fresh artifact or         *)
(* compiles one straight to the artifact path and then runs it.  A compile *)
(* that fails or times out late in linking leaves a partial file there.   *)
(***************************************************************************)
run_test(t) ==
    /\ pc = "pool"
    /\ t \in pending
    /\ t \notin DOMAIN finished \cup raised
    /\ \E aot \in {"pass", "fail"},
          rep \in IF ReplOn THEN {"pass", "fail"} ELSE {"skip"},
          compOk \in BOOLEAN, runOk \in BOOLEAN, d \in Durations,
          leftover \in IF PartialArtifacts THEN BOOLEAN ELSE {FALSE} :
         LET key == native_cache_key(t)
             reuse == NativeOn /\ native_cache_fresh(key)
             built == NativeOn /\ ~reuse /\ compOk
             partial == NativeOn /\ ~reuse /\ ~compOk /\ leftover
             elf == IF ~NativeOn THEN "skip"
                    ELSE IF (reuse \/ compOk) /\ runOk THEN "pass" ELSE "fail"
         IN  /\ finished' = finished @@
                  (t :> [aot |-> aot, repl |-> rep, elf |-> elf, dur |-> d,
                         basis |-> Basis(t),
                         elfBasis |-> IF reuse THEN artifacts[key].from ELSE Basis(t),
                         elfWhole |-> ~reuse \/ artifacts[key].whole])
             /\ artifacts' = CASE built   -> (key :> [from |-> Basis(t), whole |-> TRUE]) @@ artifacts
                                [] partial -> (key :> [from |-> Basis(t), whole |-> FALSE]) @@ artifacts
                                [] OTHER   -> artifacts
    /\ UNCHANGED <<world, timingsDB, resultsDB, pc, runs, useCache, aliased,
                   suiteResults, suiteTimings, specs, submitIdx, liveJobs,
                   pending, batch, raised, hits, lastEnd>>

\* run_test raises instead of returning: the REPL phase's open() of a test
\* file that is not UTF-8, or of one deleted since the glob.  The exception
\* is kept in the future.
run_test_raises(t) ==
    /\ WorkerRaises
    /\ pc = "pool"
    /\ t \in pending
    /\ t \notin DOMAIN finished \cup raised
    /\ raised' = raised \cup {t}
    /\ UNCHANGED <<world, store, pc, runs, useCache, aliased, suiteResults,
                   suiteTimings, specs, submitIdx, liveJobs, pending, batch,
                   finished, hits, lastEnd>>

\* Fault variant: the done futures are not taken out of pending.
Wait_keep_pending ==
    /\ pc = "pool"
    /\ batch = {}
    /\ LET done == pending \cap (DOMAIN finished \cup raised)
       IN  /\ done # {}
           /\ batch' = done
    /\ UNCHANGED <<world, store, pc, runs, useCache, aliased, suiteResults,
                   suiteTimings, specs, submitIdx, liveJobs, pending, finished,
                   raised, hits, lastEnd>>

(***************************************************************************)
(* wait(pending, FIRST_COMPLETED) returns every future that is done.       *)
(***************************************************************************)
Wait ==
    /\ pc = "pool"
    /\ batch = {}
    /\ LET done == pending \cap (DOMAIN finished \cup raised)
       IN  /\ done # {}
           /\ batch' = done
           /\ pending' = pending \ done
    /\ UNCHANGED <<world, store, pc, runs, useCache, aliased, suiteResults,
                   suiteTimings, specs, submitIdx, liveJobs, finished, raised,
                   hits, lastEnd>>

\* Fault variant: the loop handles any finished future, also one that
\* wait() has not returned, so it is never taken out of pending.
Collect_unwaited(t) ==
    /\ pc = "pool"
    /\ t \in (batch \cup pending) \cap DOMAIN finished
    /\ LET r == finished[t]
           sig == (CHOOSE s \in {specs[i] : i \in DOMAIN specs} : s.path = t).sig
           entry == [sig |-> sig, ok |-> phases_ok(r), dur |-> r.dur,
                     basis |-> r.basis, elfBasis |-> r.elfBasis,
                     hasRepl |-> r.repl # "skip"]
           sub == Refill(pending, submitIdx, specs, liveJobs)
       IN  /\ suiteTimings' = (t :> r.dur) @@ suiteTimings
           /\ suiteResults' = IF useCache THEN (t :> entry) @@ suiteResults
                                          ELSE suiteResults
           /\ pending' = sub.pending
           /\ submitIdx' = sub.submitIdx
    /\ batch' = batch \ {t}
    /\ finished' = [u \in DOMAIN finished \ {t} |-> finished[u]]
    /\ UNCHANGED <<world, store, pc, runs, useCache, aliased, specs, liveJobs,
                   raised, hits, lastEnd>>

(***************************************************************************)
(* The loop body for one done future: print_res decides ok, the duration   *)
(* goes to suite_timings, the packed entry to suite_results when the       *)
(* cache is on, and the pool is refilled.                                  *)
(***************************************************************************)
Collect(t) ==
    /\ pc = "pool"
    /\ t \in batch \cap DOMAIN finished
    /\ LET r == finished[t]
           sig == (CHOOSE s \in {specs[i] : i \in DOMAIN specs} : s.path = t).sig
           entry == [sig |-> sig, ok |-> phases_ok(r), dur |-> r.dur,
                     basis |-> r.basis, elfBasis |-> r.elfBasis,
                     hasRepl |-> r.repl # "skip"]
           sub == Refill(pending, submitIdx, specs, liveJobs)
       IN  /\ suiteTimings' = (t :> r.dur) @@ suiteTimings
           /\ suiteResults' = IF useCache THEN (t :> entry) @@ suiteResults
                                          ELSE suiteResults
           /\ pending' = sub.pending
           /\ submitIdx' = sub.submitIdx
    /\ batch' = batch \ {t}
    /\ finished' = [u \in DOMAIN finished \ {t} |-> finished[u]]
    /\ UNCHANGED <<world, store, pc, runs, useCache, aliased, specs, liveJobs,
                   raised, hits, lastEnd>>

(***************************************************************************)
(* main's finally block: save_timings_db, then save_results_db when the    *)
(* result cache is on. Each opens its file with "w" and json.dumps into    *)
(* it, and a second Ctrl-C (KeyboardInterrupt is not an Exception) or a    *)
(* kill can stop the block inside either write or between them. A file cut *)
(* short fails json.load, and load_*_db then returns {}.                   *)
(***************************************************************************)
SaveCuts ==
    IF ~CrashDuringSave THEN {"none"}
    ELSE IF useCache THEN {"none", "timings", "between", "results"}
    ELSE {"none", "timings"}

\* The tables on disk after the block, given the tables in memory and where
\* it was cut: a cut write leaves an empty table, a write never started
\* leaves the old file.
save_tables(tdb, rdb, cut) ==
    [timings |-> IF cut = "timings" THEN NoFn ELSE tdb,
     results |-> CASE cut \in {"timings", "between"} -> resultsDB
                   [] cut = "results"              -> NoFn
                   [] OTHER                        -> rdb]

\* fut.result() re-raises a worker's exception in main: the loop is left
\* with the rest of the batch unhandled, the executor's shutdown waits for
\* the other workers, and the finally block saves the tables as they are.
Abort(t) ==
    /\ pc = "pool"
    /\ t \in batch \cap raised
    /\ \E cut \in SaveCuts :
         LET saved == save_tables(timingsDB,
                                  IF useCache /\ aliased THEN suiteResults ELSE resultsDB, cut)
         IN  timingsDB' = saved.timings /\ resultsDB' = saved.results
    /\ pc' = "idle"
    /\ lastEnd' = "aborted"
    /\ pending' = {}
    /\ batch' = {}
    /\ finished' = NoFn
    /\ raised' = {}
    /\ UNCHANGED <<world, artifacts, runs, useCache, aliased,
                   suiteResults, suiteTimings, specs, submitIdx, liveJobs, hits>>

\* Fault variant: on completion the results reach results_db only through
\* the alias, never by the assignment results_db[suite_key] = suite_results.
EndRun_alias_only ==
    /\ pc = "pool"
    /\ pending = {}
    /\ batch = {}
    /\ timingsDB' = IF suiteTimings # NoFn THEN suiteTimings ELSE timingsDB
    /\ resultsDB' = IF useCache /\ aliased THEN suiteResults ELSE resultsDB
    /\ pc' = "idle"
    /\ lastEnd' = "completed"
    /\ UNCHANGED <<world, artifacts, runs, useCache, aliased, suiteResults,
                   suiteTimings, specs, submitIdx, liveJobs, pending, batch,
                   finished, raised, hits>>

(***************************************************************************)
(* The suite ends (while pending is empty) and the finally block saves     *)
(* the timing table and, with the cache on, the result table.              *)
(***************************************************************************)
EndRun ==
    /\ pc = "pool"
    /\ pending = {}
    /\ batch = {}
    /\ \E cut \in SaveCuts :
         LET saved == save_tables(IF suiteTimings # NoFn THEN suiteTimings ELSE timingsDB,
                                  IF useCache THEN suiteResults ELSE resultsDB, cut)
         IN  timingsDB' = saved.timings /\ resultsDB' = saved.results
    /\ pc' = "idle"
    /\ lastEnd' = "completed"
    /\ UNCHANGED <<world, artifacts, runs, useCache, aliased, suiteResults,
                   suiteTimings, specs, submitIdx, liveJobs, pending, batch,
                   finished, raised, hits>>

(***************************************************************************)
(* KeyboardInterrupt during the suite: SIGINT also reaches the compilers   *)
(* of the workers still running, which can leave partial artifacts, and    *)
(* the finally block saves the tables as they are in memory. The suite's   *)
(* timings were never put into                                             *)
(* timings_db; its results are there only when suite_results aliases the  *)
(* loaded table.                                                           *)
(***************************************************************************)
Interrupt ==
    /\ pc = "pool"
    /\ \E cut \in SaveCuts :
         LET saved == save_tables(timingsDB,
                                  IF useCache /\ aliased THEN suiteResults ELSE resultsDB, cut)
         IN  timingsDB' = saved.timings /\ resultsDB' = saved.results
    /\ pc' = "idle"
    /\ lastEnd' = "interrupted"
    /\ LET compiling == {t \in pending \ (DOMAIN finished \cup raised) :
                            NativeOn /\ ~native_cache_fresh(native_cache_key(t))}
       IN  \E killed \in IF PartialArtifacts THEN SUBSET compiling ELSE {{}} :
             artifacts' = [k \in {native_cache_key(t) : t \in killed} |->
                             [from |-> Basis(CHOOSE t \in killed : native_cache_key(t) = k),
                              whole |-> FALSE]] @@ artifacts
    /\ pending' = {}
    /\ batch' = {}
    /\ finished' = NoFn
    /\ raised' = {}
    /\ UNCHANGED <<world, runs, useCache, aliased,
                   suiteResults, suiteTimings, specs, submitIdx, liveJobs, hits>>

(***************************************************************************)
(* The developer, between runs. Edits before the first run or after the   *)
(* last one change nothing a run can observe, so they are left out.       *)
(***************************************************************************)
BetweenRuns == pc = "idle" /\ 0 < runs /\ runs < MaxRuns

EditTest(t) ==
    /\ BetweenRuns
    /\ srcVer[t] < MaxVersion
    /\ srcVer' = [srcVer EXCEPT ![t] = @ + 1]
    /\ UNCHANGED <<compSrcVer, binVer, stdVer, store, coord>>

\* Edit the compiler sources; rebuild at once unless builds may lag.
EditCompiler ==
    /\ BetweenRuns
    /\ compSrcVer < MaxVersion
    /\ compSrcVer' = compSrcVer + 1
    /\ binVer' = IF LaggingBuild THEN binVer ELSE compSrcVer + 1
    /\ UNCHANGED <<srcVer, stdVer, store, coord>>

Rebuild ==
    /\ LaggingBuild
    /\ BetweenRuns
    /\ binVer # compSrcVer
    /\ binVer' = compSrcVer
    /\ UNCHANGED <<srcVer, compSrcVer, stdVer, store, coord>>

EditStd ==
    /\ StdEdits
    /\ BetweenRuns
    /\ stdVer < MaxVersion
    /\ stdVer' = stdVer + 1
    /\ UNCHANGED <<srcVer, compSrcVer, binVer, store, coord>>

Developer == (\E t \in Tests : EditTest(t)) \/ EditCompiler \/ Rebuild \/ EditStd

Coordinator ==
    StartRun \/ Wait \/ (\E t \in Tests : Collect(t) \/ Abort(t)) \/ EndRun

Next ==
    \/ Coordinator
    \/ \E t \in Tests : run_test(t) \/ run_test_raises(t)
    \/ Interrupt
    \/ Developer

(***************************************************************************)
(* Every phase of run_test is bounded by PROC_TIMEOUT, so a busy worker    *)
(* finishes; the coordinator polls wait() with a timeout of at most 5 s.   *)
(* Starting a run, interrupting it and editing files are the user's        *)
(* choice and are not fair.                                                *)
(***************************************************************************)
Fairness ==
    /\ \A t \in Tests : WF_vars(run_test(t) \/ run_test_raises(t))
    /\ WF_vars(Wait \/ (\E t \in Tests : Collect(t) \/ Abort(t)) \/ EndRun)

Spec == Init /\ [][Next]_vars /\ Fairness

\* The state as far as any later step can tell: a worker's phase outcomes
\* only matter through print_res's verdict, so runs that differ only in
\* which phase failed are the same state for the model checker.
Observed ==
    <<world, store, pc, runs, useCache, aliased, suiteResults, suiteTimings,
      specs, submitIdx, liveJobs, pending, batch, raised, hits, lastEnd,
      [t \in DOMAIN finished |->
         [ok |-> phases_ok(finished[t]), hasRepl |-> finished[t].repl # "skip",
          dur |-> finished[t].dur, basis |-> finished[t].basis,
          elfBasis |-> finished[t].elfBasis, elfWhole |-> finished[t].elfWhole]]>>
(***************************************************************************)
(* Properties.                                                             *)
(***************************************************************************)

BasisRec == [src : Versions, std : Versions, bin : Versions]
\* A signature is an opaque digest: only its presence is typed.
IsEntry(e) ==
    /\ DOMAIN e = {"sig", "ok", "dur", "basis", "elfBasis", "hasRepl"}
    /\ e.ok \in BOOLEAN /\ e.dur \in Durations /\ e.hasRepl \in BOOLEAN
    /\ e.basis \in BasisRec /\ e.elfBasis \in BasisRec
Result == [aot : Phase, repl : Phase, elf : Phase, dur : Durations,
           basis : BasisRec, elfBasis : BasisRec, elfWhole : BOOLEAN]
IsTable(f, S, T) == DOMAIN f \subseteq S /\ \A x \in DOMAIN f : f[x] \in T
IsEntryTable(f) == DOMAIN f \subseteq Tests /\ \A x \in DOMAIN f : IsEntry(f[x])

TypeOK ==
    /\ srcVer \in [Tests -> Versions]
    /\ {compSrcVer, binVer, stdVer} \subseteq Versions
    /\ IsTable(timingsDB, Tests, Durations)
    /\ IsEntryTable(resultsDB)
    /\ \A k \in DOMAIN artifacts : artifacts[k] \in [from : BasisRec, whole : BOOLEAN]
    /\ pc \in {"idle", "pool"}
    /\ runs \in 0..MaxRuns
    /\ useCache \in BOOLEAN /\ aliased \in BOOLEAN
    /\ IsEntryTable(suiteResults)
    /\ IsTable(suiteTimings, Tests, Durations)
    /\ \A i \in 1..Len(specs) : specs[i].path \in Tests
    /\ submitIdx \in 0..Len(specs)
    /\ liveJobs \in 1..Jobs
    /\ pending \subseteq Tests /\ batch \subseteq Tests
    /\ IsTable(finished, Tests, Result)
    /\ raised \subseteq pending \cup batch
    /\ hits \subseteq Tests
    /\ lastEnd \in {"none", "completed", "interrupted", "aborted"}

\* The cache contract of test_sig and cache_hit: an outcome answered from
\* the result cache is the outcome of the test as it is now -- its phases
\* ran on the current test source, std tree and compiler binary, and the
\* native phase ran an artifact built from them.
CachedOutcomeCurrent ==
    pc = "pool" =>
        \A t \in hits :
            /\ suiteResults[t].basis = Basis(t)
            /\ NativeOn => suiteResults[t].elfBasis = Basis(t)

\* native_cache_fresh (spec section 4.2: existence and non-zero size): a
\* native phase that reuses the file under native_cache_key runs a binary
\* the compiler finished writing.
ReusedArtifactWhole == \A t \in DOMAIN finished : finished[t].elfWhole

\* Artifact reuse in run_test: when the native phase runs an artifact
\* found under native_cache_key (instead of compiling one), that artifact
\* was built from the test source, std tree and compiler binary of now.
ArtifactReuseCurrent ==
    \A t \in DOMAIN finished : finished[t].elfBasis = finished[t].basis

\* Fill-the-gap scheduling in main's pool loop: whenever the coordinator
\* is waiting and specs remain unsubmitted, live_jobs futures are pending.
Saturation ==
    (pc = "pool" /\ batch = {} /\ submitIdx < Len(specs))
        => Cardinality(pending) = liveJobs

\* Longest-first: of two pending tests whose last persisted durations are
\* d1 > d2 (and whose cost hints do not exceed them), the first is
\* submitted no later than the second.
LongestFirst ==
    pc = "pool" =>
        \A i, j \in 1..Len(specs) :
            LET a == specs[i].path  b == specs[j].path
            IN  ( /\ {a, b} \subseteq DOMAIN timingsDB
                  /\ timingsDB[a] > timingsDB[b]
                  /\ CostHint[a] <= timingsDB[a]
                  /\ CostHint[b] <= timingsDB[b] ) => i < j

\* A run that completes the suite leaves a timing for every matched test,
\* and with the cache on a result entry for every one of them.
CompletedRunCovers ==
    (pc = "idle" /\ lastEnd = "completed")
        => /\ DOMAIN timingsDB = Tests
           /\ useCache => DOMAIN resultsDB = Tests

\* Every started run ends: main leaves the pool loop and saves the tables.
Termination == (pc = "pool") ~> (pc = "idle")

\* Interruption safety (spec section 8): after a run interrupted by the
\* user, or aborted by a worker's exception, the timing and result of every
\* test that completed in it are persisted.
InterruptKeepsProgress ==
    (pc = "idle" /\ lastEnd \in {"interrupted", "aborted"})
        => \A t \in DOMAIN suiteTimings \ hits :
               /\ t \in DOMAIN timingsDB
               /\ useCache => t \in DOMAIN resultsDB
(***************************************************************************)
(* Refinement: main's pool loop implements the AbstractPool contract.      *)
(* The cases still to submit are the specs after submitIdx, the running    *)
(* ones the pending futures, the ready ones wait()'s last batch, and the   *)
(* collected ones the tests the suite timed that were not cache hits.      *)
(* Worker steps, developer edits and table saves are stuttering steps.     *)
(***************************************************************************)
AP == INSTANCE AbstractPool WITH
        Cases <- Tests, W <- Jobs, apc <- pc,
        todo <- IF pc = "pool"
                THEN {specs[i].path : i \in submitIdx + 1 .. Len(specs)}
                ELSE {},
        running <- pending, ready <- batch,
        done <- DOMAIN suiteTimings \ hits

\* Every behaviour of the pool loop is one the contract allows: at most
\* Jobs futures outstanding and the pool refilled to that on every
\* collection, each case submitted and collected once, and a run ended as
\* completed only when every case was.
PoolRefinement == AP!ASpec
=============================================================================
