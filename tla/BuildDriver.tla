----------------------------- MODULE BuildDriver -----------------------------
(***************************************************************************)
(* The command loop of src/etc/tools/main.py across invocations of         *)
(* `py make <commands>`, with what it does to the build tree and to the    *)
(* user's directories:                                                     *)
(*   - clean: shutil.rmtree(BUILD_DIR), then _safe_remove_path on the test *)
(*     and compiler cache candidates;                                      *)
(*   - every other command: _resolve_jobs, the install reuse check,        *)
(*     cmake.ensure_std_bundle_fresh, cmake.cmake_build with the in-process *)
(*     CONFIGURED memo and cmake_configure's CMakeCache check, then the    *)
(*     command's runner in commands.py;                                   *)
(*   - after tests, the optional gates: perfgate.py against the baseline  *)
(*     in ROOT/build/cache, and the sanitizer gates, each a child         *)
(*     `make test` in its own build directory.                            *)
(* A directory is a name in a small tree; a std tree, std.ny bundle or     *)
(* sha1 signature is the version of the std sources it was made from.      *)
(***************************************************************************)
EXTENDS Naturals, Sequences, FiniteSets

CONSTANTS
    Paths,        \* directories of the model's file tree
    Parent,       \* Parent[p] for every path but "/"
    Home,         \* Path.home()
    RepoRoot,     \* context.ROOT
    TmpDir,       \* tempfile.gettempdir()
    BuildDir,     \* context.BUILD_DIR
    DefaultCache, \* the platform default of _default_test_cache_root
    FixedCandidates, \* the other cache paths clean removes
    CacheDirEnv,  \* NYTRIX_TEST_CACHE_DIR values: a path or "" (unset)
    CmdLines,     \* command lists a user may type
    Prefixes,     \* the options cmake_configure compares with CMakeCache
    Compilers,    \* CC values picked by configure_toolchain
    MaxStd,       \* number of versions of the std tree
    MaxRuns,      \* invocations of the script
    StdLocked,    \* TRUE: unlinking std.ny may fail (a reader holds it)
    SanModes,     \* values of _san_mode(): "", "asan", "ubsan", "both"
    BaselineDir   \* ROOT/build/cache, which holds perf_gate_baseline.json

Kinds == {"release", "debug"}

\* The sanitizer gates' build directories <BUILD_DIR>/asan and /ubsan.
SanDirs == {"asan", "ubsan"}

Dirs == Kinds \cup SanDirs

VARIABLES
    intact,   \* the directories whose contents no rmtree has removed
    stdSrc,   \* version of std/*.ny and etc/tools/std.py
    art,      \* per build kind: std_sources.sha1, std.ny, CMakeCache, binaries
    env,      \* os.environ of the current invocation
    inv,      \* the command loop of the current invocation
    lastTest, \* what the last run_test used
    baseline, \* perf_gate_baseline.json exists
    installed, \* the prefixes that hold an installed nytrix
    runs      \* invocations so far

vars == <<intact, stdSrc, art, env, inv, lastTest, baseline, installed, runs>>

\* No CMakeCache.txt in the build directory.
NoCache == [prefix |-> "none", cc |-> "none"]

\* manifest: the prefix install_manifest.txt lists files of, or "none".
NoArtifacts == [sig |-> 0, bundle |-> 0, cache |-> NoCache, bins |-> FALSE,
                manifest |-> "none"]

(***************************************************************************)
(* Paths.                                                                  *)
(***************************************************************************)
RECURSIVE AncestorsOf(_)
AncestorsOf(p) == IF p = "/" THEN {} ELSE {Parent[p]} \cup AncestorsOf(Parent[p])

\* A directory and everything below it: what shutil.rmtree removes.
Subtree(p) == {q \in Paths : q = p \/ p \in AncestorsOf(q)}

\* _default_test_cache_root: NYTRIX_TEST_CACHE_DIR when set, otherwise the
\* platform cache directory.
default_test_cache_root(cacheEnv) == IF cacheEnv # "" THEN cacheEnv ELSE DefaultCache

\* _test_cache_candidates and _compiler_cache_candidates: the default test
\* cache root, then the fixed candidates (tmp/nytrix-test-cache,
\* ROOT/build/cache, ~/.cache/nytrix/jit and the cache files in tmp).
CacheCandidates(cacheEnv) == {default_test_cache_root(cacheEnv)} \cup FixedCandidates

\* Fault variant: no banned set.
safe_remove_path_unguarded(p) == Subtree(p)

\* The banned set of _safe_remove_path.
Banned == {"/", Home, RepoRoot, TmpDir}

\* _safe_remove_path: refuses the banned paths themselves, otherwise
\* unlinks or rmtrees the path.
safe_remove_path(p) == IF p \in Banned THEN {} ELSE Subtree(p)

\* What clean removes: BUILD_DIR by shutil.rmtree without any check, then
\* _clean_test_caches and _clean_compiler_caches, each candidate through
\* _safe_remove_path.
clean_removes(cacheEnv) ==
    Subtree(BuildDir) \cup UNION {safe_remove_path(c) : c \in CacheCandidates(cacheEnv)}

(***************************************************************************)
(* cmake.py.                                                               *)
(***************************************************************************)
\* Fault variant: outputs never deleted on a signature change.
ensure_std_bundle_fresh_keep(a, h, unlinked) ==
    IF a.sig = h THEN a ELSE [a EXCEPT !.sig = h]

\* ensure_std_bundle_fresh: when std_sources.sha1 differs from the sha1 of
\* the std tree, unlink std.ny and std_symbols.h (errors swallowed) and
\* write the new signature.
ensure_std_bundle_fresh(a, h, unlinked) ==
    IF a.sig = h THEN a
    ELSE [a EXCEPT !.sig = h, !.bundle = IF unlinked THEN 0 ELSE @]

\* Fault variant: an existing CMakeCache is always up to date.
cmake_configure_cache_only(a, e) ==
    IF a.cache # NoCache /\ ~e.reconfigure THEN a ELSE [a EXCEPT !.cache = e.cfg]

\* cmake_configure: rerun cmake unless CMakeCache.txt records the current
\* install prefix, LTO, PGO and debug-info options; NYTRIX_RECONFIGURE=1
\* forces the run. The compiler is not compared.
cmake_configure(a, e) ==
    IF /\ a.cache # NoCache /\ a.cache.prefix = e.cfg.prefix
       /\ ~e.reconfigure
    THEN a
    ELSE [a EXCEPT !.cache = e.cfg]

\* main's install check: every required artifact (ny, ny-lsp, std.ny and
\* the runtime library) exists, so the build is skipped.
install_reuses(a) == a.bins /\ a.bundle # 0

\* commands.run_install: SystemExit when an artifact is missing.
install_missing(a) == ~(a.bins /\ a.bundle # 0)

\* commands.run_install, once the artifacts are there: `cmake --install`
\* with --prefix from PREFIX (set in every modelled environment) copies the
\* files and rewrites <kind>/install_manifest.txt; a failure (no write
\* access to the prefix) raises SystemExit.
run_install(a, prefix, ok) == IF ok THEN [a EXCEPT !.manifest = prefix] ELSE a

\* commands.run_uninstall: SystemExit when install_manifest.txt is missing,
\* otherwise every path it lists is unlinked or rmtree'd (failures are
\* counted, not raised); the manifest itself stays.
uninstall_missing(a) == a.manifest = "none"

run_uninstall(inst, a) == IF uninstall_missing(a) THEN inst ELSE inst \ {a.manifest}

\* commands.run_std and std.run_std_bundle: build/release/std.ny is
\* rewritten from the current std tree.
run_std_bundle(a) == [a EXCEPT !.bundle = stdSrc]

\* commands.run_test: test.py runs with NYTRIX_BUILD_STD_PATH set to the
\* kind's std.ny, against the std tree as it is now.
\* (main's switch to _enable_real_test_env only turns off test.py's caches,
\* which TestOrchestrator models; it changes nothing this module observes.)
run_test(a) == [ran |-> TRUE, std |-> a.bundle, cur |-> stdSrc]

\* fuzz.run_case_proc and run_case_index: a case crashed (negative return
\* code, "Caught signal" or an AddressSanitizer report), timed out (also
\* counted as a crash), panicked ("Panic:" on stderr) or ran clean.
FuzzOutcomes == {"clean", "crashed", "timed_out", "panicked"}

\* run_fuzz_harness returns 1 when some case crashed or timed out, or
\* panicked under NYTRIX_FUZZ_FAIL_ON_PANIC; run_fuzz raises SystemExit(rc).
fuzz_fails(outcomes, failOnPanic) ==
    \E o \in outcomes : o \in {"crashed", "timed_out"} \/ (failOnPanic /\ o = "panicked")

\* run_repl never returns: os.execv replaces the process on POSIX, and on
\* Windows the child's exit status is raised as SystemExit.
run_repl_returns == FALSE

\* cmake_build: the CONFIGURED memo, keyed by kind and build directory,
\* skips cmake_configure for the rest of the process.
configure_unless_memo(a, memo, e) == IF memo THEN a ELSE cmake_configure(a, e)

\* main's build_targets; fmt, uninstall and clean build nothing.
BuildTargets ==
    [c \in {"all", "bin", "std", "test", "repl", "fuzz", "docs", "install"} |->
        CASE c = "all"     -> {"ny", "ny-lsp", "nytrixrt"}
          [] c = "std"     -> {"std_bundle"}
          [] c = "docs"    -> {"ny", "std_bundle"}
          [] c = "install" -> {"ny", "ny-lsp", "std_bundle", "nytrixrt"}
          [] OTHER         -> {"ny"}]

HasTargets(c) == c \in DOMAIN BuildTargets

\* cmake_build: `cmake --build` of the configured directory. Missing
\* std.ny and std_symbols.h are regenerated from the current std tree;
\* whether CMake also refreshes an existing stale bundle depends on the
\* dependencies it tracks, so both outcomes are possible.
BuiltBundles(a) ==
    IF a.bundle = 0 THEN {stdSrc} ELSE {a.bundle, stdSrc}

(***************************************************************************)
(* The optional gates.                                                     *)
(***************************************************************************)
\* _run_optional_gates: the perf gate when PERF or NYTRIX_PERF is on, then
\* the sanitizer gates _san_mode() names, in this order.
OptionalGates(e) ==
    (IF e.perf THEN <<"perf">> ELSE <<>>)
    \o (CASE e.san = "asan"  -> <<"asan">>
          [] e.san = "ubsan" -> <<"ubsan">>
          [] e.san = "both"  -> <<"asan", "ubsan">>
          [] OTHER           -> <<>>)

\* _has_optional_gates: `all` runs the tests only when a gate is on.
has_optional_gates(e) == OptionalGates(e) # <<>>

\* commands._sanitizer_env: the parent's os.environ without SAN, NYTRIX_SAN,
\* PERF and NYTRIX_PERF (and NYTRIX_SKIP_OPTIONAL_GATES=1), so the child
\* runs no gates; the sanitizer flags go to NYTRIX_HOST_CFLAGS/LDFLAGS,
\* which the CMakeCache check does not compare.
sanitizer_env(e) == [e EXCEPT !.perf = FALSE, !.san = ""]

\* perfgate.main's verdicts: with a baseline, the medians are compared
\* (a regression returns 1); without one the gate prints that it skips the
\* comparison and returns 0. A failing benchmark raises RuntimeError in
\* either case.
PerfVerdicts(hasBaseline) ==
    IF hasBaseline THEN {"passed", "regressed", "error"} ELSE {"skipped", "error"}

(***************************************************************************)
(* The command loop.                                                       *)
(***************************************************************************)
Init ==
    /\ intact = Paths
    /\ stdSrc = 1
    /\ art = [k \in Dirs |-> NoArtifacts]
    /\ env = [cacheDir |-> "", cfg |-> [prefix |-> CHOOSE x \in Prefixes : TRUE,
                                         cc |-> CHOOSE x \in Compilers : TRUE],
              reconfigure |-> FALSE, perf |-> FALSE, san |-> ""]
    /\ inv = [cmds |-> <<>>, cleanSeen |-> FALSE,
              configured |-> {}, error |-> "none", gates |-> <<>>, perf |-> "none"]
    /\ lastTest = [ran |-> FALSE, std |-> 0, cur |-> 0]
    /\ baseline = FALSE
    /\ installed = {}
    /\ runs = 0

Active == inv.cmds # <<>> \/ inv.gates # <<>>

\* `py make <commands>` with the environment of the shell: main() parses
\* the command list, and the options cmake_configure and run_test read.
\* Variables no command of the line reads are left unset: the cache
\* directory is read only by clean, PERF and SAN only after test or all.
Cleans(cl) == \E i \in DOMAIN cl : cl[i] = "clean"
Gated(cl) == \E i \in DOMAIN cl : cl[i] \in {"test", "all"}

Start ==
    /\ ~Active /\ runs < MaxRuns
    /\ \E cl \in CmdLines, p \in Prefixes, cc \in Compilers, rc \in BOOLEAN :
       \E c \in IF Cleans(cl) THEN CacheDirEnv ELSE {""},
          perf \in IF Gated(cl) THEN BOOLEAN ELSE {FALSE},
          san \in IF Gated(cl) THEN SanModes ELSE {""} :
         /\ env' = [cacheDir |-> c, cfg |-> [prefix |-> p, cc |-> cc],
                    reconfigure |-> rc, perf |-> perf, san |-> san]
         /\ inv' = [cmds |-> cl, cleanSeen |-> FALSE,
                    configured |-> {}, error |-> "none", gates |-> <<>>, perf |-> "none"]
    /\ runs' = runs + 1
    /\ UNCHANGED <<intact, stdSrc, art, lastTest, baseline, installed>>

\* The "clean" branch: rmtree(BUILD_DIR) without a check, then
\* _clean_test_caches and _clean_compiler_caches through _safe_remove_path.
\* ROOT/build/cache is a compiler cache candidate, so the perf baseline in
\* it goes too.
Clean ==
    /\ inv.cmds # <<>> /\ inv.gates = <<>> /\ Head(inv.cmds) = "clean"
    /\ LET removed == clean_removes(env.cacheDir)
       IN /\ intact' = intact \ removed
          /\ baseline' = (baseline /\ BaselineDir \notin removed)
    /\ art' = [k \in Dirs |-> NoArtifacts]
    /\ inv' = [inv EXCEPT !.cmds = Tail(@), !.cleanSeen = TRUE]
    /\ UNCHANGED <<stdSrc, env, lastTest, runs, installed>>

\* One pass of the loop for any other command: the install reuse check,
\* ensure_std_bundle_fresh (not for "std"), cmake_build, then the runner.
\* A failed `cmake --build` or test.py raises CalledProcessError out of
\* main; tests that pass are followed by the optional gates.
Command ==
    /\ inv.cmds # <<>> /\ inv.gates = <<>> /\ Head(inv.cmds) # "clean"
    /\ LET cmd == Head(inv.cmds)
           kind == IF cmd = "fuzz" THEN "debug" ELSE "release"
           a0 == art[kind]
           skip == cmd = "install" /\ install_reuses(a0)
           build == HasTargets(cmd) /\ ~skip
           memo == kind \in inv.configured
       IN
       \E unlinked \in IF StdLocked THEN BOOLEAN ELSE {TRUE},
          ok \in BOOLEAN, bundle \in {0} \cup 1..MaxStd,
          testOk \in IF cmd \in {"test", "all"} THEN BOOLEAN ELSE {TRUE},
          \* one case's outcome: a suite's verdict is that of its worst case
          outs \in IF cmd = "fuzz" THEN {{o} : o \in FuzzOutcomes} ELSE {{}},
          failOnPanic \in IF cmd = "fuzz" THEN BOOLEAN ELSE {FALSE},
          instOk \in IF cmd = "install" THEN BOOLEAN ELSE {TRUE} :
         LET a1 == IF build /\ cmd # "std" THEN ensure_std_bundle_fresh(a0, stdSrc, unlinked) ELSE a0
             a2 == IF build THEN configure_unless_memo(a1, memo, env) ELSE a1
             \* CONFIGURED still names a directory that clean removed
             lost == build /\ memo /\ a2.cache = NoCache
             a3 == IF build /\ ok /\ ~lost THEN [a2 EXCEPT !.bins = TRUE, !.bundle = bundle] ELSE a2
             fails == build /\ (~ok \/ lost)
             a4 == IF cmd = "std" /\ ~fails THEN run_std_bundle(a3) ELSE a3
             tests == ~fails /\ (cmd = "test" \/ (cmd = "all" /\ has_optional_gates(env)))
             testFails == tests /\ ~testOk
             missing == cmd = "install" /\ install_missing(a4)
             installs == cmd = "install" /\ ~fails /\ ~missing
             instFails == installs /\ ~instOk
             a5 == IF installs THEN run_install(a4, env.cfg.prefix, instOk) ELSE a4
             noManifest == cmd = "uninstall" /\ uninstall_missing(a4)
             fuzzFails == cmd = "fuzz" /\ ~fails /\ fuzz_fails(outs, failOnPanic)
             ends == cmd = "repl" /\ ~fails /\ ~run_repl_returns
         IN
         /\ build /\ ok /\ ~lost => bundle \in BuiltBundles(a2)
         /\ ~(build /\ ok /\ ~lost) => bundle = 0
         /\ art' = [art EXCEPT ![kind] = a5]
         /\ lastTest' = IF tests THEN run_test(a4) ELSE lastTest
         /\ installed' = CASE installs /\ instOk -> installed \cup {env.cfg.prefix}
                            [] cmd = "uninstall" -> run_uninstall(installed, a4)
                            [] OTHER -> installed
         /\ inv' = [inv EXCEPT
                      !.cmds = IF fails \/ testFails \/ missing \/ instFails \/ noManifest
                                  \/ fuzzFails \/ ends
                               THEN <<>> ELSE Tail(@),
                      !.gates = IF tests /\ testOk THEN OptionalGates(env) ELSE @,
                      !.configured = IF build THEN @ \cup {kind} ELSE @,
                      !.error = CASE lost    -> "unconfigured"
                                  [] fails   -> "build"
                                  [] testFails -> "test"
                                  [] missing \/ instFails -> "install"
                                  [] noManifest -> "uninstall"
                                  [] fuzzFails -> "fuzz"
                                  [] OTHER   -> @]
    /\ UNCHANGED <<intact, stdSrc, env, baseline, runs>>

\* commands.run_perf runs perfgate.py on build/release/ny, which the test
\* command has just built; perfgate.main writes perf_gate_latest.json and
\* compares with perf_gate_baseline.json when load_baseline finds one. A
\* non-zero exit raises out of main.
PerfGate ==
    /\ inv.gates # <<>> /\ Head(inv.gates) = "perf"
    /\ \E verdict \in PerfVerdicts(baseline) :
         LET fails == verdict \in {"regressed", "error"}
         IN inv' = [inv EXCEPT !.perf = verdict,
                               !.gates = IF fails THEN <<>> ELSE Tail(@),
                               !.cmds = IF fails THEN <<>> ELSE @,
                               !.error = IF fails THEN "perf" ELSE @]
    /\ UNCHANGED <<intact, stdSrc, art, env, lastTest, baseline, runs, installed>>

\* commands.run_sanitizer: a child `make test` with _sanitizer_env, i.e.
\* BUILD_DIR=<BUILD_DIR>/<san>, NYTRIX_SKIP_OPTIONAL_GATES=1 and the rest of
\* os.environ inherited. The child
\* has its own CONFIGURED memo, so it runs ensure_std_bundle_fresh,
\* cmake_configure, cmake --build and test.py on its own directory.
SanitizerGate ==
    /\ inv.gates # <<>> /\ Head(inv.gates) \in SanDirs
    /\ LET d == Head(inv.gates)
           a1 == art[d]
       IN
       \E unlinked \in IF StdLocked THEN BOOLEAN ELSE {TRUE},
          ok, testOk \in BOOLEAN, bundle \in {0} \cup 1..MaxStd :
         LET a2 == cmake_configure(ensure_std_bundle_fresh(a1, stdSrc, unlinked),
                                   sanitizer_env(env))
             a3 == IF ok THEN [a2 EXCEPT !.bins = TRUE, !.bundle = bundle] ELSE a2
             fails == ~ok \/ ~testOk
         IN
         /\ OptionalGates(sanitizer_env(env)) = <<>>
         /\ ok => bundle \in BuiltBundles(a2)
         /\ ~ok => bundle = 0
         /\ art' = [art EXCEPT ![d] = a3]
         /\ lastTest' = IF ok THEN run_test(a3) ELSE lastTest
         /\ inv' = [inv EXCEPT !.gates = IF fails THEN <<>> ELSE Tail(@),
                               !.cmds = IF fails THEN <<>> ELSE @,
                               !.error = IF fails THEN "sanitizer" ELSE @]
    /\ UNCHANGED <<intact, stdSrc, env, baseline, installed, runs>>

\* KeyboardInterrupt between two commands: main returns 130.
Interrupt ==
    /\ Active
    /\ inv' = [inv EXCEPT !.cmds = <<>>, !.gates = <<>>]
    /\ UNCHANGED <<intact, stdSrc, art, env, lastTest, baseline, runs, installed>>

\* The developer edits the std tree between invocations.
EditStd ==
    /\ ~Active /\ stdSrc < MaxStd
    /\ stdSrc' = stdSrc + 1
    /\ UNCHANGED <<intact, art, env, inv, lastTest, baseline, runs, installed>>

\* The developer records a baseline by hand with perfgate.py
\* --write-baseline: _run_optional_gates never passes the flag.
WriteBaseline ==
    /\ ~Active /\ ~baseline /\ art["release"].bins
    /\ baseline' = TRUE
    /\ UNCHANGED <<intact, stdSrc, art, env, inv, lastTest, runs, installed>>

Next == Start \/ Clean \/ Command \/ PerfGate \/ SanitizerGate \/ Interrupt
            \/ EditStd \/ WriteBaseline

Spec == Init /\ [][Next]_vars

(***************************************************************************)
(* Properties.                                                             *)
(***************************************************************************)

TypeOK ==
    /\ intact \subseteq Paths
    /\ stdSrc \in 1..MaxStd
    /\ art \in [Dirs -> [sig : 0..MaxStd, bundle : 0..MaxStd,
                          cache : {NoCache} \cup [prefix : Prefixes, cc : Compilers],
                          bins : BOOLEAN, manifest : {"none"} \cup Prefixes]]
    /\ installed \subseteq Prefixes
    /\ inv.configured \subseteq Kinds
    /\ inv.perf \in {"none", "skipped", "passed", "regressed", "error"}
    /\ baseline \in BOOLEAN
    /\ runs \in 0..MaxRuns

\* The std bundle is kept fresh (ensure_std_bundle_fresh): every test run
\* uses a std.ny built from the std tree as it is when the test runs.
TestUsesCurrentStd == lastTest.ran => lastTest.std = lastTest.cur

\* _safe_remove_path's banned set: clean never removes "/", the home
\* directory, ROOT or the temp directory, nor a directory holding them.
ProtectedPathsSurvive == Banned \subseteq intact

\* cmake_configure's CMakeCache check: once a kind is configured in this
\* process, its build directory is configured with the current install
\* prefix, even when CMakeCache.txt is left over from an invocation with
\* another PREFIX or a failed build. The check never compares the
\* compiler, so the build run keeps one compiler (Compilers) and this
\* property is about the prefix.
ConfigurationCurrent ==
    \A k \in inv.configured : art[k].cache # NoCache => art[k].cache = env.cfg

====
