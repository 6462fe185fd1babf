---------------------------- MODULE HostProfiler ----------------------------
(***************************************************************************)
(* The test worker count of src/etc/tools/test.py (detect_physical_cores, *)
(* smt_factor, default_test_jobs_soft_cap, auto_threads with its ARM cap,  *)
(* recommended_jobs, effective_jobs), the build job count of              *)
(* src/etc/tools/main.py (_resolve_jobs with its ARM memory cap), and the  *)
(* build directory of context.py and cmake.py. src/etc/tools/jobs.py holds *)
(* an older copy of the worker policy that nothing imports; it is not      *)
(* modelled.                                                               *)
(*                                                                         *)
(* A state is one host as the functions observe it, and the results of the *)
(* entry points once they have been asked. Every formula is integer       *)
(* arithmetic: the float products int(n * 0.75), int(n * 0.6) and so on   *)
(* equal the integer quotients used here for every n below 300, and the    *)
(* SMT ratio logical / physical is compared by cross-multiplication.       *)
(***************************************************************************)
EXTENDS Integers, Sequences, TLC

CONSTANTS
    MaxLogical,    \* largest os.cpu_count() considered
    OSes,          \* host_os() values: "linux", "macos", "windows", "unknown"
    ProfileNames,  \* NYTRIX_AUTO_THREADS values, aliases and junk included
    UserJobs,      \* the -j/--jobs argument of main.py (0 = not given)
    ArmCapRaw,     \* NYTRIX_ARM_BUILD_JOBS_CAP, stripped text ("" = unset)
    MemGiB,        \* MemTotal of /proc/meminfo in GiB; 0 = unreadable
    Requested,     \* the --jobs argument of test.py (0 = not given)
    EnvTexts,      \* texts of NYTRIX_TEST_ARM_JOBS_CAP / _AUTO_JOBS_CAP /
                   \* _FORCE_JOBS, stripped ("" = unset)
    MaxChecks,     \* the max_checks argument of first_unwritable_path
    MaxTree        \* entries in a build tree

ASSUME /\ MaxLogical \in Nat \ {0}
       /\ OSes \subseteq {"linux", "macos", "windows", "unknown"}
       /\ UserJobs \subseteq Nat
       /\ MemGiB \subseteq Nat
       /\ Requested \subseteq Nat
       /\ MaxChecks \in Nat /\ MaxTree \in Nat

VARIABLES
    host,       \* the machine: os, arm, logical, and what topology reports
    breq,       \* the arguments of the _resolve_jobs call
    buildJobs,  \* its result, 0 before the call
    treq,       \* the inputs of test.py effective_jobs
    testJobs,   \* its result, 0 before the call
    fs,         \* what resolve_build_dir and the guard look at
    bd          \* where the build goes and what the guard said

vars == <<host, breq, buildJobs, treq, testJobs, fs, bd>>

MinOf(a, b) == IF a < b THEN a ELSE b
MaxOf(a, b) == IF a > b THEN a ELSE b

(***************************************************************************)
(* The host. cpuIds is the shape of /proc/cpuinfo: "none" (no physical or  *)
(* core id lines), "unreadable", or distinct (physical id, core id) pairs  *)
(* numbering one, half the logical CPUs, or all of them. sysctl is the     *)
(* answer of sysctl -n hw.physicalcpu on macOS: "fail", "half" or "all".   *)
(***************************************************************************)
CpuShapes == {"none", "unreadable", "one", "half", "all"}

\* host_os, host_machine and is_arm_riscv_machine: the platform facts.
Hosts ==
    UNION {
      {[os |-> o, arm |-> a, logical |-> l, cpuIds |-> c, sysctl |-> s, mem |-> m] :
          c \in IF o = "linux" THEN CpuShapes ELSE {"none"},
          s \in IF o = "macos" THEN {"fail", "half", "all"} ELSE {"fail"},
          m \in IF o = "linux" /\ a THEN MemGiB ELSE {0}} :
      o \in OSes, a \in BOOLEAN, l \in 1..MaxLogical }

\* _linux_mem_total_gib: 0.0 off Linux or when /proc/meminfo is unreadable.
mem_total_gib(h) == IF h.os = "linux" THEN h.mem ELSE 0

\* The count a topology shape stands for on a host with l logical CPUs.
ShapeCount(shape, l) ==
    CASE shape = "one"  -> 1
      [] shape = "half" -> MaxOf(1, l \div 2)
      [] OTHER          -> l

\* detect_physical_cores: distinct cpuinfo pairs on Linux, the logical
\* count on ARM/RISC-V boards without ids, sysctl on macOS, and otherwise
\* half the logical CPUs from four upwards.
detect_physical_cores(h) ==
    LET l == h.logical
        fallback == IF l >= 4 THEN MaxOf(1, l \div 2) ELSE l
    IN  CASE h.os = "linux" /\ h.cpuIds \in {"one", "half", "all"}
                 -> MaxOf(1, ShapeCount(h.cpuIds, l))
          [] h.os = "linux" /\ h.cpuIds = "none" /\ h.arm -> l
          [] h.os = "macos" /\ h.sysctl # "fail"
                 -> MaxOf(1, ShapeCount(h.sysctl, l))
          [] OTHER -> fallback

\* smt_factor(logical, physical) compared with num/den: max(1.0, l/p).
smt_factor_ge(l, p, num, den) == den * l >= num * MaxOf(1, p)
smt_factor_le(l, p, num, den) == den * l <= num * MaxOf(1, p)

\* Fault variant: half the CPUs above 64 instead of three quarters.
default_test_jobs_soft_cap_half(l) ==
    CASE l >= 64 -> MaxOf(24, l \div 2)
      [] l >= 48 -> 40
      [] l >= 32 -> 32
      [] l >= 16 -> 24
      [] OTHER   -> MaxOf(1, l)

\* default_test_jobs_soft_cap: a ceiling stepping up at 16/32/48/64 CPUs.
default_test_jobs_soft_cap(l) ==
    CASE l >= 64 -> MaxOf(24, (l * 3) \div 4)
      [] l >= 48 -> 40
      [] l >= 32 -> 32
      [] l >= 16 -> 24
      [] OTHER   -> MaxOf(1, l)

\* The branch of auto_threads a profile string selects; an unknown string
\* falls through to the auto policy.
effective_profile(p) ==
    CASE p \in {"off", "single", "1"}       -> "off"
      [] p \in {"aggressive", "max"}        -> "aggressive"
      [] p \in {"conservative", "safe"}     -> "conservative"
      [] p = "smt"                          -> "smt"
      [] OTHER                              -> "auto"

\* auto_threads, conservative profile, test workloads.
conservative_threads(h, p) ==
    IF h.os = "windows" THEN MaxOf(1, MinOf(4, MaxOf(1, p \div 2)))
                        ELSE MaxOf(1, MinOf(16, MaxOf(1, p \div 2)))

\* auto_threads, smt profile, test workloads.
smt_threads(h, l) ==
    IF h.os = "windows"
    THEN MaxOf(1, MinOf(6, MaxOf(1, IF l >= 8 THEN l \div 4 ELSE l \div 2)))
    ELSE MaxOf(1, MinOf(24, (l * 6) \div 10))

\* auto_threads, auto profile, test workloads off Windows: leave one
\* CPU free on SMT hosts of four or fewer, reserve an eighth and at most
\* one and a half threads per core on high-SMT hosts, one CPU otherwise;
\* then the soft ceiling.
auto_test_base(l, p) ==
    LET base == CASE l <= 4 ->
                       IF smt_factor_le(l, p, 6, 5) THEN l ELSE MaxOf(1, l - 1)
                  [] smt_factor_ge(l, p, 9, 5) ->
                       MinOf(l - MaxOf(1, l \div 8), p + MaxOf(1, p \div 2))
                  [] OTHER -> l - (IF l > 2 THEN 1 ELSE 0)
    IN  MinOf(base, default_test_jobs_soft_cap(l))

\* The ARM/RISC-V floor: a board of four or more CPUs keeps two workers.
arm_floor(h, l, n) == IF n < 2 /\ l >= 4 /\ h.arm THEN 2 ELSE n

\* int(raw) for the decimal texts of small integers.
IntTexts == {ToString(n) : n \in -99..99}
int_of(raw) == CHOOSE n \in -99..99 : ToString(n) = raw

\* utils.env_int: int(raw) raised to the minimum, the default otherwise.
env_int(raw, default, minimum) ==
    IF raw \in IntTexts THEN MaxOf(int_of(raw), minimum) ELSE default

\* utils.env_bool.
env_bool(raw, default) ==
    IF raw = "" THEN default ELSE raw \in {"1", "true", "yes", "on", "y"}

\* Fault variant: the ARM cap taken with max instead of min.
arm_test_cap_max(h, l, n, armCapRaw) ==
    IF h.os = "linux" /\ h.arm
    THEN MaxOf(n, env_int(armCapRaw, MinOf(l, 4), 1))
    ELSE n

\* NYTRIX_TEST_ARM_JOBS_CAP on Linux ARM/RISC-V: default min(logical, 4),
\* at least 1.
arm_test_cap(h, l, n, armCapRaw) ==
    IF h.os = "linux" /\ h.arm
    THEN MinOf(n, env_int(armCapRaw, MinOf(l, 4), 1))
    ELSE n

\* auto_threads, auto profile, test workloads: Windows takes half the
\* cores from 12 CPUs up, at most 6; elsewhere the base, the ARM cap, and
\* then the floor.
auto_test_threads(h, l, p, armCapRaw) ==
    IF h.os = "windows"
    THEN MaxOf(1, MinOf(6, MaxOf(1, IF l >= 12 THEN p \div 2 ELSE p)))
    ELSE MaxOf(1, MinOf(l, arm_floor(h, l, arm_test_cap(h, l, auto_test_base(l, p),
                                                         armCapRaw))))

\* auto_threads(profile, logical, physical, "test"): test.py calls it for
\* test workloads only, so the build branches are left out.
auto_threads(prof, h, l, p, armCapRaw) ==
    CASE effective_profile(prof) = "off"          -> 1
      [] effective_profile(prof) = "aggressive"   -> l
      [] effective_profile(prof) = "conservative" -> conservative_threads(h, p)
      [] effective_profile(prof) = "smt"          -> smt_threads(h, l)
      [] OTHER                                    -> auto_test_threads(h, l, p, armCapRaw)

\* test.py recommended_jobs: the test policy, then NYTRIX_TEST_AUTO_JOBS_CAP.
recommended_jobs(h, prof, armCapRaw, autoCapRaw) ==
    LET jobs0 == auto_threads(prof, h, h.logical, detect_physical_cores(h), armCapRaw)
        autoCap == env_int(autoCapRaw, 0, 0)
    IN  IF autoCap > 0 THEN MinOf(jobs0, autoCap) ELSE jobs0

\* Fault variant: an explicit --jobs taken as given without the force flag.
effective_jobs_no_force(h, prof, requested, forceRaw, armCapRaw, autoCapRaw) ==
    IF requested > 0 THEN requested
    ELSE recommended_jobs(h, prof, armCapRaw, autoCapRaw)

\* test.py effective_jobs: --jobs is clipped to the recommendation unless
\* NYTRIX_TEST_FORCE_JOBS is on.
effective_jobs(h, prof, requested, forceRaw, armCapRaw, autoCapRaw) ==
    LET recommended == recommended_jobs(h, prof, armCapRaw, autoCapRaw)
    IN  IF requested > 0
        THEN IF env_bool(forceRaw, FALSE) THEN requested
             ELSE MinOf(requested, recommended)
        ELSE recommended

\* _parse_int_env: a positive integer, otherwise the default.
parse_int_env(raw, default) ==
    IF raw \in IntTexts /\ int_of(raw) > 0 THEN int_of(raw) ELSE default

\* Fault variant: the memory tiers tested in the wrong order, so the
\* 4 GiB tier overrides the 2 GiB one.
resolve_jobs_tiers_swapped(h, userJobs, capRaw) ==
    IF userJobs > 0 THEN userJobs
    ELSE LET mem == mem_total_gib(h)
             tier2 == IF mem > 0 /\ mem <= 2 THEN 2 ELSE 4
             defaultCap == IF mem > 0 /\ mem <= 4 THEN 3 ELSE tier2
             cap == parse_int_env(capRaw, defaultCap)
             capped == IF h.os = "linux" /\ h.arm /\ h.logical > cap
                       THEN cap ELSE h.logical
         IN  MaxOf(1, capped)

\* _resolve_jobs: -j wins; otherwise every logical CPU, capped on Linux
\* ARM/RISC-V by NYTRIX_ARM_BUILD_JOBS_CAP or a memory-tiered default.
resolve_jobs(h, userJobs, capRaw) ==
    IF userJobs > 0 THEN userJobs
    ELSE LET mem == mem_total_gib(h)
             tier4 == IF mem > 0 /\ mem <= 4 THEN 3 ELSE 4
             defaultCap == IF mem > 0 /\ mem <= 2 THEN 2 ELSE tier4
             cap == parse_int_env(capRaw, defaultCap)
             capped == IF h.os = "linux" /\ h.arm /\ h.logical > cap
                       THEN cap ELSE h.logical
         IN  MaxOf(1, capped)

(***************************************************************************)
(* The build directory: context.resolve_build_dir at import time, and the  *)
(* permission guard cmake.cmake_build runs before cmake --build. A build   *)
(* tree is the sequence of its entries in rglob order, each lying in       *)
(* release/CMakeFiles, debug/CMakeFiles, CMakeFiles or among the release   *)
(* outputs, and each writable by the user or not (left by a sudo build or *)
(* install). The probe roots resolve to distinct paths, so the seen set    *)
(* never skips one. os.access grants root everything.                      *)
(***************************************************************************)
Locs == {"release/CMakeFiles", "debug/CMakeFiles", "CMakeFiles", "release"}
Entry == [at : Locs, w : BOOLEAN]
Trees == UNION {[1..n -> Entry] : n \in 0..MaxTree}
BuildKinds == {"release", "debug"}

\* The invoking user, BUILD_DIR ("" unset, a sanitizer build name, or any
\* other directory), the directory it names or ROOT/build ("absent" but
\* creatable, "uncreatable", "writable" or "unwritable"), that directory's
\* tree, whether ~/.cache/nytrix-build can be made writable, and the kind
\* cmake_build is asked for.
FsStates ==
    {f \in [user : {"user", "root"}, env : {"", "sanitizer", "other"},
            dir : {"absent", "uncreatable", "writable", "unwritable"},
            tree : Trees, fallbackOk : BOOLEAN, kind : BuildKinds] :
        f.dir \in {"absent", "uncreatable"} => f.tree = <<>>}

NoFs == [user |-> "user", env |-> "", dir |-> "absent", tree |-> <<>>,
         fallbackOk |-> TRUE, kind |-> "release"]
Unresolved == [dir |-> "none", note |-> FALSE, guard |-> "none"]

\* os.access(p, os.W_OK) for the invoking user.
can_write(user, w) == user = "root" \/ w

\* base.rglob("*"): the entries below a probe root ("." is the tree root).
walk(t, base) == SelectSeq(t, LAMBDA e : base = "." \/ e.at = base)

\* The probe roots of first_unwritable_path, walked one after another.
probe_walk(t) ==
    walk(t, "release/CMakeFiles") \o walk(t, "debug/CMakeFiles")
        \o walk(t, "CMakeFiles") \o walk(t, ".")

\* Fault variant: the tree root itself is not among the probe roots.
first_unwritable_path_no_root(f) ==
    IF f.dir \in {"absent", "uncreatable"} THEN "none"
    ELSE IF ~can_write(f.user, f.dir = "writable") THEN "root"
    ELSE LET s == walk(f.tree, "release/CMakeFiles")
                    \o walk(f.tree, "debug/CMakeFiles") \o walk(f.tree, "CMakeFiles")
         IN  IF \E i \in 1..MinOf(Len(s), MaxChecks) : ~can_write(f.user, s[i].w)
             THEN "entry" ELSE "none"

\* first_unwritable_path: None for a missing tree, the root when it is not
\* writable, otherwise the first unwritable entry among the first
\* max_checks the probe visits (None once the count is exceeded).
first_unwritable_path(f) ==
    IF f.dir \in {"absent", "uncreatable"} THEN "none"
    ELSE IF ~can_write(f.user, f.dir = "writable") THEN "root"
    ELSE LET s == probe_walk(f.tree)
         IN  IF \E i \in 1..MinOf(Len(s), MaxChecks) : ~can_write(f.user, s[i].w)
             THEN "entry" ELSE "none"

\* ensure_dir_writable(ROOT/build): mkdir, then write and unlink a probe.
ensure_dir_writable(f) ==
    f.dir # "uncreatable" /\ can_write(f.user, f.dir # "unwritable")

\* resolve_build_dir: BUILD_DIR wins (a sanitizer build name is mapped to
\* the build tree beside it, here ROOT/build); otherwise ROOT/build when the
\* probe finds nothing unwritable and the directory is writable, else
\* ~/.cache/nytrix-build with a notice when that is writable, else
\* ROOT/build silently.
resolve_build_dir(f) ==
    CASE f.env = "sanitizer" -> [dir |-> "default", note |-> FALSE]
      [] f.env = "other"     -> [dir |-> "env", note |-> FALSE]
      [] OTHER ->
           IF first_unwritable_path(f) = "none" /\ ensure_dir_writable(f)
           THEN [dir |-> "default", note |-> FALSE]
           ELSE IF f.fallbackOk THEN [dir |-> "fallback", note |-> TRUE]
           ELSE [dir |-> "default", note |-> FALSE]

\* The tree cmake --build works in: the fallback is the user's own.
TreeOf(f, dir) == IF dir = "fallback" THEN <<>> ELSE f.tree

CMakeFilesOf(kind) == IF kind = "release" THEN "release/CMakeFiles" ELSE "debug/CMakeFiles"

\* find_unwritable_artifacts(bdir): the unwritable entries of
\* bdir/CMakeFiles (the first eight are listed; any one stops the build).
find_unwritable_artifacts(f, t) ==
    {i \in DOMAIN t : t[i].at = CMakeFilesOf(f.kind) /\ ~can_write(f.user, t[i].w)}

\* guard_build_permissions: skipped on Windows and for euid 0, otherwise
\* SystemExit(1) with the chown hint when an artifact is unwritable.
guard_build_permissions(os, f, dir) ==
    IF os = "windows" \/ f.user = "root" THEN "skipped"
    ELSE IF find_unwritable_artifacts(f, TreeOf(f, dir)) # {} THEN "blocked"
    ELSE "ok"

(***************************************************************************)
(* The host is fixed, and a state answers one call of one entry point.   *)
(***************************************************************************)
Init ==
    /\ host \in Hosts
    /\ breq = [user |-> 0, capRaw |-> ""]
    /\ buildJobs = 0
    /\ treq = [profile |-> "auto", requested |-> 0, force |-> "",
               armCap |-> "", autoCap |-> ""]
    /\ testJobs = 0
    /\ fs = NoFs
    /\ bd = Unresolved

\* No entry point has been asked yet.
Idle == buildJobs = 0 /\ testJobs = 0 /\ bd = Unresolved

\* main._resolve_jobs for build/install/clean.
ResolveJobs ==
    /\ Idle
    /\ \E u \in UserJobs, capRaw \in ArmCapRaw :
         /\ breq' = [user |-> u, capRaw |-> capRaw]
         /\ buildJobs' = resolve_jobs(host, u, capRaw)
    /\ UNCHANGED <<host, treq, testJobs, fs, bd>>

\* test.py main: jobs = effective_jobs(args.jobs).
EffectiveJobs ==
    /\ Idle
    /\ \E prof \in ProfileNames, r \in Requested, f, a, c \in EnvTexts :
         /\ treq' = [profile |-> prof, requested |-> r, force |-> f,
                     armCap |-> a, autoCap |-> c]
         /\ testJobs' = effective_jobs(host, prof, r, f, a, c)
    /\ UNCHANGED <<host, breq, buildJobs, fs, bd>>

\* A `py make` invocation building one kind: the import of context.py picks
\* BUILD_DIR, and cmake_build guards it before cmake --build. Only host_os
\* matters here, so one host of each OS stands for all of them.
ResolveBuildDir ==
    /\ Idle
    /\ host = CHOOSE h \in Hosts : h.os = host.os
    /\ \E f \in FsStates :
         /\ host.os = "windows" => f.user = "user"
         /\ fs' = f
         /\ LET r == resolve_build_dir(f)
            IN  bd' = [dir |-> r.dir, note |-> r.note,
                       guard |-> guard_build_permissions(host.os, f, r.dir)]
    /\ UNCHANGED <<host, breq, buildJobs, treq, testJobs>>

Next == ResolveJobs \/ EffectiveJobs \/ ResolveBuildDir

Spec == Init /\ [][Next]_vars

(***************************************************************************)
(* Properties.                                                             *)
(***************************************************************************)

TypeOK ==
    /\ host \in Hosts
    /\ breq \in [user : UserJobs \cup {0}, capRaw : ArmCapRaw \cup {""}]
    /\ buildJobs \in Nat
    /\ treq \in [profile : ProfileNames \cup {"auto"}, requested : Requested \cup {0},
                 force : EnvTexts \cup {""}, armCap : EnvTexts \cup {""},
                 autoCap : EnvTexts \cup {""}]
    /\ testJobs \in Nat
    /\ fs \in FsStates \cup {NoFs}
    /\ bd \in [dir : {"none", "default", "fallback", "env"}, note : BOOLEAN,
               guard : {"none", "skipped", "ok", "blocked"}]

\* The soft ceiling of the auto test policy grows with the host (spec
\* section 4.5, "a soft ceiling that grows sublinearly past 16/32/48/64
\* logical cores"): one more logical CPU never lowers it.
SoftCeilingGrows ==
    host.logical > 1 =>
        default_test_jobs_soft_cap(host.logical - 1)
            <= default_test_jobs_soft_cap(host.logical)

\* test.py effective_jobs: a test pool has between one worker and the
\* logical CPU count, never more than an explicit --jobs, and more than
\* the host's recommendation (recommended_jobs) only when --jobs asks for
\* it and NYTRIX_TEST_FORCE_JOBS is on.
TestPoolBounded ==
    testJobs # 0 =>
        LET r == treq.requested
            forced == env_bool(treq.force, FALSE)
            rec == recommended_jobs(host, treq.profile, treq.armCap, treq.autoCap)
        IN  /\ r > 0 => testJobs <= r
            /\ testJobs > rec => (r > 0 /\ forced)
            /\ (r > 0 /\ forced) \/ testJobs \in 1..host.logical

\* The ARM/RISC-V policy of test.py auto_threads (spec section 4.5): with
\* the default profile and no other cap on top, a test pool on a Linux
\* ARM/RISC-V board of four or more CPUs keeps at least two workers and
\* never more than NYTRIX_TEST_ARM_JOBS_CAP (default min(logical, 4)),
\* whenever that cap leaves room for two. A cap of 1 is the floor's
\* exception and is excluded here.
ArmPoolWithinCap ==
    LET cap == env_int(treq.armCap, MinOf(host.logical, 4), 1)
    IN  (/\ testJobs # 0 /\ host.os = "linux" /\ host.arm /\ host.logical >= 4
         /\ effective_profile(treq.profile) = "auto"
         /\ treq.requested = 0 /\ env_int(treq.autoCap, 0, 0) = 0
         /\ cap >= 2)
            => testJobs \in 2..cap

\* _resolve_jobs: -j is taken as given; otherwise the build uses between
\* one and all logical CPUs, and on a Linux ARM/RISC-V board with known
\* memory and no NYTRIX_ARM_BUILD_JOBS_CAP at most two jobs with 2 GiB or
\* less and at most three with 4 GiB or less.
BuildJobsFitMemory ==
    buildJobs # 0 =>
        \/ breq.user > 0 /\ buildJobs = breq.user
        \/ /\ breq.user = 0
           /\ buildJobs \in 1..host.logical
           /\ (host.os = "linux" /\ host.arm /\ breq.capRaw = "") =>
                 /\ host.mem \in 1..2 => buildJobs <= 2
                 /\ host.mem \in 1..4 => buildJobs <= 3

\* With BUILD_DIR unset and a writable fallback, resolve_build_dir moves the
\* build out of ROOT/build exactly when the invoking user cannot create or
\* write that directory or any entry below it -- for trees the probe can
\* visit within max_checks (every entry is visited at most twice).
ResolverExact ==
    (bd # Unresolved /\ fs.env = "" /\ fs.fallbackOk /\ 2 * Len(fs.tree) <= MaxChecks) =>
        ((bd.dir = "fallback") <=>
            \/ fs.dir = "uncreatable"
            \/ ~can_write(fs.user, fs.dir # "unwritable")
            \/ \E i \in DOMAIN fs.tree : ~can_write(fs.user, fs.tree[i].w))
====
