---------------------------- MODULE HeaderStager ----------------------------
(***************************************************************************)
(* deps.ensure_llvm_c_headers: staging the LLVM C API headers into a build *)
(* directory's third_party/llvm/headers/include.  Each `py make` process    *)
(* has its own build directory, but the header cache and the downloaded    *)
(* archive live under <tmp>/nytrix-cache/llvm-headers/<tag>/ and are       *)
(* shared by every checkout on the machine.  A directory is the set of     *)
(* files it holds; llvm-config.h also records the LLVM version it was      *)
(* synthesized for.  The archive at zip_path is the file the path names:   *)
(* which process created it, and whether its download completed.           *)
(***************************************************************************)
EXTENDS Naturals, FiniteSets

CONSTANTS
    Procs,         \* concurrent `py make` processes
    NoProc,        \* owner of a zip_path that does not exist
    MaxVersion,    \* LLVM versions 1..MaxVersion can be installed in turn
    Headers,       \* the llvm-c/ and llvm/Config/ files the archive holds
    Required,      \* the list in missing_llvm_c_headers
    Core,          \* llvm-c/Core.h, which canonical_llvm_c_include_root seeks
    Config,        \* llvm/Config/llvm-config.h, written by synthesize
    NumUrls,       \* the two download URLs
    Retries,       \* NYTRIX_LLVM_DL_RETRIES after the clamp to 1..10
    NetFails,      \* whether a download attempt may fail
    NoNetChoices,  \* the values NYTRIX_NO_NET == "1" may take
    SystemRoots,   \* include roots an LLVM install or NYTRIX_LLVM_HEADERS offers
    MaxRuns,       \* calls per process
    MaxCrashes     \* processes killed mid-call, over the whole behaviour

ASSUME /\ Required \subseteq Headers /\ Core \in Required /\ Config \notin Headers
       /\ SystemRoots \subseteq SUBSET (Headers \cup {Config})
       /\ Retries \in 1..10 /\ NumUrls \in 1..2

Versions == 1..MaxVersion
Files == Headers \cup {Config}

VARIABLES
    llvm,      \* the LLVM version detect_llvm_version reports now
    hdr,       \* hdr[p]: the files under process p's hdr_root
    hdrVer,    \* hdrVer[p]: the version in its llvm-config.h (0: none)
    cache,     \* cache[v]: the files under cache_inc for tag v
    cacheVer,  \* cacheVer[v]: the version in the cached llvm-config.h
    zip,       \* zip[v]: the archive zip_path names
    st,        \* st[p]: the call in progress (program counter and locals)
    res,       \* res[p]: how p's last call ended, and the root it returned
    runs,      \* calls started per process
    crashes    \* processes killed so far

vars == <<llvm, hdr, hdrVer, cache, cacheVer, zip, st, res, runs, crashes>>

NoZip == [owner |-> NoProc, full |-> FALSE]
Idle == [pc |-> "idle", ver |-> 0, att |-> 0, url |-> 0, todo |-> {}, noNet |-> FALSE]
NoResult == [status |-> "none", files |-> {}, ver |-> 0, staged |-> FALSE]

\* missing_llvm_c_headers: the required headers a root lacks.
missing_llvm_c_headers(files) == Required \ files

\* canonical_llvm_c_include_root finds a root exactly when llvm-c/Core.h is
\* in it (the candidates and the rglob search all look for that file).
canonical_llvm_c_include_root(files) == Core \in files

\* synthesize_llvm_config_headers: the .def files and llvm-config.h for the
\* detected version, written over whatever the root held.
synthesize_llvm_config_headers(files) == files \cup {Config}

\* _is_healthy with the check for llvm-config.h left out.
is_healthy_no_config(files) == missing_llvm_c_headers(files) = {}

\* _is_healthy: every required header and a synthesized llvm-config.h.
is_healthy(files) == missing_llvm_c_headers(files) = {} /\ Config \in files

\* The nested retry loop: the next URL, else the next attempt, else none
\* is left (<<0, 0>>).
NextTry_no_advance(att, url) ==
    IF url < NumUrls THEN <<att, url + 1>> ELSE <<att, 1>>

NextTry(att, url) ==
    CASE url < NumUrls -> <<att, url + 1>>
      [] att < Retries -> <<att + 1, 1>>
      [] OTHER         -> <<0, 0>>

\* find_llvm_c_include_root: NYTRIX_LLVM_HEADERS, then llvm-config
\* --includedir, then LLVM_ROOT/include and an rglob for llvm-c/Core.h. A
\* candidate is taken when canonical_llvm_c_include_root finds it and no
\* required header is missing; llvm/Config is not looked at.
find_llvm_c_include_root(files) ==
    canonical_llvm_c_include_root(files) /\ missing_llvm_c_headers(files) = {}

(***************************************************************************)
(* Steps of one call.  Every step reads or writes at most one shared file, *)
(* so the interleavings of two processes are those the file system allows. *)
(***************************************************************************)
Init ==
    /\ llvm = 1
    /\ hdr = [p \in Procs |-> {}]
    /\ hdrVer = [p \in Procs |-> 0]
    /\ cache = [v \in Versions |-> {}]
    /\ cacheVer = [v \in Versions |-> 0]
    /\ zip = [v \in Versions |-> NoZip]
    /\ st = [p \in Procs |-> Idle]
    /\ res = [p \in Procs |-> NoResult]
    /\ runs = [p \in Procs |-> 0]
    /\ crashes = 0

\* ensure_llvm_c_headers returns hdr_root; ver is the version in its
\* llvm-config.h.
Return(p, files, ver) ==
    /\ st' = [st EXCEPT ![p] = Idle]
    /\ res' = [res EXCEPT ![p] = [status |-> "ok", files |-> files, ver |-> ver,
                                  staged |-> TRUE]]

\* resolve_llvm_headers returns the installed include root as it is.
ReturnInstalled(p, files, ver) ==
    /\ st' = [st EXCEPT ![p] = Idle]
    /\ res' = [res EXCEPT ![p] = [status |-> "ok", files |-> files, ver |-> ver,
                                  staged |-> FALSE]]

\* The call raises SystemExit.
Fail(p, why) ==
    /\ st' = [st EXCEPT ![p] = Idle]
    /\ res' = [res EXCEPT ![p] = [NoResult EXCEPT !.status = why]]

\* main's resolve_llvm_headers: an include root of the installed LLVM, when
\* find_llvm_c_include_root accepts one, is used as it is. Otherwise the
\* entry of ensure_llvm_c_headers: the healthy check (twice in the code, with nothing between them
\* that changes the root), the version and tag, and the header cache: if
\* cache_inc holds every required header, rmtree hdr_root and copy it in.
Start(p) ==
    /\ st[p].pc = "idle" /\ runs[p] < MaxRuns
    /\ runs' = [runs EXCEPT ![p] = @ + 1]
    /\ \E nn \in NoNetChoices, sys \in SystemRoots :
       LET v == llvm
           call == [Idle EXCEPT !.ver = v, !.noNet = nn]
       IN
       CASE find_llvm_c_include_root(sys) ->
              /\ ReturnInstalled(p, sys, llvm)
              /\ UNCHANGED hdr
         [] is_healthy(hdr[p]) ->
              /\ Return(p, hdr[p], hdrVer[p])
              /\ UNCHANGED hdr
         [] missing_llvm_c_headers(cache[v]) = {} ->
              /\ hdr' = [hdr EXCEPT ![p] = {}]
              /\ st' = [st EXCEPT ![p] = [call EXCEPT !.pc = "stage", !.todo = cache[v]]]
              /\ UNCHANGED res
         [] OTHER ->
              /\ st' = [st EXCEPT ![p] = [call EXCEPT !.pc = "probe"]]
              /\ UNCHANGED <<hdr, res>>
    /\ UNCHANGED <<llvm, hdrVer, cache, cacheVer, zip, crashes>>

\* copytree(cache_inc, hdr_root): one file per step.
StageFile(p) ==
    /\ st[p].pc = "stage"
    /\ \E f \in st[p].todo :
         /\ hdr' = [hdr EXCEPT ![p] = @ \cup {f}]
         /\ hdrVer' = IF f = Config THEN [hdrVer EXCEPT ![p] = cacheVer[st[p].ver]] ELSE hdrVer
         /\ st' = [st EXCEPT ![p].todo = @ \ {f}]
    /\ UNCHANGED <<llvm, cache, cacheVer, zip, res, runs, crashes>>

\* After the copy: synthesize, then return the root if Core.h is in it,
\* else fall through to the download.
StageDone(p) ==
    /\ st[p].pc = "stage" /\ st[p].todo = {}
    /\ LET files == synthesize_llvm_config_headers(hdr[p]) IN
       /\ hdr' = [hdr EXCEPT ![p] = files]
       /\ hdrVer' = [hdrVer EXCEPT ![p] = st[p].ver]
       /\ IF canonical_llvm_c_include_root(files)
            THEN Return(p, files, st[p].ver)
            ELSE /\ st' = [st EXCEPT ![p].pc = "probe"]
                 /\ UNCHANGED res
    /\ UNCHANGED <<llvm, cache, cacheVer, zip, runs, crashes>>

\* NYTRIX_NO_NET, then the existing archive: a complete zip is used as is,
\* anything else starts the download loop.
Probe(p) ==
    /\ st[p].pc = "probe"
    /\ IF st[p].noNet
         THEN Fail(p, "nonet")
         ELSE /\ st' = [st EXCEPT ![p] =
                          IF zip[st[p].ver].full THEN [@ EXCEPT !.pc = "unzip"]
                          ELSE [@ EXCEPT !.pc = "open", !.att = 1, !.url = 1]]
              /\ UNCHANGED res
    /\ UNCHANGED <<llvm, hdr, hdrVer, cache, cacheVer, zip, runs, crashes>>

\* Leaving the loop body for the next URL or attempt; when none is left,
\* "Failed to download LLVM headers" ends the call.
Retry(p) ==
    LET nt == NextTry(st[p].att, st[p].url) IN
    IF nt = <<0, 0>>
      THEN Fail(p, "download")
      ELSE /\ st' = [st EXCEPT ![p] = [@ EXCEPT !.pc = "open", !.att = nt[1], !.url = nt[2]]]
           /\ UNCHANGED res

\* Loop body, first half: unlink whatever zip_path names, then
\* open(zip_path, "wb") creates a new, empty file.
Open(p) ==
    /\ st[p].pc = "open"
    /\ zip' = [zip EXCEPT ![st[p].ver] = [owner |-> p, full |-> FALSE]]
    /\ st' = [st EXCEPT ![p].pc = "fetch"]
    /\ UNCHANGED <<llvm, hdr, hdrVer, cache, cacheVer, res, runs, crashes>>

\* urlopen and copyfileobj into the file p opened.  If another process has
\* unlinked it since, the bytes go to a file no path names.  An HTTP
\* error, URLError or timeout leaves the partial file and moves on.
Fetch(p) ==
    /\ st[p].pc = "fetch"
    /\ LET v == st[p].ver IN
       \/ /\ zip' = IF zip[v].owner = p
                      THEN [zip EXCEPT ![v].full = TRUE] ELSE zip
          /\ st' = [st EXCEPT ![p].pc = "verify"]
          /\ UNCHANGED res
       \/ /\ NetFails
          /\ Retry(p)
          /\ UNCHANGED zip
    /\ UNCHANGED <<llvm, hdr, hdrVer, cache, cacheVer, runs, crashes>>

\* zipfile.is_zipfile(zip_path), on whatever file the path names now.
Verify(p) ==
    /\ st[p].pc = "verify"
    /\ IF zip[st[p].ver].full
         THEN /\ st' = [st EXCEPT ![p].pc = "unzip"]
              /\ UNCHANGED res
         ELSE Retry(p)
    /\ UNCHANGED <<llvm, hdr, hdrVer, cache, cacheVer, zip, runs, crashes>>

\* zipfile.ZipFile(zip_path): an incomplete file raises, and the call ends
\* with "Invalid zip file.".  Once open, the archive is read through the
\* handle, whatever later happens to the path.
Unzip(p) ==
    /\ st[p].pc = "unzip"
    /\ IF zip[st[p].ver].full
         THEN /\ st' = [st EXCEPT ![p] = [@ EXCEPT !.pc = "extract", !.todo = Headers]]
              /\ UNCHANGED res
         ELSE Fail(p, "badzip")
    /\ UNCHANGED <<llvm, hdr, hdrVer, cache, cacheVer, zip, runs, crashes>>

\* The extraction loop writes the llvm-c/ and llvm/Config/ members into
\* hdr_root, one file per step, over whatever the root still holds.
ExtractFile(p) ==
    /\ st[p].pc = "extract"
    /\ \E f \in st[p].todo :
         /\ hdr' = [hdr EXCEPT ![p] = @ \cup {f}]
         /\ st' = [st EXCEPT ![p].todo = @ \ {f}]
    /\ UNCHANGED <<llvm, hdrVer, cache, cacheVer, zip, res, runs, crashes>>

\* Extraction done: copytree(hdr_root, cache_inc) takes the root as it is.
ExtractDone(p) ==
    /\ st[p].pc = "extract" /\ st[p].todo = {}
    /\ st' = [st EXCEPT ![p] = [@ EXCEPT !.pc = "tocache", !.todo = hdr[p]]]
    /\ UNCHANGED <<llvm, hdr, hdrVer, cache, cacheVer, zip, res, runs, crashes>>

\* copytree into the shared cache_inc, one file per step.
CacheFile(p) ==
    /\ st[p].pc = "tocache"
    /\ \E f \in st[p].todo :
         LET v == st[p].ver IN
         /\ cache' = [cache EXCEPT ![v] = @ \cup {f}]
         /\ cacheVer' = IF f = Config THEN [cacheVer EXCEPT ![v] = hdrVer[p]] ELSE cacheVer
         /\ st' = [st EXCEPT ![p].todo = @ \ {f}]
    /\ UNCHANGED <<llvm, hdr, hdrVer, zip, res, runs, crashes>>

\* The copy ends, or raises (a cache directory another user owns, a full
\* disk) and the bare except drops the rest of it.  Then synthesize, check
\* the required headers and Core.h, and return the root.
CacheDone(p) ==
    /\ st[p].pc = "tocache"
    /\ LET files == synthesize_llvm_config_headers(hdr[p]) IN
       /\ hdr' = [hdr EXCEPT ![p] = files]
       /\ hdrVer' = [hdrVer EXCEPT ![p] = st[p].ver]
       /\ CASE missing_llvm_c_headers(files) # {} -> Fail(p, "missing")
            [] ~canonical_llvm_c_include_root(files) -> Fail(p, "nocore")
            [] OTHER -> Return(p, files, st[p].ver)
    /\ UNCHANGED <<llvm, cache, cacheVer, zip, runs, crashes>>

(***************************************************************************)
(* The environment: a process killed mid-call (Ctrl-C, a closed terminal, *)
(* a CI timeout) keeps every file it wrote; LLVM upgraded between calls.   *)
(***************************************************************************)
Crash(p) ==
    /\ st[p].pc # "idle" /\ crashes < MaxCrashes
    /\ st' = [st EXCEPT ![p] = Idle]
    /\ res' = [res EXCEPT ![p] = [NoResult EXCEPT !.status = "killed"]]
    /\ crashes' = crashes + 1
    /\ UNCHANGED <<llvm, hdr, hdrVer, cache, cacheVer, zip, runs>>

Upgrade ==
    /\ llvm < MaxVersion
    /\ llvm' = llvm + 1
    /\ UNCHANGED <<hdr, hdrVer, cache, cacheVer, zip, st, res, runs, crashes>>

\* The steps a running call takes on its own.
Step(p) ==
    \/ StageFile(p) \/ StageDone(p) \/ Probe(p) \/ Open(p) \/ Fetch(p)
    \/ Verify(p) \/ Unzip(p) \/ ExtractFile(p) \/ ExtractDone(p)
    \/ CacheFile(p) \/ CacheDone(p)

Next ==
    \/ \E p \in Procs : Start(p) \/ Step(p) \/ Crash(p)
    \/ Upgrade

Spec == Init /\ [][Next]_vars

(***************************************************************************)
(* Properties.                                                             *)
(***************************************************************************)
TypeOK ==
    /\ llvm \in Versions
    /\ hdr \in [Procs -> SUBSET Files] /\ hdrVer \in [Procs -> 0..MaxVersion]
    /\ cache \in [Versions -> SUBSET Files] /\ cacheVer \in [Versions -> 0..MaxVersion]
    /\ zip \in [Versions -> [owner : Procs \cup {NoProc}, full : BOOLEAN]]
    /\ \A p \in Procs : st[p].pc \in {"idle", "stage", "probe", "open", "fetch",
                                      "verify", "unzip", "extract", "tocache"}
    /\ crashes \in 0..MaxCrashes

\* A root ensure_llvm_c_headers returns can be compiled against: it holds
\* every header missing_llvm_c_headers asks for and a synthesized
\* llvm-config.h, whatever other processes and earlier killed calls left in
\* the build directory and in the shared cache. An installed root that
\* find_llvm_c_include_root accepts is returned without these checks.
ReturnedRootUsable ==
    \A p \in Procs : (res[p].status = "ok" /\ res[p].staged) =>
                        Required \cup {Config} \subseteq res[p].files

\* A returned root holds every header of the archive, not only the eight
\* the health checks name: Core.h includes others (llvm-c/ExternC.h).
ReturnedRootComplete ==
    \A p \in Procs : res[p].status = "ok" => Files \subseteq res[p].files
====
