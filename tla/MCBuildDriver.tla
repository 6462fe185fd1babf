---------------------------- MODULE MCBuildDriver ----------------------------
(***************************************************************************)
(* A Linux home with a checkout at ~/src/nytrix, the default build tree    *)
(* ROOT/build, the XDG cache and the temp directory.                       *)
(***************************************************************************)
EXTENDS BuildDriver

MCPaths ==
    {"/", "/home", "~", "~/.cache", "~/.cache/nytrix", "~/.cache/nytrix/test-cache",
     "~/.cache/nytrix/jit", "~/ny-cache", "~/src", "~/src/nytrix",
     "~/src/nytrix/build", "~/src/nytrix/build/cache", "/tmp",
     "/tmp/nytrix-test-cache", "/tmp/ny_std_cache_0.ny"}

MCParent ==
    [p \in MCPaths \ {"/"} |->
        CASE p = "/home" -> "/"
          [] p = "~" -> "/home"
          [] p = "~/.cache" -> "~"
          [] p = "~/.cache/nytrix" -> "~/.cache"
          [] p = "~/.cache/nytrix/test-cache" -> "~/.cache/nytrix"
          [] p = "~/.cache/nytrix/jit" -> "~/.cache/nytrix"
          [] p = "~/ny-cache" -> "~"
          [] p = "~/src" -> "~"
          [] p = "~/src/nytrix" -> "~/src"
          [] p = "~/src/nytrix/build" -> "~/src/nytrix"
          [] p = "~/src/nytrix/build/cache" -> "~/src/nytrix/build"
          [] p = "/tmp" -> "/"
          [] OTHER -> "/tmp"]

MCFixedCandidates ==
    {"/tmp/nytrix-test-cache", "~/src/nytrix/build/cache", "~/.cache/nytrix/jit",
     "/tmp/ny_std_cache_0.ny"}

MCCmdLines ==
    {<<"test">>, <<"clean", "test">>, <<"std", "test">>, <<"install">>, <<"uninstall", "install">>,
     <<"all">>, <<"fuzz">>, <<"repl", "test">>, <<"bin", "clean", "bin">>}
====
