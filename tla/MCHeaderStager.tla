--------------------------- MODULE MCHeaderStager ---------------------------
(* Two `py make` processes on one machine, sharing the temp directory.    *)
(* The archive holds Core.h, the one of the eight headers the health     *)
(* checks name that decides whether a root is found, and ExternC.h, which *)
(* they do not name although Core.h includes it.                          *)
EXTENDS HeaderStager

MCHeaders == {"llvm-c/Core.h", "llvm-c/ExternC.h"}
MCRequired == {"llvm-c/Core.h"}
\* No usable LLVM install, one whose includedir has every header, or a
\* root (NYTRIX_LLVM_HEADERS) with the llvm-c headers and no llvm/Config.
MCSystemRoots == {{}, Files, Files \ {Config}}
====
