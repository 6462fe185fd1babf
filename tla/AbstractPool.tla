---------------------------- MODULE AbstractPool ----------------------------
(***************************************************************************)
(* What the worker pool of tests/test.py promises for one suite run, with  *)
(* caching, signatures, phases and the tables left out: the cases to run   *)
(* are fixed when the run starts; at most W of them are submitted and not  *)
(* yet returned by wait(); a returned case is collected once; whenever a   *)
(* case is collected the pool is refilled to W or to all that is left; and *)
(* a run completes only when every case has been submitted and collected.  *)
(* The run can also stop early (an interrupt or a worker's exception).     *)
(***************************************************************************)
EXTENDS Naturals, FiniteSets

CONSTANTS Cases,  \* the test files of the suite
          W       \* the worker budget

ASSUME W \in Nat \ {0}

VARIABLES apc,      \* "idle" between runs, "pool" during one
          todo,     \* cases not yet submitted
          running,  \* submitted futures wait() has not returned
          ready,    \* futures returned by the last wait(), not yet handled
          done      \* cases collected in this (or the last) run

avars == <<apc, todo, running, ready, done>>

MinOf(a, b) == IF a < b THEN a ELSE b

\* The pool is as full as the budget and the remaining cases allow.
Full(r, t) == Cardinality(r) = MinOf(W, Cardinality(r) + Cardinality(t))

AInit ==
    /\ apc = "idle"
    /\ todo = {} /\ running = {} /\ ready = {} /\ done = {}

\* A run starts with some set of cases to run and fills the pool.
AStart ==
    /\ apc = "idle"
    /\ \E work \in SUBSET Cases, first \in SUBSET Cases :
         /\ first \subseteq work
         /\ Cardinality(first) = MinOf(W, Cardinality(work))
         /\ running' = first
         /\ todo' = work \ first
    /\ apc' = "pool"
    /\ ready' = {}
    /\ done' = {}

\* wait() returns the nonempty set of futures that have finished.
AWait ==
    /\ apc = "pool"
    /\ ready = {}
    /\ \E d \in SUBSET running :
         /\ d # {}
         /\ ready' = d
         /\ running' = running \ d
    /\ UNCHANGED <<apc, todo, done>>

\* One returned case is collected and the pool is refilled from todo.
ACollect(c) ==
    /\ apc = "pool"
    /\ c \in ready
    /\ c \notin done
    /\ \E s \in SUBSET todo :
         /\ running' = running \cup s
         /\ todo' = todo \ s
         /\ Full(running', todo')
    /\ ready' = ready \ {c}
    /\ done' = done \cup {c}
    /\ UNCHANGED apc

\* The run completes: nothing is left to submit, run or handle.
AComplete ==
    /\ apc = "pool"
    /\ todo = {} /\ running = {} /\ ready = {}
    /\ apc' = "idle"
    /\ UNCHANGED <<todo, running, ready, done>>

\* The run stops early and the pool is shut down.
AStop ==
    /\ apc = "pool"
    /\ apc' = "idle"
    /\ todo' = {} /\ running' = {} /\ ready' = {}
    /\ UNCHANGED done

ANext == AStart \/ AWait \/ (\E c \in Cases : ACollect(c)) \/ AComplete \/ AStop

ASpec == AInit /\ [][ANext]_avars
=============================================================================
