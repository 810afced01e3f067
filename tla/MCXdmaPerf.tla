----------------------------- MODULE MCXdmaPerf -----------------------------
(* XdmaPerf for TLC.  An object of a test is never freed: three objects are *)
(* enough for two tests and a request.  Objects are interchangeable, and    *)
(* the allocator gives the first one that is free.                          *)
EXTENDS XdmaPerf

FirstFree ==
  \A x, y \in Xfer :
    x < y /\ xstate[y] = "FREE" /\ xstate'[y] # "FREE" => xstate[x] # "FREE"

MCNext == PerfNext /\ FirstFree
MCFairSpec == PerfInit /\ [][MCNext]_allVars /\ PerfFairness
=============================================================================
