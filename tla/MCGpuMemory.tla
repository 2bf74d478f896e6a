---------------------------- MODULE MCGpuMemory ----------------------------
(* Instances of GpuMemory for TLC.                                         *)
EXTENDS GpuMemory

\* In pages of two: huge pages are two small ones, the image and the local
\* memory need rounding.
Sizes == [area |-> 4, notifier |-> 2, window |-> 2, page |-> 2, pool |-> 2,
          kernArgs |-> 4, image |-> 3, local |-> 5]

KindOf == [o \in Objects |->
    CASE o = "c" -> "context" [] o = "k" -> "kernels" [] o = "s" -> "stream"
      [] o = "m" -> "module" [] OTHER -> "buffer"]
=============================================================================
