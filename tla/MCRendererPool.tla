--------------------------- MODULE MCRendererPool ---------------------------
(* Two calls and two processes: the pool at its capacity, one retry each.    *)
EXTENDS RendererPool

=============================================================================
