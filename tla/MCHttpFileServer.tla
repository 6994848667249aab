-------------------------- MODULE MCHttpFileServer --------------------------
(* Two connections on descriptors that are used again; the workers of the   *)
(* pool and the descriptors are interchangeable.                            *)
EXTENDS HttpFileServer, TLC

Symmetry == Permutations(Workers) \cup Permutations(Fds)
=============================================================================
