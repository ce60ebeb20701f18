--------------------------- MODULE MCResolveCache ---------------------------
(* The image config cache of resolver.go on a small instance.              *)
EXTENDS ResolveCache
=============================================================================
