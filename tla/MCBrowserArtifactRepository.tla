-------------------- MODULE MCBrowserArtifactRepository --------------------
(***************************************************************************)
(* BrowserArtifactRepository for TLC: more keys than fit in memory, and    *)
(* room for two files on disk, so that one that could not be removed makes *)
(* publications evict each other.                                          *)
(***************************************************************************)
EXTENDS BrowserArtifactRepository
=============================================================================
