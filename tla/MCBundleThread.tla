--------------------------- MODULE MCBundleThread ---------------------------
(* Two threads that call Bun.build(), three builds. *)
EXTENDS BundleThread

=============================================================================
