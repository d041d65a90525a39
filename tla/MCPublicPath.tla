---------------------------- MODULE MCPublicPath ----------------------------
(* Small instances of PublicPath: a few prices, levels of one or two sizes.  *)
EXTENDS PublicPath
=============================================================================
