------------------------------ MODULE MCLivePath ------------------------------
(* LivePath as it is, with short periods: the polls overlap, and a snapshot  *)
(* goes stale in the file, in STATE and under way.                           *)
EXTENDS LivePath
=============================================================================
