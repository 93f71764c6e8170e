---------------------------- MODULE MCCertificates ----------------------------
(* Certificates of one, two and three chunks; the file is the middle one. *)
EXTENDS Certificates

MCChunks == [v \in Versions |-> CASE v = "short" -> 1 [] v = "file" -> 2 [] v = "long" -> 3]
==============================================================================
