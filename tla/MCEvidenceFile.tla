--------------------------- MODULE MCEvidenceFile ---------------------------
(* Instances of EvidenceFile for TLC.                                       *)
EXTENDS EvidenceFile

CONSTANTS p1, p2, a, b
=============================================================================
