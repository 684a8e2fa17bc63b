--------------------------- MODULE MCStudyVersions ---------------------------
(* Small instances of StudyVersions for TLC.                                 *)
EXTENDS StudyVersions, TLC

Symmetry == Permutations(Managers)
=============================================================================
