---------------------------- MODULE MCExportJobs ----------------------------
(* A small instance of the export manager for TLC. *)
EXTENDS ExportJobs, TLC

CONSTANTS i1, i2, g1, g2, f1

TwoIds == {i1, i2}
TwoGroups == {g1, g2}
OneFilter == {f1}
=============================================================================
