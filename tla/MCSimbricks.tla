----------------------------- MODULE MCSimbricks -----------------------------
(***************************************************************************)
(* Small instances of the driver on a simulated host for TLC.              *)
(***************************************************************************)
EXTENDS SimbricksProperties

(* Regions too small, just large enough, and not aligned. *)
MCRegionSizes == {0, 27, 28}
MCPhysBases == {4, 8}
MCCores == {0, 2}
=============================================================================
