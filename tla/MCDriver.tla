------------------------------- MODULE MCDriver -------------------------------
(***************************************************************************)
(* Small instances of JpegDriver for TLC.                                  *)
(***************************************************************************)
EXTENDS JpegDriverProperties, TLC

MCDescriptors == [id : Tasks, src : SrcSlotIds, dst : DstSlotIds]
MCStale == [id |-> 0, src |-> 0, dst |-> 0]
MCSymmetry == Permutations(Workers) \union Permutations(Decoders)
=============================================================================
