--------------------------------- MODULE MCTop ---------------------------------
(***************************************************************************)
(* Small instances of JpegTop for TLC.                                     *)
(***************************************************************************)
EXTENDS JpegTopProperties

(* Three images: one with trailing data behind it, files and frames longer *)
(* than a FIFO of two beats, so that transfers of one and of two beats meet.*)
MCSource == <<3, 2, 1>>
MCImage == <<2, 2, 1>>
MCPixels == <<3, 2, 2>>

MCSourceShort == <<1, 1, 1>>
MCImageShort == <<1, 1, 1>>
MCPixelsShort == <<1, 2, 1>>

(* Images that take several transfers of several beats. *)
MCSourceLong == <<3, 3>>
MCImageLong == <<3, 3>>
MCPixelsLong == <<3, 3>>
=============================================================================
