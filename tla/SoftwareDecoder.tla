--------------------------- MODULE SoftwareDecoder ---------------------------
(***************************************************************************)
(* The two programs that decode a JPEG file in software with the classes   *)
(* of EntropyDecoder: SoftwareJpegDecoder of the driver (jpeg_sw.cc) and   *)
(* the C reference model (c_model/main.cpp).  Their block loops are the    *)
(* same; the driver checks every segment, the C model none.                *)
(*                                                                         *)
(* A file is the sequence of its segments; fits says that the length of a  *)
(* segment is legal and inside the file.  The bytes of the scan stand in   *)
(* its SOS segment.  A pixel shows what its three samples were taken from. *)
(***************************************************************************)
EXTENDS EntropyDecoder

CONSTANTS
  Files,        \* the files, as sequences of segments
  Edge,         \* samples along the edge of a block; 8 in the code
  DstCapacity,  \* bytes of the destination buffer
  MaxBlocks     \* no MCU is begun behind this block number; an int in the code

ASSUME DecoderAssumption ==
  Edge \in Nat \ {0} /\ Edge % 2 = 0 /\ DstCapacity \in Nat /\ MaxBlocks \in Nat

VARIABLES
  program,      \* "driver" or "c_model"
  file, segment,   \* the file and the number of the segment read next
  phase,        \* "segments", "scan", "mcu", "block", "done" or "crashed"
  result,       \* what Decode or main returns: success or not
  width, height, mode, dqt_table, decode_done,
  scan_idx,     \* next byte of the scan
  dc_coeff,     \* the DC predictors of Y, Cb and Cr
  blocks,       \* the blocks of this MCU that are decoded
  block_num, loop,
  dst           \* the pixels of the destination buffer

decoderVars == <<entropyVars, program, file, segment, phase, result, width, height, mode,
                 dqt_table, decode_done, scan_idx, dc_coeff, blocks, block_num, loop, dst>>

headerVars == <<width, height, mode, dqt_table>>
imageVars == <<dc_coeff, blocks, block_num, loop>>

Stale == <<>>

Segments == file.segments

(* The C model reads on behind a segment that does not fit; that is not     *)
(* modelled.                                                                *)
DecoderInit ==
  /\ EntropyInit
  /\ file \in Files
  /\ program \in {"driver", "c_model"}
  /\ program = "c_model" => \A k \in 1..Len(Segments) : Segments[k].fits
  /\ segment = 1 /\ phase = "segments" /\ result = FALSE
  /\ width = 0 /\ height = 0 /\ mode = "unsupported" /\ dqt_table = <<0, 0, 0>>
  /\ decode_done = FALSE /\ scan_idx = 1
  /\ dc_coeff = <<0, 0, 0>> /\ blocks = <<>> /\ block_num = 0 /\ loop = 0
  /\ dst = [offset \in 0..(DstCapacity \div 3 - 1) |-> Stale]

-----------------------------------------------------------------------------
(* The loop over the segments. *)
At(markers) ==
  /\ phase = "segments"
  /\ segment <= Len(Segments)
  /\ Segments[segment].marker \in markers

Segment == Segments[segment]

Continue == segment' = segment + 1 /\ UNCHANGED <<phase, result>>
Refuse == phase' = "done" /\ result' = FALSE /\ UNCHANGED segment

(* Mutant of Checked: the driver takes any segment. *)
CheckedNothing == FALSE
Checked == program = "driver"

Modes(comps) ==
  LET factors == [c \in 1..Len(comps) |-> comps[c].factor]
  IN IF Len(comps) = 1 THEN "mono"
     ELSE IF Len(comps) # 3 \/ [c \in 1..3 |-> comps[c].id] # <<1, 2, 3>> THEN "unsupported"
     ELSE IF factors = <<<<1, 1>>, <<1, 1>>, <<1, 1>>>> THEN "444"
     ELSE IF factors = <<<<2, 2>>, <<1, 1>>, <<1, 1>>>> THEN "420"
     ELSE "unsupported"

SetHeader ==
  /\ height' = Segment.height /\ width' = Segment.width
  /\ mode' = Modes(Segment.comps)
  /\ dqt_table' = [c \in 1..3 |->
       IF c <= Len(Segment.comps) THEN Segment.comps[c].table ELSE dqt_table[c]]

(* Mutant of ParseSof0: refuses an image that fills the buffer exactly.     *)
ParseSof0Exact ==
  /\ Checked /\ At({"SOF0"})
  /\ IF /\ Segment.fits /\ Len(Segment.comps) <= 3
        /\ 3 * Segment.width * Segment.height < DstCapacity
     THEN SetHeader /\ Continue
     ELSE Refuse /\ UNCHANGED headerVars
  /\ UNCHANGED <<entropyVars, program, file, decode_done, scan_idx, imageVars, dst>>

ParseSof0 ==
  /\ Checked /\ At({"SOF0"})
  /\ IF /\ Segment.fits
        /\ Len(Segment.comps) <= 3
        /\ 3 * Segment.width * Segment.height <= DstCapacity
     THEN SetHeader /\ Continue
     ELSE Refuse /\ UNCHANGED headerVars
  /\ UNCHANGED <<entropyVars, program, file, decode_done, scan_idx, imageVars, dst>>

(* The C model asserts the number of components and allocates planes of the *)
(* size of the image, all zero.                                             *)
CModelSof0 ==
  /\ ~Checked /\ At({"SOF0"})
  /\ IF Len(Segment.comps) <= 3
     THEN /\ SetHeader
          /\ dst' = [offset \in 0..(Segment.width * Segment.height - 1) |-> Stale]
          /\ Continue
     ELSE Refuse /\ UNCHANGED <<headerVars, dst>>
  /\ UNCHANGED <<entropyVars, program, file, decode_done, scan_idx, imageVars>>

Table(marker, Process(_)) ==
  /\ At({marker})
  /\ IF Checked /\ ~Segment.fits
     THEN Refuse /\ UNCHANGED <<m_dht_table, m_table_dqt>>
     ELSE Process(Segment.tables) /\ Continue
  /\ UNCHANGED <<bitVars, coeff, samples, program, file, headerVars, decode_done, scan_idx,
                 imageVars, dst>>

ParseDqt == Checked /\ Table("DQT", LAMBDA t : ProcessDqt(t) /\ UNCHANGED m_dht_table)
ParseDht == Checked /\ Table("DHT", LAMBDA t : ProcessDht(t) /\ UNCHANGED m_table_dqt)
CModelDqt == ~Checked /\ Table("DQT", LAMBDA t : ProcessDqt(t) /\ UNCHANGED m_dht_table)
CModelDht == ~Checked /\ Table("DHT", LAMBDA t : ProcessDht(t) /\ UNCHANGED m_table_dqt)

(* SOI, and the segments without meaning for a baseline image.              *)
SkipSegment ==
  /\ At({"SOI", "APP", "COM", "DRI"})
  /\ IF Checked /\ Segment.marker # "SOI" /\ ~Segment.fits THEN Refuse ELSE Continue
  /\ UNCHANGED <<entropyVars, program, file, headerVars, decode_done, scan_idx, imageVars, dst>>

(* A scan starts with an empty bit buffer and the fresh locals of           *)
(* DecodeImage.                                                             *)
BeginScan ==
  /\ ResetBits
  /\ scan_idx' = 1
  /\ dc_coeff' = <<0, 0, 0>> /\ blocks' = <<>> /\ block_num' = 0 /\ loop' = 0
  /\ StartBlock
  /\ phase' = "scan"
  /\ UNCHANGED <<segment, result>>

ParseSos ==
  /\ Checked /\ At({"SOS"})
  /\ IF mode # "unsupported" /\ Segment.fits
     THEN BeginScan
     ELSE Refuse /\ UNCHANGED <<bitVars, scan_idx, coeff, samples, imageVars>>
  /\ UNCHANGED <<m_dht_table, m_table_dqt, program, file, headerVars, decode_done, dst>>

(* The end of main: the image is written to a file if there is one.         *)
WriteImage == phase' = "done" /\ result' \in {FALSE, decode_done} /\ UNCHANGED segment

CModelSos ==
  /\ ~Checked /\ At({"SOS"})
  /\ IF mode # "unsupported"
     THEN BeginScan
     ELSE WriteImage /\ UNCHANGED <<bitVars, scan_idx, coeff, samples, imageVars>>
  /\ UNCHANGED <<m_dht_table, m_table_dqt, program, file, headerVars, decode_done, dst>>

(* Progressive images are refused. *)
ParseSof2 ==
  /\ At({"SOF2"})
  /\ IF Checked THEN Refuse ELSE WriteImage
  /\ UNCHANGED <<entropyVars, program, file, headerVars, decode_done, scan_idx, imageVars, dst>>

(* The loop ends at EOI or at the end of the file. *)
EndOfFile ==
  /\ phase = "segments"
  /\ segment > Len(Segments) \/ At({"EOI"})
  /\ IF Checked THEN phase' = "done" /\ result' = decode_done /\ UNCHANGED segment
     ELSE WriteImage
  /\ UNCHANGED <<entropyVars, program, file, headerVars, decode_done, scan_idx, imageVars, dst>>

-----------------------------------------------------------------------------
(* The bytes behind the SOS header, with the marker of the next segment.    *)
ScanBytes ==
  Segment.scan \o (IF segment < Len(Segments) THEN <<255, 217>> ELSE <<>>)

(* Push byte by byte up to a marker; the loop over the segments then goes   *)
(* on with its 0xFF.                                                        *)
PushScan ==
  /\ phase = "scan"
  /\ IF scan_idx > Len(ScanBytes)
     THEN phase' = "mcu" /\ UNCHANGED <<bitVars, scan_idx>>
     ELSE LET b == ScanBytes[scan_idx]
          IN /\ Push(b)
             /\ scan_idx' = scan_idx + 1
             /\ phase' = IF MarkerFound(b) THEN "mcu" ELSE "scan"
  /\ UNCHANGED <<m_dht_table, m_table_dqt, coeff, samples, program, file, segment, result,
                 headerVars, decode_done, imageVars, dst>>

(* The blocks of an MCU by component: 1 is Y, 2 and 3 are Cb and Cr.        *)
Components == CASE mode = "420" -> <<1, 1, 1, 1, 2, 3>>
                [] mode = "444" -> <<1, 2, 3>>
                [] mode = "mono" -> <<1>>

Component == Components[Len(blocks) + 1]
TableIdx == IF Component = 1 THEN 0 ELSE 2

(* The head of the loop of DecodeImage: nothing but the end of the buffer   *)
(* ends it.                                                                 *)
NextMcu ==
  /\ phase = "mcu"
  /\ IF Eof
     THEN phase' = "segments" /\ segment' = segment + 1 /\ decode_done' = TRUE
     ELSE block_num <= MaxBlocks /\ phase' = "block" /\ UNCHANGED <<segment, decode_done>>
  /\ UNCHANGED <<entropyVars, program, file, result, headerVars, scan_idx, imageVars, dst>>

InBlock ==
  /\ phase = "block"
  /\ UNCHANGED <<m_buffer, m_last, m_wr_offset, m_dht_table, m_table_dqt, program, file,
                 segment, result, headerVars, decode_done, scan_idx, block_num, loop>>

DecodeFirst ==
  /\ InBlock /\ coeff = 0
  /\ LET d == DecodeDc(TableIdx, dc_coeff[Component])
     IN /\ m_rd_offset' = m_rd_offset + d.advance
        /\ dc_coeff' = [dc_coeff EXCEPT ![Component] = d.dcoeff]
        /\ samples' = <<<<0, d.dcoeff>>>>
  /\ coeff' = 1
  /\ UNCHANGED <<phase, blocks, dst>>

DecodeNext ==
  /\ InBlock /\ coeff \in 1..(Coefficients - 1)
  /\ DecodeAc(TableIdx)
  /\ UNCHANGED <<phase, blocks, dc_coeff, dst>>

-----------------------------------------------------------------------------
(* The pixels of an MCU. *)
RoundUp(size) == size \div Edge + (IF size % Edge # 0 THEN 1 ELSE 0)

(* Mutant of XBlocks: a last column that is not whole is forgotten. *)
XBlocksWhole == IF width < Edge THEN 1 ELSE width \div Edge
XBlocks == RoundUp(width)

(* ConvertBlock with WriteRgbPixel: the pixels of the block that lie inside *)
(* the image.                                                               *)
ConvertBlock(image, number, pixel) ==
  LET x_start == (number % XBlocks) * Edge
      y_start == (number \div XBlocks) * Edge
  IN [offset \in DOMAIN image |->
        LET x == (offset % width) - x_start
            y == (offset \div width) - y_start
        IN IF offset < width * height /\ x \in 0..(Edge - 1) /\ y \in 0..(Edge - 1)
           THEN pixel[y * Edge + x] ELSE image[offset]]

(* ConvertYUV2RGB of the C model: a monochrome block is written whole, also *)
(* where it leaves the image.                                               *)
ConvertYUV2RGB(image, number, pixel) ==
  IF mode # "mono" THEN ConvertBlock(image, number, pixel)
  ELSE LET Offset(i) == ((number \div XBlocks) * Edge + i \div Edge) * width
                          + (number % XBlocks) * Edge + (i % Edge)
       IN [offset \in DOMAIN image |->
             LET hits == {i \in 0..(Edge * Edge - 1) : Offset(i) = offset}
             IN IF hits = {} THEN image[offset]
                ELSE pixel[CHOOSE i \in hits : \A j \in hits : j <= i]]

(* The chrominance sample of pixel i of the luminance block n of a 4:2:0    *)
(* MCU.                                                                     *)
SubIdx(n, i) ==
  (n \div 2) * ((Edge * Edge) \div 2)
    + (i \div (2 * Edge)) * Edge + (n % 2) * (Edge \div 2) + ((i % Edge) \div 2)

(* What pixel i of luminance block n is computed from. *)
Pixel(mcu, n, i) ==
  CASE mode = "mono" -> <<mcu[1], i>>
    [] mode = "444" -> <<mcu[1], i, mcu[2], i, mcu[3], i>>
    [] mode = "420" -> <<mcu[n + 1], i, mcu[5], SubIdx(n, i), mcu[6], SubIdx(n, i)>>

(* Where the luminance blocks of an MCU go. *)
Places == IF mode = "420"
          THEN <<block_num \div 2, block_num \div 2 + 1,
                 block_num \div 2 + XBlocks, block_num \div 2 + XBlocks + 1>>
          ELSE <<block_num>>

Convert(image, number, pixel) ==
  IF program = "driver" THEN ConvertBlock(image, number, pixel)
                        ELSE ConvertYUV2RGB(image, number, pixel)

ConvertMcu(mcu) ==
  LET Luminance(image, n) ==
        Convert(image, Places[n], [i \in 0..(Edge * Edge - 1) |-> Pixel(mcu, n - 1, i)])
  IN IF mode = "420"
     THEN Luminance(Luminance(Luminance(Luminance(dst, 1), 2), 3), 4)
     ELSE Luminance(dst, 1)

RowEnds == mode = "420" /\ loop + 1 = XBlocks \div 2

(* A division by the number of blocks in a row of an image of no width: it  *)
(* traps on x86-64; on AArch64 it does not, and FinishBlock goes on without *)
(* a pixel to write.                                                        *)
DivideByZero ==
  /\ phase = "block" /\ coeff >= Coefficients
  /\ Len(blocks) + 1 = Len(Components)
  /\ width = 0
  /\ phase' = "crashed"
  /\ UNCHANGED <<entropyVars, program, file, segment, result, headerVars, decode_done,
                 scan_idx, imageVars, dst>>

(* Dequantise the block; the last block of an MCU converts it.              *)
FinishBlock ==
  /\ phase = "block" /\ coeff >= Coefficients
  /\ LET mcu == Append(blocks, ProcessSamples(dqt_table[Component]))
     IN IF Len(mcu) < Len(Components)
        THEN blocks' = mcu /\ UNCHANGED <<phase, block_num, loop, dst>>
        ELSE /\ blocks' = <<>>
             /\ dst' = IF width = 0 THEN dst ELSE ConvertMcu(mcu)
             /\ block_num' = block_num + Len(Places) + (IF RowEnds THEN 2 * XBlocks ELSE 0)
             /\ loop' = IF mode # "420" \/ RowEnds THEN 0 ELSE loop + 1
             /\ phase' = "mcu"
  /\ StartBlock
  /\ UNCHANGED <<bitVars, m_dht_table, m_table_dqt, program, file, segment, result,
                 headerVars, decode_done, scan_idx, dc_coeff>>

-----------------------------------------------------------------------------
DecoderNext ==
  \/ SkipSegment \/ ParseSof0 \/ CModelSof0 \/ ParseSof2
  \/ ParseDqt \/ CModelDqt \/ ParseDht \/ CModelDht \/ ParseSos \/ CModelSos \/ EndOfFile
  \/ PushScan \/ NextMcu \/ DecodeFirst \/ DecodeNext \/ DivideByZero \/ FinishBlock

DecoderSpec == DecoderInit /\ [][DecoderNext]_decoderVars

(* The thread that decodes keeps running. *)
DecoderFairSpec == DecoderSpec /\ WF_decoderVars(DecoderNext)
=============================================================================
