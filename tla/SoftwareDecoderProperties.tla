----------------------- MODULE SoftwareDecoderProperties -----------------------
(***************************************************************************)
(* What the software decoders must get right, stated from the side of the  *)
(* standard (ITU-T T.81): how an image becomes a file, and where each of   *)
(* its samples belongs.                                                    *)
(*                                                                         *)
(* An image has a mode, a size, quantisation factors and Huffman tables    *)
(* for luminance (1) and chrominance (2), and its blocks in the order of   *)
(* the file: a DC value and the AC values that are not zero, <<index,      *)
(* value>> in zigzag order.                                                *)
(***************************************************************************)
EXTENDS SoftwareDecoder, FiniteSets

Concat(seqs) ==
  LET upto[k \in 0..Len(seqs)] == IF k = 0 THEN <<>> ELSE upto[k - 1] \o seqs[k]
  IN upto[Len(seqs)]

Final(seq) == seq[Len(seq)]

(* The sequence with every element evaluated. *)
Tabulate(seq) == seq \o <<>>

(* The code lengths of a table, and its codes (T.81, C.2): the next code is *)
(* one more, with zeros appended when it is longer.                         *)
Huffsize(counts) == Concat([x \in 1..16 |-> [k \in 1..counts[x] |-> x]])

Huffcode(counts) ==
  LET size == Huffsize(counts)
      code[k \in 1..Len(size)] ==
        IF k = 1 THEN 0 ELSE (code[k - 1] + 1) * 2^(size[k] - size[k - 1])
  IN code

BitsOf(n, value) == [k \in 1..n |-> (value \div 2^(n - k)) % 2]

CodeOf(table, value) ==
  LET k == CHOOSE k \in 1..Len(table.values) : table.values[k] = value
  IN BitsOf(Huffsize(table.counts)[k], Huffcode(table.counts)[k])

Category(value) ==
  CHOOSE n \in 0..15 : /\ value < 2^n /\ -value < 2^n
                       /\ n > 0 => value >= 2^(n - 1) \/ -value >= 2^(n - 1)

Magnitude(value) ==
  LET n == Category(value) IN BitsOf(n, IF value > 0 THEN value ELSE value + 2^n - 1)

(* The symbols of a block (T.81, F.1.2), each as its bits: the difference   *)
(* of the DC value, each AC value behind the zeros before it, end of block. *)
BlockSymbols(dc_table, ac_table, block, pred) ==
  LET diff == block.dc - pred
      ac == block.ac
      Run(k) == ac[k][1] - (IF k = 1 THEN 0 ELSE ac[k - 1][1]) - 1
      AcSymbols(k) ==
        [z \in 1..(Run(k) \div 16) |-> CodeOf(ac_table, 240)]
          \o <<CodeOf(ac_table, 16 * (Run(k) % 16) + Category(ac[k][2])) \o Magnitude(ac[k][2])>>
  IN <<CodeOf(dc_table, Category(diff)) \o Magnitude(diff)>>
       \o Concat([k \in 1..Len(ac) |-> AcSymbols(k)])
       \o (IF ac # <<>> /\ Final(ac)[1] = 63 THEN <<>> ELSE <<CodeOf(ac_table, 0)>>)

McuComponents(m) == CASE m = "mono" -> <<1>> [] m = "444" -> <<1, 2, 3>>
                      [] m = "420" -> <<1, 1, 1, 1, 2, 3>>

ComponentOf(image, b) ==
  LET cs == McuComponents(image.mode) IN cs[((b - 1) % Len(cs)) + 1]

Kind(component) == IF component = 1 THEN 1 ELSE 2

SymbolsOf(image, b) ==
  LET c == ComponentOf(image, b)
      earlier == {a \in 1..(b - 1) : ComponentOf(image, a) = c}
      pred == IF earlier = {} THEN 0
              ELSE image.blocks[CHOOSE a \in earlier : \A e \in earlier : e <= a].dc
  IN BlockSymbols(image.dc[Kind(c)], image.ac[Kind(c)], image.blocks[b], pred)

(* The bits of the scan, filled up to whole bytes with ones; the bytes with *)
(* a zero stuffed behind each 0xFF.                                         *)
ScanBits(image) == Concat([b \in 1..Len(image.blocks) |-> Concat(SymbolsOf(image, b))])

Bytes(bits) ==
  LET padded == bits \o [k \in 1..((-Len(bits)) % 8) |-> 1]
  IN [n \in 1..(Len(padded) \div 8) |-> Field([k \in 0..7 |-> padded[8 * n - 7 + k]], 0, 8)]

Stuffed(bytes) ==
  Concat([n \in 1..Len(bytes) |-> IF bytes[n] = 255 THEN <<255, 0>> ELSE <<bytes[n]>>])

(* For each block, the place in the scan where its last symbol begins.      *)
LastSymbolAt(image) ==
  LET symbols == Tabulate([b \in 1..Len(image.blocks) |-> SymbolsOf(image, b)])
      bits == Tabulate([b \in 1..Len(image.blocks) |-> Len(Concat(symbols[b]))])
      upto[b \in 0..Len(bits)] == IF b = 0 THEN 0 ELSE upto[b - 1] + bits[b]
  IN [b \in 1..Len(bits) |-> upto[b] - Len(Final(symbols[b]))]

-----------------------------------------------------------------------------
(* The cells of a block in the order of the zigzag walk: up to the right on *)
(* the even diagonals, down to the left on the odd ones, along the edges    *)
(* in between.                                                              *)
ZigZagCell ==
  LET After(cell) ==
        LET row == cell \div 8   col == cell % 8
        IN IF (row + col) % 2 = 0
           THEN IF col = 7 THEN cell + 8 ELSE IF row = 0 THEN cell + 1 ELSE cell - 7
           ELSE IF row = 7 THEN cell + 1 ELSE IF col = 0 THEN cell + 8 ELSE cell + 7
      walk[k \in 1..64] == IF k = 1 THEN 0 ELSE LET last == walk[k - 1] IN After(last)
  IN Tabulate([k \in 1..64 |-> walk[k]])

RefBlock(image, cells, b) ==
  LET block == image.blocks[b]
      factors == image.factors[Kind(ComponentOf(image, b))]
      values == {<<0, block.dc>>} \union {block.ac[k] : k \in 1..Len(block.ac)}
  IN {<<cells[v[1] + 1], v[2] * factors[v[1] + 1]>> : v \in {u \in values : u[2] # 0}}

(* The MCU a pixel belongs to, and its place in there. *)
McuEdge(image) == IF image.mode = "420" THEN 2 * Edge ELSE Edge
McusPerRow(image) == (image.width + McuEdge(image) - 1) \div McuEdge(image)
McuOf(image, x, y) == (y \div McuEdge(image)) * McusPerRow(image) + (x \div McuEdge(image))

RefPixel(image, blocksOf, offset) ==
  LET x == offset % image.width
      y == offset \div image.width
      first == McuOf(image, x, y) * Len(McuComponents(image.mode))
      i == (y % Edge) * Edge + (x % Edge)
      quarter == 2 * ((y \div Edge) % 2) + ((x \div Edge) % 2)
      j == ((y % (2 * Edge)) \div 2) * Edge + ((x % (2 * Edge)) \div 2)
  IN CASE image.mode = "mono" -> <<blocksOf[first + 1], i>>
       [] image.mode = "444" ->
            <<blocksOf[first + 1], i, blocksOf[first + 2], i, blocksOf[first + 3], i>>
       [] image.mode = "420" ->
            <<blocksOf[first + 1 + quarter], i, blocksOf[first + 5], j, blocksOf[first + 6], j>>

(* What a file of the image is compared with, computed once for each file.  *)
Reference(image) ==
  LET cells == ZigZagCell
      blocksOf == Tabulate([b \in 1..Len(image.blocks) |-> RefBlock(image, cells, b)])
      bytes == Bytes(ScanBits(image))
      last == LastSymbolAt(image)
  IN [bytes |-> bytes,
      blocks |-> blocksOf,
      intact |-> [b \in 1..Len(image.blocks) |-> last[b] <= 8 * (Len(bytes) - 1)],
      mcu |-> [o \in 0..(image.width * image.height - 1) |->
                 McuOf(image, o % image.width, o \div image.width)],
      pixels |-> [o \in 0..(image.width * image.height - 1) |-> RefPixel(image, blocksOf, o)]]

-----------------------------------------------------------------------------
(* The bytes of a scan without the zero behind each 0xFF: byte k of the     *)
(* scan that is not such a zero is the one with as many before it.          *)
Padding(scan, k) == k > 1 /\ scan[k - 1] = 255
DataBefore(scan, k) == Cardinality({j \in 1..(k - 1) : ~Padding(scan, j)})

Unstuffs(scan, bytes) ==
  /\ scan \in Seq(0..255) /\ bytes \in Seq(0..255)
  /\ \A k \in 1..Len(scan) : scan[k] = 255 => k < Len(scan) /\ scan[k + 1] = 0
  /\ Len(bytes) = DataBefore(scan, Len(scan) + 1)
  /\ \A k \in 1..Len(scan) :
       ~Padding(scan, k) => bytes[DataBefore(scan, k) + 1] = scan[k]

(* The last frame header before segment k is of a supported kind. *)
Supported(f, k) ==
  \E j \in 1..(k - 1) :
    /\ f.segments[j].marker = "SOF0" /\ Modes(f.segments[j].comps) # "unsupported"
    /\ \A i \in (j + 1)..(k - 1) : f.segments[i].marker # "SOF0"

(* Segment k is whole, and of a kind that program p decodes at its place. *)
Legal(f, p, k) ==
  LET s == f.segments[k]
  IN /\ s.marker # "SOI" => s.fits
     /\ s.marker # "SOF2"
     /\ s.marker = "SOF0" => Len(s.comps) <= 3
     /\ s.marker = "SOF0" /\ p = "driver" => 3 * s.width * s.height <= DstCapacity
     /\ s.marker = "SOS" => Supported(f, k)

(* Segment k belongs to the image: no EOI stands before it. *)
BeforeEoi(f, k) == \A j \in 1..k : f.segments[j].marker # "EOI"

(* There is a scan with only legal segments before it; for the driver also  *)
(* behind it.                                                               *)
Decodable(f, p) ==
  \E s \in 1..Len(f.segments) :
    /\ f.segments[s].marker = "SOS" /\ BeforeEoi(f, s)
    /\ \A k \in 1..Len(f.segments) :
         BeforeEoi(f, k) /\ (k <= s \/ p = "driver") => Legal(f, p, k)

(* The frame header is that of the image, and there is one header and one   *)
(* scan, which holds the bytes of the reference.                            *)
Encodes(f) ==
  LET Header(k) == f.segments[k].marker = "SOF0"
      Scan(k) == f.segments[k].marker = "SOS"
  IN /\ f.reference = Reference(f.image)
     /\ \A k \in 1..Len(f.segments) :
          /\ Scan(k) => Unstuffs(f.segments[k].scan, f.reference.bytes)
          /\ Header(k) => /\ f.segments[k].width = f.image.width
                         /\ f.segments[k].height = f.image.height
                         /\ Modes(f.segments[k].comps) = f.image.mode
     /\ \A j, k \in 1..Len(f.segments) :
          (Header(j) /\ Header(k)) \/ (Scan(j) /\ Scan(k)) => j = k

(* A file without a fault of its own holds its image. *)
ASSUME FilesAssumption ==
  \A f \in Files :
    /\ Len(f.segments) \in Nat
    /\ f.image.width \in Nat \ {0} /\ f.image.height \in Nat \ {0}
    /\ f.image.mode \in {"mono", "444", "420"}
    /\ f.fault \in {"none", "too large"} => Encodes(f)

-----------------------------------------------------------------------------
(* The C model allocates its planes and takes an image of any size. *)
Sound == file.fault \in {"none"} \union (IF program = "c_model" THEN {"too large"} ELSE {})
Ref == file.reference

(* Two layouts the block loops do not place: 4:2:0 rows of an odd number of *)
(* blocks (block_num and loop are kept by pairs of blocks), and in the C    *)
(* model monochrome images that end inside a block.                         *)
Placed ==
  /\ mode = "420" => XBlocks % 2 = 0
  /\ program = "c_model" /\ mode = "mono" => width % Edge = 0 /\ height % Edge = 0

McuSize == Len(Components)

(* The number of MCUs converted, from what DecodeImage keeps. *)
McusDone == IF mode = "420" THEN ((block_num - 4 * loop) \div (4 * XBlocks)) * (XBlocks \div 2) + loop
            ELSE block_num

(* When the blocks are decoded, the bit buffer holds the bytes of the scan, *)
(* without stuffed zeros and without the marker behind it                   *)
(* (jpeg_bit_buffer::push).                                                 *)
BufferHoldsScan ==
  Sound /\ phase \in {"mcu", "block"} => SubSeq(m_buffer, 1, m_wr_offset) = Ref.bytes

Intact(b) == b \in DOMAIN Ref.intact /\ Ref.intact[b]

(* Each block is the one that was encoded, for any run of zeros, size of    *)
(* number and length of code, wherever it begins in a byte; only a block    *)
(* that has a symbol beginning inside the last byte of the scan is not      *)
(* (jpeg_mcu_block::decode, jpeg_dht, process_samples).                     *)
BlocksRight ==
  Sound /\ Placed /\ phase = "block" /\ coeff >= Coefficients =>
    LET b == McusDone * McuSize + Len(blocks) + 1
    IN Intact(b) => ProcessSamples(dqt_table[Component]) = Ref.blocks[b]

(* The MCU of a pixel is intact. *)
McuIntact(m) == \A k \in 1..McuSize : Intact(m * McuSize + k)

(* The end of the scan is not seen before the last intact MCU is decoded    *)
(* (jpeg_bit_buffer::eof).                                                  *)
ScanIsFinished ==
  Sound /\ Placed /\ phase = "mcu" /\ Eof =>
    \A offset \in DOMAIN Ref.mcu : McuIntact(Ref.mcu[offset]) => Ref.mcu[offset] < McusDone

(* When the scan is decoded, every pixel whose MCU is intact shows its own  *)
(* samples: blocks that are not whole are cut, none is missing, and no      *)
(* pixel is overwritten by another block (ConvertBlock, WriteRgbPixel,      *)
(* DecodeImage, ConvertYUV2RGB).                                            *)
ImageRight ==
  Sound /\ decode_done /\ Placed =>
    \A offset \in DOMAIN Ref.pixels :
      McuIntact(Ref.mcu[offset]) => dst[offset] = Ref.pixels[offset]

(* A file is reported as decoded only if it has a scan of a supported kind  *)
(* with nothing but whole and legal segments before it, for the driver also *)
(* behind it, and, for the driver, an image no larger than its buffer (the  *)
(* early returns of Decode and its Parse methods).  Only the segments are   *)
(* judged: a scan that is cut off, that no code matches, or that comes      *)
(* without its tables is reported as decoded whenever its loop ends         *)
(* (jpeg_sw.cc:274-285).                                                    *)
FaultsRefused ==
  phase = "done" /\ result => Decodable(file, program)

(* No code of the tables in use matches the bits that are next: lookup      *)
(* returns the width 0 (jpeg_dht.h:123), and block after block begins at    *)
(* the same bit.                                                            *)
NoCodeMatches ==
  /\ phase \in {"mcu", "block"} /\ ~Eof
  /\ \A table \in 0..(IF mode = "mono" THEN 1 ELSE 3) :
       Lookup(m_dht_table[table], ReadWord).width = 0

(* Decoding a sound file ends, with success unless the C model fails to     *)
(* write its result.  A damaged one ends as well, or it is at bits that no  *)
(* code matches and the loop at jpeg_sw.cc:354 runs for ever, or the        *)
(* division by the width 0 (jpeg_sw.cc:318) ends the program: there is no   *)
(* other way not to come to an end.                                         *)
DecoderEnds ==
  \/ <>(phase = "done" /\ (Sound => result \/ program = "c_model"))
  \/ ~Sound /\ (<>[]NoCodeMatches \/ <>(phase = "crashed" /\ width = 0))

(* The C model "supports [...] YCbCr 4:4:4 (no chroma subsampling), 4:2:0   *)
(* and monochrome images" (c_model/README.md:6): every pixel of an image    *)
(* shows its own samples.                                                   *)
WholeImage ==
  Sound /\ phase = "done" /\ result =>
    \A offset \in DOMAIN Ref.pixels : dst[offset] = Ref.pixels[offset]
=============================================================================
