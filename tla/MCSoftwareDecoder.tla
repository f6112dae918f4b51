--------------------------- MODULE MCSoftwareDecoder ---------------------------
(***************************************************************************)
(* Files for TLC: images of each mode and of sizes around whole blocks,    *)
(* filled from a pool of blocks, in files of several layouts; files with a *)
(* fault in their segments; and damaged files of whole segments.           *)
(***************************************************************************)
EXTENDS SoftwareDecoderProperties

Counts(counts) == [x \in 1..16 |-> IF x <= Len(counts) THEN counts[x] ELSE 0]

(* Codes of 1 to 16 bits; in the first luminance AC table the code of only  *)
(* zero bits is not that of "end of block".                                 *)
DcTable == [counts |-> Counts(<<0, 1, 5, 1, 1, 1>>), values |-> <<0, 1, 2, 3, 4, 5, 6, 9, 10>>]
YAcTable == [counts |-> Counts(<<0, 2, 1, 1, 0, 1, 0, 1, 0, 0, 0, 1, 0, 0, 0, 1>>),
             values |-> <<1, 0, 18, 240, 193, 2, 9, 26>>]
CxAcTable == [counts |-> Counts(<<1, 0, 2, 1, 1, 1, 1, 1>>),
              values |-> <<0, 1, 18, 240, 193, 2, 9, 26>>]

Pool ==
  << [dc |-> 0, ac |-> <<>>],
     [dc |-> 1, ac |-> <<<<1, 1>>>>],
     [dc |-> -3, ac |-> <<<<2, 3>>, <<63, -1>>>>],
     [dc |-> 511, ac |-> <<<<17, 511>>, <<19, -1023>>>>],
     [dc |-> -1, ac |-> <<<<1, -1>>, <<2, 1>>, <<3, -2>>>>],
     [dc |-> 20, ac |-> <<<<13, 1>>, <<14, -1>>>>] >>

Factors(seed) == [k \in 1..64 |-> 1 + ((seed * k) % 7)]

Image(m, w, h, seed) ==
  LET edge == IF m = "420" THEN 2 * Edge ELSE Edge
      mcus == ((w + edge - 1) \div edge) * ((h + edge - 1) \div edge)
  IN [mode |-> m, width |-> w, height |-> h,
      factors |-> <<Factors(1), Factors(3)>>,
      dc |-> <<DcTable, DcTable>>, ac |-> <<YAcTable, CxAcTable>>,
      blocks |-> [b \in 1..(mcus * Len(McuComponents(m))) |->
                    Pool[((seed * b + (b \div 2) + seed) % Len(Pool)) + 1]]]

-----------------------------------------------------------------------------
Plain(marker) == [marker |-> marker, fits |-> TRUE]

Comp(id, m) == [id |-> id, factor |-> IF m = "420" /\ id = 1 THEN <<2, 2>> ELSE <<1, 1>>,
                table |-> IF id = 1 THEN 0 ELSE 1]

Sof0(image) == [marker |-> "SOF0", fits |-> TRUE, width |-> image.width, height |-> image.height,
                comps |-> [c \in 1..(IF image.mode = "mono" THEN 1 ELSE 3) |-> Comp(c, image.mode)]]

Dqt(image, k) == [marker |-> "DQT", fits |-> TRUE,
                  tables |-> <<[number |-> k - 1, factors |-> image.factors[k]]>>]

Dht(image, indices) ==
  [marker |-> "DHT", fits |-> TRUE,
   tables |-> [k \in 1..Len(indices) |->
     LET i == indices[k]
         table == IF i % 2 = 0 THEN image.dc[i \div 2 + 1] ELSE image.ac[i \div 2 + 1]
     IN [index |-> i, counts |-> table.counts, values |-> table.values]]]

Sos(image) == [marker |-> "SOS", fits |-> TRUE, scan |-> Stuffed(Bytes(ScanBits(image)))]

(* Three layouts: one DHT segment, one for each table, no EOI.              *)
Layout(image, k) ==
  CASE k = 0 -> << Plain("SOI"), Plain("APP"), Dqt(image, 1), Dqt(image, 2), Sof0(image),
                   Dht(image, <<0, 1, 2, 3>>), Sos(image), Plain("EOI") >>
    [] k = 1 -> << Plain("SOI"), Dht(image, <<3>>), Dht(image, <<1>>), Dht(image, <<0>>),
                   Dht(image, <<2>>), Dqt(image, 2), Dqt(image, 1), Sof0(image),
                   Plain("COM"), Sos(image), Plain("EOI") >>
    [] k = 2 -> << Plain("SOI"), Sof0(image), Dqt(image, 1), Dqt(image, 2),
                   Dht(image, <<3, 2, 1, 0>>), Sos(image) >>

FileOf(image, k) == [segments |-> Layout(image, k), fault |-> "none",
                     image |-> image, reference |-> Reference(image)]

(* One segment is cut off, missing or of another kind. *)
Faulty(image) ==
  LET good == Layout(image, 0)
      Bad(segments) == [segments |-> segments, fault |-> "faulty",
                        image |-> image, reference |-> Reference(image)]
      CutOff(k) == Bad([good EXCEPT ![k].fits = FALSE])
  IN { CutOff(2), CutOff(3), CutOff(5), CutOff(6), CutOff(7),
        Bad(SubSeq(good, 1, 6)), Bad(SubSeq(good, 1, 4) \o SubSeq(good, 6, 8)),
        Bad([good EXCEPT ![5].marker = "SOF2"]),
        Bad([good EXCEPT ![5].comps[2].factor = <<1, 2>>]),
        Bad([good EXCEPT ![5].comps = @ \o @]) }

(* Every segment is whole and legal, but tables are missing (all, those of  *)
(* the chrominance, the factors), the scan is cut off in the middle or      *)
(* begins with bits that no code matches, or the image has no width.        *)
Damaged(image) ==
  LET good == Layout(image, 0)
      Damage(segments) == [segments |-> segments, fault |-> "damaged",
                           image |-> image, reference |-> Reference(image)]
      Without(a, b) == Damage(SubSeq(good, 1, a - 1) \o SubSeq(good, b + 1, 8))
  IN { Without(6, 6), Without(3, 4),
       Damage([good EXCEPT ![6] = Dht(image, <<0, 1>>)]),
       Damage([SubSeq(good, 1, 7) EXCEPT ![7].scan = SubSeq(@, 1, Len(@) \div 2)]),
       Damage([good EXCEPT ![7].scan = <<255, 0, 255, 0>> \o @]),
       Damage([good EXCEPT ![5].width = 0]) }

TooLarge(image) ==
  [segments |-> Layout(image, 0), fault |-> "too large",
   image |-> image, reference |-> Reference(image)]

Sizes == { <<"mono", 1, 1>>, <<"mono", 2, 2>>, <<"mono", 4, 4>>, <<"mono", 5, 3>>,
           <<"mono", 2, 8>>, <<"444", 2, 2>>, <<"444", 3, 3>>, <<"444", 5, 2>>,
           <<"420", 4, 4>>, <<"420", 3, 3>>, <<"420", 8, 6>>, <<"420", 7, 5>>, <<"420", 6, 4>> }

MCFiles ==
  {FileOf(Image(s[1], s[2], s[3], seed), seed % 3) : s \in Sizes, seed \in 1..6}
    \union Faulty(Image("444", 3, 2, 1)) \union Damaged(Image("444", 3, 2, 1))
    \union {TooLarge(Image("444", 7, 7, 1))}

(* Flat images, whose last block begins inside the last byte.               *)
MCFlatFiles ==
  {FileOf([Image("mono", 2, 2 * n, 0) EXCEPT
             !.blocks = [b \in 1..n |-> [dc |-> 1, ac |-> <<>>]]], 0) : n \in 1..8}
=============================================================================
