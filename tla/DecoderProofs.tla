---------------------------- MODULE DecoderProofs ----------------------------
(***************************************************************************)
(* The software decoders report only what they can decode, hand the bytes  *)
(* of the scan to the entropy decoder as they were encoded, and put every  *)
(* sample to its pixel: for any files, of any number of segments, any      *)
(* length and any size of the image.                                       *)
(***************************************************************************)
EXTENDS SoftwareDecoderProperties, FiniteSetTheorems, SequenceTheorems, TLAPS

Phases == {"segments", "scan", "mcu", "block", "done", "crashed"}
Scanning == {"scan", "mcu", "block"}

Begun ==
  /\ file \in Files /\ program \in {"driver", "c_model"}
  /\ program = "c_model" => \A k \in 1..Len(Segments) : Segments[k].fits
  /\ phase \in Phases
  /\ segment \in 1..(Len(Segments) + 1)
  /\ phase \in Scanning => segment <= Len(Segments) /\ Segment.marker = "SOS"

(* What the loop went past was legal, and what it keeps of that is the kind *)
(* of the image and that a scan was decoded.                                *)
Taken(n) == \A k \in 1..n : Segments[k].marker # "EOI" /\ Legal(file, program, k)

LoopKnows ==
  phase # "done" =>
    /\ Taken(segment - 1)
    /\ phase \in Scanning => Legal(file, program, segment)
    /\ mode # "unsupported" => Supported(file, segment)
    /\ decode_done => \E s \in 1..(segment - 1) : Segments[s].marker = "SOS"

Reported == phase = "done" /\ result => Decodable(file, program)

ReportInv == Begun /\ LoopKnows /\ Reported

LEMMA SegmentsCounted == Begun => Len(Segments) \in Nat
BY FilesAssumption DEF Begun, Segments

LEMMA ReportInvInitially == DecoderInit => ReportInv
<1> SUFFICES ASSUME DecoderInit PROVE ReportInv
  OBVIOUS
<1>1. Len(Segments) \in Nat
  BY FilesAssumption DEF DecoderInit, Segments
<1>2. QED
  BY <1>1 DEF DecoderInit, ReportInv, Begun, LoopKnows, Reported, Taken, Phases, Scanning

(* Where the loop goes on, a legal segment more is behind it.               *)
LEMMA GoingOn ==
  ASSUME ReportInv, phase = "segments", segment <= Len(Segments),
         Segment.marker # "EOI", Legal(file, program, segment), Continue,
         UNCHANGED <<program, file, decode_done>>,
         mode' # "unsupported" => Supported(file, segment + 1)
  PROVE  ReportInv'
<1>1. Len(Segments) \in Nat
  BY SegmentsCounted DEF ReportInv
<1>2. segment' = segment + 1 /\ phase' = "segments" /\ Segments' = Segments
  BY DEF Continue, Segments
<1>3. Begun'
  BY <1>1, <1>2 DEF ReportInv, Begun, Scanning, Phases
<1>4. \A k \in 1..segment : Segments'[k].marker # "EOI" /\ Legal(file', program', k)
  BY <1>1, <1>2 DEF ReportInv, Begun, LoopKnows, Taken, Segment
<1>5. decode_done' => \E s \in 1..(segment' - 1) : Segments[s].marker = "SOS"
  BY <1>1, <1>2 DEF ReportInv, Begun, LoopKnows
<1>6. mode' # "unsupported" => Supported(file', segment')
  BY <1>2
<1>7. segment' - 1 = segment
  BY <1>1, <1>2 DEF ReportInv, Begun
<1>8. QED
  BY <1>2, <1>3, <1>4, <1>5, <1>6, <1>7 DEF ReportInv, LoopKnows, Reported, Scanning, Taken

(* The kind of the image stays that of the last frame header.               *)
LEMMA NoHeader ==
  ASSUME Begun, segment <= Len(Segments), Segment.marker # "SOF0", Supported(file, segment)
  PROVE  Supported(file, segment + 1)
BY SegmentsCounted DEF Begun, Supported, Segment, Segments

LEMMA Ending ==
  ASSUME ReportInv, phase' = "done",
         UNCHANGED <<program, file, segment>>,
         result' => Decodable(file, program)
  PROVE  ReportInv'
BY DEF ReportInv, Begun, LoopKnows, Reported, Segments, Segment, Scanning, Phases
(* Where the loop ends with a decoded scan, the file is decodable.          *)
LEMMA Whole ==
  ASSUME ReportInv, phase = "segments", decode_done,
         \/ segment > Len(Segments)
         \/ Segment.marker = "EOI"
         \/ program = "c_model"
  PROVE  Decodable(file, program)
<1>1. Len(Segments) \in Nat /\ segment \in 1..(Len(Segments) + 1) /\ program \in {"driver", "c_model"}
  BY SegmentsCounted DEF ReportInv, Begun
<1>2. PICK s \in 1..(segment - 1) : Segments[s].marker = "SOS"
  BY DEF ReportInv, LoopKnows
<1>3. \A k \in 1..(segment - 1) : Segments[k].marker # "EOI" /\ Legal(file, program, k)
  BY DEF ReportInv, LoopKnows, Taken
<1>4. s \in 1..Len(Segments) /\ BeforeEoi(file, s)
  BY <1>1, <1>2, <1>3 DEF BeforeEoi, Segments
<1>5. ASSUME NEW k \in 1..Len(Segments), BeforeEoi(file, k), k <= s \/ program = "driver"
      PROVE  k < segment
  BY <1>1, <1>2, <1>5 DEF BeforeEoi, Segments, Segment
<1>6. QED
  BY <1>1, <1>2, <1>3, <1>4, <1>5 DEF Decodable, Segments

LEMMA Refusing ==
  ASSUME ReportInv, Refuse, UNCHANGED <<program, file>>
  PROVE  ReportInv'
BY Ending DEF Refuse

LEMMA SkipReports == ReportInv /\ SkipSegment => ReportInv'
<1> SUFFICES ASSUME ReportInv, SkipSegment PROVE ReportInv'
  OBVIOUS
<1>1. /\ phase = "segments" /\ segment <= Len(Segments)
      /\ Segment.marker \in {"SOI", "APP", "COM", "DRI"}
      /\ UNCHANGED <<program, file, decode_done, mode>>
  BY DEF SkipSegment, At, Segment, headerVars
<1>2. CASE Checked /\ Segment.marker # "SOI" /\ ~Segment.fits
  BY <1>1, <1>2, Refusing DEF SkipSegment
<1>3. CASE ~(Checked /\ Segment.marker # "SOI" /\ ~Segment.fits)
  <2>1. Legal(file, program, segment)
    BY <1>1, <1>3, SegmentsCounted DEF Legal, Checked, Segment, Segments, ReportInv, Begun
  <2>2. mode' # "unsupported" => Supported(file, segment + 1)
    BY <1>1, NoHeader DEF ReportInv, LoopKnows
  <2>3. QED
    BY <1>1, <1>3, <2>1, <2>2, GoingOn DEF SkipSegment
<1>4. QED
  BY <1>2, <1>3

LEMMA TablesReport ==
  ReportInv /\ (ParseDqt \/ ParseDht \/ CModelDqt \/ CModelDht) => ReportInv'
<1> SUFFICES ASSUME ReportInv, ParseDqt \/ ParseDht \/ CModelDqt \/ CModelDht PROVE ReportInv'
  OBVIOUS
<1>1. /\ phase = "segments" /\ segment <= Len(Segments) /\ Segment.marker \in {"DQT", "DHT"}
      /\ UNCHANGED <<program, file, decode_done, mode>>
      /\ \/ Checked /\ ~Segment.fits /\ Refuse
         \/ ~(Checked /\ ~Segment.fits) /\ Continue
  BY DEF ParseDqt, ParseDht, CModelDqt, CModelDht, Table, At, Segment, headerVars
<1>2. CASE Refuse
  BY <1>1, <1>2, Refusing
<1>3. CASE ~(Checked /\ ~Segment.fits) /\ Continue
  <2>1. Legal(file, program, segment)
    BY <1>1, <1>3, SegmentsCounted DEF Legal, Checked, Segment, Segments, ReportInv, Begun
  <2>2. mode' # "unsupported" => Supported(file, segment + 1)
    BY <1>1, NoHeader DEF ReportInv, LoopKnows
  <2>3. QED
    BY <1>1, <1>3, <2>1, <2>2, GoingOn
<1>4. QED
  BY <1>1, <1>2, <1>3
LEMMA HeadersReport == ReportInv /\ (ParseSof0 \/ CModelSof0) => ReportInv'
<1> SUFFICES ASSUME ReportInv, ParseSof0 \/ CModelSof0 PROVE ReportInv'
  OBVIOUS
<1> DEFINE takes == /\ Len(Segment.comps) <= 3
                    /\ Checked => Segment.fits
                    /\ Checked => 3 * Segment.width * Segment.height <= DstCapacity
<1>1. /\ phase = "segments" /\ segment <= Len(Segments) /\ Segment.marker = "SOF0"
      /\ UNCHANGED <<program, file, decode_done>>
      /\ IF takes THEN SetHeader /\ Continue ELSE Refuse
  BY DEF ParseSof0, CModelSof0, At, Segment
<1>2. CASE ~takes
  BY <1>1, <1>2, Refusing
<1>3. CASE takes
  <2>1. Legal(file, program, segment)
    BY <1>1, <1>3, SegmentsCounted DEF Legal, Checked, Segment, Segments, ReportInv, Begun
  <2>2. mode' # "unsupported" => Supported(file, segment + 1)
    <3>1. mode' = Modes(file.segments[segment].comps)
      BY <1>1, <1>3 DEF SetHeader, Segment, Segments
    <3>2. /\ Len(Segments) \in Nat /\ segment \in 1..((segment + 1) - 1)
          /\ (segment + 1)..((segment + 1) - 1) = {}
          /\ file.segments[segment].marker = "SOF0"
      BY <1>1, SegmentsCounted DEF ReportInv, Begun, Segment, Segments
    <3>3. QED
      BY <3>1, <3>2 DEF Supported
  <2>3. QED
    BY <1>1, <1>3, <2>1, <2>2, GoingOn
<1>4. QED
  BY <1>2, <1>3

LEMMA EndsReport == ReportInv /\ (EndOfFile \/ ParseSof2) => ReportInv'
<1> SUFFICES ASSUME ReportInv, EndOfFile \/ ParseSof2 PROVE ReportInv'
  OBVIOUS
<1>1. /\ phase = "segments"
      /\ UNCHANGED <<program, file, decode_done>>
      /\ segment > Len(Segments) \/ Segment.marker \in {"EOI", "SOF2"}
  BY DEF EndOfFile, ParseSof2, At, Segment
<1>2. CASE Refuse
  BY <1>1, <1>2, Refusing
<1>3. CASE ~Refuse
  <2>1. /\ phase' = "done" /\ UNCHANGED segment /\ result' \in {FALSE, decode_done}
        /\ \/ segment > Len(Segments)
           \/ Segment.marker = "EOI"
           \/ program = "c_model"
    BY <1>3, <1>1 DEF EndOfFile, ParseSof2, WriteImage, Checked, ReportInv, Begun, At, Segment
  <2>2. decode_done => Decodable(file, program)
    BY <1>1, <2>1, Whole
  <2>3. result' => decode_done
    BY <2>1, Zenon
  <2>4. QED
    BY <1>1, <2>1, <2>2, <2>3, Ending
<1>4. QED
  BY <1>2, <1>3

LEMMA ScanReports == ReportInv /\ (ParseSos \/ CModelSos) => ReportInv'
<1> SUFFICES ASSUME ReportInv, ParseSos \/ CModelSos PROVE ReportInv'
  OBVIOUS
<1>1. /\ phase = "segments" /\ segment <= Len(Segments) /\ Segment.marker = "SOS"
      /\ UNCHANGED <<program, file, decode_done, mode>>
  BY DEF ParseSos, CModelSos, At, Segment, headerVars
<1>2. CASE Refuse
  BY <1>1, <1>2, Refusing
<1>3. CASE WriteImage /\ ~Checked
  <2>1. decode_done => Decodable(file, program)
    BY <1>1, <1>3, Whole DEF Checked, ReportInv, Begun
  <2>2. result' => decode_done
    BY <1>3, Zenon DEF WriteImage
  <2>3. QED
    BY <1>1, <1>3, <2>1, <2>2, Ending DEF WriteImage
<1>4. CASE BeginScan /\ mode # "unsupported" /\ (Checked => Segment.fits)
  <2>1. Legal(file, program, segment)
    BY <1>1, <1>4, SegmentsCounted
    DEF Legal, Checked, Segment, Segments, ReportInv, Begun, LoopKnows
  <2>2. /\ phase' = "scan" /\ UNCHANGED <<segment, result>>
    BY <1>4 DEF BeginScan
  <2>3. QED
    BY <1>1, <2>1, <2>2
    DEF ReportInv, Begun, LoopKnows, Reported, Taken, Segments, Segment, Phases, Scanning
<1>5. QED
  BY <1>2, <1>3, <1>4 DEF ParseSos, CModelSos

(* The steps of a scan: nothing of the loop changes until its end.          *)
LEMMA BlocksReport ==
  ReportInv /\ (PushScan \/ NextMcu \/ DecodeFirst \/ DecodeNext \/ FinishBlock) => ReportInv'
<1> SUFFICES ASSUME ReportInv,
                    PushScan \/ NextMcu \/ DecodeFirst \/ DecodeNext \/ FinishBlock
             PROVE  ReportInv'
  OBVIOUS
<1>1. /\ UNCHANGED <<program, file, result, mode>>
      /\ phase \in Scanning
      /\ \/ phase' \in Scanning /\ UNCHANGED <<segment, decode_done>>
         \/ phase' = "segments" /\ segment' = segment + 1 /\ decode_done' = TRUE
  BY DEF PushScan, NextMcu, DecodeFirst, DecodeNext, FinishBlock, InBlock, headerVars, Scanning
<1>2. /\ Len(Segments) \in Nat /\ segment \in 1..Len(Segments) /\ Segment.marker = "SOS"
      /\ Legal(file, program, segment) /\ Taken(segment - 1)
      /\ mode # "unsupported" => Supported(file, segment + 1)
  BY <1>1, SegmentsCounted, NoHeader DEF ReportInv, Begun, LoopKnows, Scanning
<1>3. CASE phase' \in Scanning /\ UNCHANGED <<segment, decode_done>>
  BY <1>1, <1>2, <1>3
  DEF ReportInv, Begun, LoopKnows, Reported, Taken, Segments, Segment, Phases, Scanning
<1>4. CASE phase' = "segments" /\ segment' = segment + 1 /\ decode_done' = TRUE
  <2>1. Begun'
    BY <1>1, <1>2, <1>4 DEF ReportInv, Begun, Segments, Phases, Scanning
  <2>2. \A k \in 1..segment : Segments'[k].marker # "EOI" /\ Legal(file', program', k)
    BY <1>1, <1>2 DEF Taken, Segments, Segment
  <2>3. segment' - 1 = segment /\ Segments'[segment].marker = "SOS" /\ segment \in 1..segment
    BY <1>1, <1>2, <1>4 DEF Segments, Segment
  <2>4. mode' # "unsupported" => Supported(file', segment')
    BY <1>1, <1>2, <1>4
  <2>5. QED
    BY <1>4, <2>1, <2>2, <2>3, <2>4 DEF ReportInv, LoopKnows, Reported, Taken, Scanning
<1>5. QED
  BY <1>1, <1>3, <1>4

LEMMA CrashReports == ReportInv /\ DivideByZero => ReportInv'
BY DEF DivideByZero, ReportInv, Begun, LoopKnows, Reported, Taken, Segments, Segment, Phases,
   Scanning, headerVars

LEMMA StaysReported == ReportInv /\ UNCHANGED decoderVars => ReportInv'
BY DEF ReportInv, Begun, LoopKnows, Reported, Taken, Segments, Segment, decoderVars

LEMMA ReportInvHolds == DecoderSpec => []ReportInv
<1>1. ReportInv /\ [DecoderNext]_decoderVars => ReportInv'
  BY SkipReports, TablesReport, HeadersReport, EndsReport, ScanReports, BlocksReport,
     CrashReports, StaysReported DEF DecoderNext
<1>2. QED
  BY ReportInvInitially, <1>1, PTL DEF DecoderSpec

(* Whatever the file, a result of success means that the file has a scan    *)
(* of a supported kind, that everything before it was whole and legal, and  *)
(* for the driver everything behind it up to EOI as well: no order of the   *)
(* segments gets around the early returns of Decode and its Parse methods.  *)
(* Nothing is said of the bytes of the scan.                                *)
THEOREM FaultsAreRefused == DecoderSpec => []FaultsRefused
<1>1. ReportInv => FaultsRefused
  BY DEF ReportInv, Reported, FaultsRefused
<1>2. QED
  BY <1>1, ReportInvHolds, PTL
-----------------------------------------------------------------------------
(* The bytes in the bit buffer. *)
LEMMA DataCount ==
  ASSUME NEW scan \in Seq(0..255), NEW k \in Nat \ {0}
  PROVE  /\ DataBefore(scan, k) \in Nat
         /\ DataBefore(scan, 1) = 0
         /\ DataBefore(scan, k + 1) = DataBefore(scan, k) + (IF Padding(scan, k) THEN 0 ELSE 1)
         /\ \A m \in Nat \ {0} : k <= m => DataBefore(scan, k) <= DataBefore(scan, m)
<1> DEFINE data(n) == {j \in 1..(n - 1) : ~Padding(scan, j)}
<1>1. ASSUME NEW n \in Nat \ {0} PROVE IsFiniteSet(data(n))
  <2>1. data(n) \in SUBSET (1..(n - 1)) /\ IsFiniteSet(1..(n - 1))
    BY FS_Interval
  <2>2. QED
    BY <2>1, FS_Subset
<1>2. ASSUME NEW n \in Nat \ {0} PROVE DataBefore(scan, n) = Cardinality(data(n))
  BY DEF DataBefore
<1>3. DataBefore(scan, k) \in Nat
  BY <1>1, <1>2, FS_CardinalityType
<1>4. DataBefore(scan, 1) = 0
  <2>1. data(1) = {}
    OBVIOUS
  <2>2. QED
    BY <1>2, <2>1, FS_EmptySet
<1>5. DataBefore(scan, k + 1) = DataBefore(scan, k) + (IF Padding(scan, k) THEN 0 ELSE 1)
  <2>1. DataBefore(scan, k + 1) = Cardinality(data(k + 1))
    BY <1>2
  <2>2. CASE Padding(scan, k)
    <3>1. data(k + 1) = data(k)
      BY <2>2
    <3> HIDE DEF data
    <3>2. QED
      BY <1>2, <1>3, <2>1, <2>2, <3>1
  <2>3. CASE ~Padding(scan, k)
    <3>1. data(k + 1) = data(k) \cup {k} /\ k \notin data(k)
      BY <2>3
    <3>2. IsFiniteSet(data(k))
      BY <1>1
    <3> HIDE DEF data
    <3>3. Cardinality(data(k) \cup {k}) = Cardinality(data(k)) + 1
      BY <3>1, <3>2, FS_AddElement
    <3>4. QED
      BY <1>2, <2>1, <2>3, <3>1, <3>3
  <2>4. QED
    BY <2>2, <2>3
<1>6. ASSUME NEW m \in Nat \ {0}, k <= m PROVE DataBefore(scan, k) <= DataBefore(scan, m)
  <2>1. data(k) \in SUBSET data(m)
    BY <1>6
  <2>2. IsFiniteSet(data(m))
    BY <1>1
  <2> HIDE DEF data
  <2>3. QED
    BY <1>2, <2>1, <2>2, FS_Subset
<1>7. QED
  BY <1>3, <1>4, <1>5, <1>6

(* While the scan is pushed, the buffer holds the bytes of what was pushed, *)
(* at the end also the 0xFF of the marker; then the bytes of the scan stand *)
(* below the write offset.                                                  *)
Pushing(scan, bytes) ==
  /\ m_wr_offset = Len(m_buffer)
  /\ scan_idx \in 1..(Len(scan) + 2)
  /\ scan_idx = Len(scan) + 2 => segment < Len(Segments)
  /\ m_last = IF scan_idx = 1 THEN 0
              ELSE IF scan_idx = Len(scan) + 2 THEN 255 ELSE scan[scan_idx - 1]
  /\ m_wr_offset = IF scan_idx = Len(scan) + 2 THEN Len(bytes) + 1
                   ELSE DataBefore(scan, scan_idx)
  /\ \A i \in 1..Len(m_buffer) : i <= Len(bytes) => m_buffer[i] = bytes[i]

Pushed(bytes) ==
  /\ m_wr_offset = Len(bytes) /\ Len(bytes) <= Len(m_buffer)
  /\ \A i \in 1..Len(bytes) : m_buffer[i] = bytes[i]

BufferInv ==
  Sound =>
    /\ phase \in Scanning => m_buffer \in Seq(0..255)
    /\ phase = "scan" => Pushing(Segment.scan, Ref.bytes)
    /\ phase \in {"mcu", "block"} => Pushed(Ref.bytes)

LEMMA ScanUnstuffs ==
  ASSUME ReportInv, Sound, segment <= Len(Segments), Segment.marker = "SOS"
  PROVE  Unstuffs(Segment.scan, Ref.bytes)
<1>1. file \in Files /\ segment \in 1..Len(file.segments)
  BY SegmentsCounted DEF ReportInv, Begun, Segments
<1>2. file.fault \in {"none", "too large"}
  BY DEF Sound
<1>3. file.segments[segment].marker = "SOS"
  BY DEF Segment, Segments
<1>4. Encodes(file)
  BY <1>1, <1>2, FilesAssumption
<1>5. QED
  BY <1>1, <1>3, <1>4 DEF Encodes, Segment, Segments, Ref

LEMMA BufferBegins == ReportInv /\ (ParseSos \/ CModelSos) => BufferInv'
<1> SUFFICES ASSUME ReportInv, ParseSos \/ CModelSos PROVE BufferInv'
  OBVIOUS
<1>0. UNCHANGED <<file, program>>
  BY DEF ParseSos, CModelSos
<1> SUFFICES ASSUME Sound, phase' \in Scanning PROVE BufferInv'
  BY <1>0 DEF BufferInv, Scanning, Sound
<1>1. /\ phase' = "scan" /\ segment' = segment /\ UNCHANGED <<file, program>>
      /\ m_buffer' = <<>> /\ m_wr_offset' = 0 /\ m_last' = 0 /\ scan_idx' = 1
      /\ segment <= Len(Segments) /\ Segment.marker = "SOS"
  BY <1>0 DEF ParseSos, CModelSos, BeginScan, ResetBits, Refuse, WriteImage, Scanning, At, Segment
<1>2. Unstuffs(Segment.scan, Ref.bytes)
  BY <1>1, ScanUnstuffs
<1>3. DataBefore(Segment.scan, 1) = 0 /\ Len(Segment.scan) \in Nat
  BY <1>2, DataCount DEF Unstuffs
<1>4. Segment' = Segment /\ Ref' = Ref /\ Segments' = Segments
  BY <1>1 DEF Segment, Segments, Ref
<1>5. QED
  BY <1>1, <1>3, <1>4 DEF BufferInv, Pushing, Scanning
LEMMA OneMore ==
  ASSUME NEW S, NEW s \in Seq(S), NEW x \in S
  PROVE  /\ Append(s, x) \in Seq(S) /\ Len(Append(s, x)) = Len(s) + 1
         /\ \A i \in 1..Len(s) : Append(s, x)[i] = s[i]
         /\ Append(s, x)[Len(s) + 1] = x
OBVIOUS

(* The marker of the next segment stands behind the scan, if there is one.  *)
LEMMA ScanAndMarker ==
  ASSUME Segment.scan \in Seq(0..255)
  PROVE  LET n == Len(Segment.scan)
         IN /\ Len(ScanBytes) = IF segment < Len(Segments) THEN n + 2 ELSE n
            /\ \A k \in 1..n : ScanBytes[k] = Segment.scan[k]
            /\ segment < Len(Segments) =>
                 ScanBytes[n + 1] = 255 /\ ScanBytes[n + 2] = 217
<1> DEFINE scan == Segment.scan
<1> HIDE DEF scan
<1>1. ASSUME NEW t \in Seq(0..255)
      PROVE  /\ Len(scan \o t) = Len(scan) + Len(t)
             /\ \A k \in 1..Len(scan) : (scan \o t)[k] = scan[k]
             /\ \A k \in 1..Len(t) : (scan \o t)[Len(scan) + k] = t[k]
  <2>1. scan \in Seq(0..255)
    BY DEF scan
  <2>2. QED
    BY <2>1
<1>2. <<255, 217>> \in Seq(0..255) /\ Len(<<255, 217>>) = 2
      /\ <<255, 217>>[1] = 255 /\ <<255, 217>>[2] = 217
  OBVIOUS
<1>3. <<>> \in Seq(0..255) /\ Len(<<>>) = 0
  OBVIOUS
<1>4. ScanBytes = scan \o (IF segment < Len(Segments) THEN <<255, 217>> ELSE <<>>)
  BY DEF ScanBytes, scan
<1>5. Len(scan) \in Nat
  BY DEF scan
<1>6. CASE segment < Len(Segments)
  <2>1. ScanBytes = scan \o <<255, 217>>
    BY <1>4, <1>6
  <2>2. QED
    BY <1>1, <1>2, <1>5, <1>6, <2>1 DEF scan
<1>7. CASE ~(segment < Len(Segments))
  <2>1. ScanBytes = scan \o <<>>
    BY <1>4, <1>7
  <2>2. QED
    BY <1>1, <1>3, <1>5, <1>7, <2>1 DEF scan
<1>8. QED
  BY <1>6, <1>7

LEMMA BufferFills == ReportInv /\ BufferInv /\ PushScan => BufferInv'
<1> SUFFICES ASSUME ReportInv, BufferInv, PushScan PROVE BufferInv'
  OBVIOUS
<1> DEFINE scan == Segment.scan
           bytes == Ref.bytes
           n == Len(scan)
<1>1. phase = "scan" /\ UNCHANGED <<file, program, segment>>
  BY DEF PushScan
<1> SUFFICES ASSUME Sound PROVE BufferInv'
  BY <1>1 DEF BufferInv, Sound
<1>2. /\ Segment' = Segment /\ Ref' = Ref /\ Segments' = Segments
      /\ Len(Segments) \in Nat /\ segment \in 1..Len(Segments)
  <2>1. Segment' = Segment /\ Ref' = Ref /\ Segments' = Segments
    BY <1>1 DEF Segment, Segments, Ref
  <2>2. Len(Segments) \in Nat /\ segment \in 1..Len(Segments)
    BY <1>1, SegmentsCounted DEF ReportInv, Begun, Scanning
  <2>3. QED
    BY <2>1, <2>2
<1>3. Unstuffs(scan, bytes)
  BY <1>1, <1>2, ScanUnstuffs DEF ReportInv, Begun, Scanning
<1>4. /\ scan \in Seq(0..255) /\ bytes \in Seq(0..255) /\ n \in Nat /\ Len(bytes) \in Nat
      /\ \A k \in 1..n : scan[k] = 255 => k < n /\ scan[k + 1] = 0
      /\ Len(bytes) = DataBefore(scan, n + 1)
      /\ \A k \in 1..n : ~Padding(scan, k) => bytes[DataBefore(scan, k) + 1] = scan[k]
  BY <1>3 DEF Unstuffs
<1>5. m_buffer \in Seq(0..255) /\ Pushing(scan, bytes)
  BY <1>1 DEF BufferInv, Scanning
<1>6. /\ Len(ScanBytes) = IF segment < Len(Segments) THEN n + 2 ELSE n
      /\ \A k \in 1..n : ScanBytes[k] = scan[k]
      /\ segment < Len(Segments) => ScanBytes[n + 1] = 255 /\ ScanBytes[n + 2] = 217
  BY <1>4, ScanAndMarker
<1> HIDE DEF scan, bytes
<1>7. scan_idx \in 1..(n + 2) /\ (scan_idx = n + 2 => segment < Len(Segments))
  BY <1>5 DEF Pushing
<1>8. CASE scan_idx <= n
  <2>1. /\ scan_idx \in 1..n /\ scan_idx <= Len(ScanBytes) /\ ScanBytes[scan_idx] = scan[scan_idx]
        /\ scan[scan_idx] \in 0..255
    <3>1. scan_idx \in 1..n
      BY <1>4, <1>7, <1>8
    <3>2. n <= Len(ScanBytes)
      BY <1>4, <1>6
    <3>3. scan[scan_idx] \in 0..255
      BY <1>4, <3>1, ElementOfSeq
    <3>4. scan_idx <= Len(ScanBytes)
      BY <1>4, <1>6, <3>1, <3>2
    <3>5. QED
      BY <1>6, <3>1, <3>3, <3>4
  <2>2. m_last = 255 <=> Padding(scan, scan_idx)
    BY <1>4, <1>5, <2>1 DEF Pushing, Padding
  <2>3. ~MarkerFound(scan[scan_idx])
    BY <1>4, <2>1, <2>2 DEF MarkerFound, Padding
  <2>4. /\ phase' = "scan" /\ scan_idx' = scan_idx + 1 /\ m_last' = scan[scan_idx]
        /\ IF m_last = 255
           THEN UNCHANGED <<m_buffer, m_wr_offset>>
           ELSE m_buffer' = Append(m_buffer, scan[scan_idx]) /\ m_wr_offset' = m_wr_offset + 1
    BY <1>1, <2>1, <2>3 DEF PushScan, Push
  <2>5. m_wr_offset = Len(m_buffer) /\ m_wr_offset = DataBefore(scan, scan_idx)
    BY <1>4, <1>5, <2>1 DEF Pushing
  <2>6. /\ DataBefore(scan, scan_idx) \in Nat
        /\ DataBefore(scan, scan_idx + 1)
             = DataBefore(scan, scan_idx) + (IF m_last = 255 THEN 0 ELSE 1)
    <3>1. scan_idx \in Nat \ {0}
      BY <2>1
    <3>2. /\ DataBefore(scan, scan_idx) \in Nat
          /\ DataBefore(scan, scan_idx + 1)
               = DataBefore(scan, scan_idx) + (IF Padding(scan, scan_idx) THEN 0 ELSE 1)
      BY <1>4, <3>1, DataCount
    <3>3. QED
      BY <2>2, <3>2
  <2>7. /\ m_buffer' \in Seq(0..255) /\ m_wr_offset' = Len(m_buffer')
        /\ m_wr_offset' = DataBefore(scan, scan_idx + 1)
    <3>1. CASE m_last = 255
      <4>1. m_buffer' = m_buffer /\ m_wr_offset' = m_wr_offset
        BY <2>4, <3>1
      <4>2. DataBefore(scan, scan_idx + 1) = DataBefore(scan, scan_idx)
        BY <2>6, <3>1
      <4>3. QED
        BY <1>5, <2>5, <4>1, <4>2
    <3>2. CASE m_last # 255
      <4>1. /\ m_buffer' = Append(m_buffer, scan[scan_idx]) /\ m_wr_offset' = m_wr_offset + 1
        BY <2>4, <3>2
      <4>2. m_buffer' \in Seq(0..255) /\ Len(m_buffer') = Len(m_buffer) + 1
        BY <1>5, <2>1, <4>1, OneMore
      <4>3. QED
        BY <2>5, <2>6, <3>2, <4>1, <4>2
    <3>3. QED
      BY <3>1, <3>2
  <2>8. \A i \in 1..Len(m_buffer') : i <= Len(bytes) => m_buffer'[i] = bytes[i]
    <3>1. \A i \in 1..Len(m_buffer) : i <= Len(bytes) => m_buffer[i] = bytes[i]
      BY <1>5 DEF Pushing
    <3>2. CASE m_last = 255
      BY <2>4, <3>1, <3>2
    <3>3. CASE m_last # 255
      <4>1. /\ m_buffer' = Append(m_buffer, scan[scan_idx]) /\ Len(m_buffer') = Len(m_buffer) + 1
            /\ \A i \in 1..Len(m_buffer) : m_buffer'[i] = m_buffer[i]
            /\ m_buffer'[Len(m_buffer) + 1] = scan[scan_idx]
        BY <1>5, <2>1, <2>4, <3>3, OneMore
      <4>2. bytes[Len(m_buffer) + 1] = scan[scan_idx] /\ Len(m_buffer) \in Nat
        BY <1>4, <2>1, <2>2, <2>5, <2>6, <3>3
      <4>3. QED
        BY <3>1, <4>1, <4>2
    <3>4. QED
      BY <3>2, <3>3
  <2>9. Pushing(scan, bytes)'
    BY <1>2, <1>4, <2>1, <2>4, <2>7, <2>8 DEF Pushing, scan, bytes
  <2>10. QED
    BY <1>2, <2>4, <2>7, <2>9 DEF BufferInv, scan, bytes
<1>9. CASE scan_idx > n /\ scan_idx > Len(ScanBytes)
  <2>1. scan_idx = n + 1
    BY <1>2, <1>4, <1>6, <1>7, <1>9
  <2>2. phase' = "mcu" /\ UNCHANGED <<m_buffer, m_wr_offset>>
    BY <1>1, <1>9 DEF PushScan, bitVars
  <2>3. Pushed(bytes)
    BY <1>4, <1>5, <2>1 DEF Pushing, Pushed
  <2>4. QED
    BY <1>2, <1>5, <2>2, <2>3 DEF BufferInv, Pushed, bytes
<1>10. CASE scan_idx = n + 1 /\ scan_idx <= Len(ScanBytes)
  <2>1. ScanBytes[scan_idx] = 255 /\ segment < Len(Segments)
    BY <1>2, <1>4, <1>6, <1>10
  <2>2. m_last # 255
    BY <1>4, <1>5, <1>10 DEF Pushing
  <2>3. /\ phase' = "scan" /\ scan_idx' = n + 2 /\ m_last' = 255
        /\ m_buffer' = Append(m_buffer, 255) /\ m_wr_offset' = m_wr_offset + 1
    BY <1>1, <1>4, <1>10, <2>1, <2>2 DEF PushScan, Push, MarkerFound
  <2>4. m_wr_offset = Len(m_buffer) /\ m_wr_offset = Len(bytes)
    BY <1>4, <1>5, <1>10 DEF Pushing
  <2>5. \A i \in 1..Len(m_buffer) : m_buffer[i] = bytes[i]
    BY <1>5, <2>4 DEF Pushing
  <2>6. /\ m_buffer' \in Seq(0..255) /\ Len(m_buffer') = Len(bytes) + 1
        /\ \A i \in 1..Len(bytes) : m_buffer'[i] = bytes[i]
    <3>1. /\ Append(m_buffer, 255) \in Seq(0..255) /\ Len(Append(m_buffer, 255)) = Len(m_buffer) + 1
          /\ \A i \in 1..Len(m_buffer) : Append(m_buffer, 255)[i] = m_buffer[i]
      BY <1>5, OneMore
    <3>2. QED
      BY <2>3, <2>4, <2>5, <3>1
  <2>7. Pushing(scan, bytes)'
    <3>1. scan' = scan /\ bytes' = bytes /\ segment' = segment /\ Segments' = Segments
      BY <1>1, <1>2 DEF scan, bytes
    <3>2. m_wr_offset' = Len(bytes) + 1
      BY <2>3, <2>4
    <3>3. QED
      BY <1>4, <2>1, <2>3, <2>6, <3>1, <3>2 DEF Pushing
  <2>8. QED
    BY <1>2, <2>3, <2>6, <2>7 DEF BufferInv, scan, bytes
<1>11. CASE scan_idx = n + 2 /\ scan_idx <= Len(ScanBytes)
  <2>1. ScanBytes[scan_idx] = 217
    BY <1>2, <1>4, <1>6, <1>7, <1>11
  <2>2. m_last = 255 /\ m_wr_offset = Len(bytes) + 1 /\ m_wr_offset = Len(m_buffer)
    BY <1>4, <1>5, <1>11 DEF Pushing
  <2>3. phase' = "mcu" /\ m_buffer' = m_buffer /\ m_wr_offset' = m_wr_offset - 1
    BY <1>1, <1>11, <2>1, <2>2 DEF PushScan, Push, MarkerFound
  <2>4. Pushed(bytes)'
    <3>1. bytes' = bytes
      BY <1>2 DEF bytes
    <3>2. \A i \in 1..Len(m_buffer) : i <= Len(bytes) => m_buffer[i] = bytes[i]
      BY <1>5 DEF Pushing
    <3>3. QED
      BY <1>4, <2>2, <2>3, <3>1, <3>2 DEF Pushed
  <2>5. QED
    BY <1>2, <1>5, <2>3, <2>4 DEF BufferInv, bytes
<1>12. QED
  BY <1>4, <1>5, <1>8, <1>9, <1>10, <1>11 DEF Pushing
(* The steps of the blocks only read the buffer. *)
LEMMA BufferKept ==
  /\ BufferInv /\ (NextMcu \/ DecodeFirst \/ DecodeNext \/ FinishBlock) => BufferInv'
  /\ BufferInv /\ UNCHANGED decoderVars => BufferInv'
<1>1. ASSUME BufferInv, NextMcu \/ DecodeFirst \/ DecodeNext \/ FinishBlock PROVE BufferInv'
  <2>1. /\ UNCHANGED <<m_buffer, m_wr_offset, file, program>>
        /\ phase \in {"mcu", "block"} /\ phase' \in {"mcu", "block", "segments"}
    BY <1>1 DEF NextMcu, DecodeFirst, DecodeNext, FinishBlock, InBlock, bitVars, entropyVars
  <2>2. QED
    BY <1>1, <2>1 DEF BufferInv, Sound, Pushed, Ref, Scanning
<1>2. ASSUME BufferInv, UNCHANGED decoderVars PROVE BufferInv'
  BY <1>2
  DEF BufferInv, Sound, Pushed, Pushing, Ref, Scanning, Segment, Segments,
      decoderVars, entropyVars, bitVars
<1>3. QED
  BY <1>1, <1>2

(* Outside of a scan the buffer is not looked at. *)
LEMMA BufferIdle == phase' \notin Scanning => BufferInv'
BY DEF BufferInv, Scanning

LEMMA HeadersLeaveScan ==
  ReportInv /\ (\/ SkipSegment \/ ParseSof0 \/ CModelSof0 \/ ParseSof2 \/ ParseDqt \/ CModelDqt
                \/ ParseDht \/ CModelDht \/ EndOfFile \/ DivideByZero)
    => phase' \notin Scanning
BY DEF SkipSegment, ParseSof0, CModelSof0, ParseSof2, ParseDqt, CModelDqt, ParseDht, CModelDht,
       EndOfFile, DivideByZero, Table, At, Continue, Refuse, WriteImage, Scanning

LEMMA BufferInvHolds == DecoderSpec => []BufferInv
<1>1. DecoderInit => BufferInv
  BY DEF DecoderInit, BufferInv, Scanning
<1>2. ReportInv /\ BufferInv /\ [DecoderNext]_decoderVars => BufferInv'
  BY BufferBegins, BufferFills, BufferKept, BufferIdle, HeadersLeaveScan DEF DecoderNext
<1>3. QED
  BY ReportInvHolds, <1>1, <1>2, PTL DEF DecoderSpec

(* When the blocks are decoded, the bit buffer holds exactly the bytes that *)
(* were encoded, however many zeros were stuffed and wherever the scan      *)
(* ends: at a marker, whose 0xFF is taken back, or at the end of the file   *)
(* (jpeg_bit_buffer::push and the loop around it).                          *)
THEOREM BufferIsScan == DecoderSpec => []BufferHoldsScan
<1>1. ASSUME ReportInv, BufferInv, Sound, phase \in {"mcu", "block"}
      PROVE  SubSeq(m_buffer, 1, m_wr_offset) = Ref.bytes
  <2>1. m_buffer \in Seq(0..255) /\ Pushed(Ref.bytes)
    BY <1>1 DEF BufferInv, Scanning
  <2>2. segment <= Len(Segments) /\ Segment.marker = "SOS"
    BY <1>1 DEF ReportInv, Begun, Scanning
  <2>3. Ref.bytes \in Seq(0..255)
    BY <1>1, <2>2, ScanUnstuffs DEF Unstuffs
  <2> DEFINE bytes == Ref.bytes
             held == SubSeq(m_buffer, 1, Len(bytes))
  <2> HIDE DEF bytes
  <2>4. Len(bytes) \in Nat /\ Len(bytes) <= Len(m_buffer)
    BY <2>1, <2>3 DEF Pushed, bytes
  <2>5. /\ held \in Seq(0..255) /\ Len(held) = Len(bytes)
        /\ \A i \in 1..Len(bytes) : held[i] = m_buffer[i]
    <3>1. Len(bytes) \in Int /\ \A i \in 1..Len(bytes) : m_buffer[i] \in 0..255
      <4>1. \A i \in 1..Len(bytes) : i \in 1..Len(m_buffer)
        BY <2>1, <2>4
      <4>2. QED
        BY <2>1, <2>4, <4>1, ElementOfSeq
    <3>2. /\ held \in Seq(0..255)
          /\ Len(held) = IF 1 <= Len(bytes) THEN Len(bytes) - 1 + 1 ELSE 0
          /\ \A i \in 1..(Len(bytes) - 1 + 1) : held[i] = m_buffer[1 + i - 1]
      BY <2>1, <3>1, SubSeqProperties
    <3> HIDE DEF held
    <3>3. QED
      BY <2>4, <3>2
  <2>6. \A i \in 1..Len(bytes) : held[i] = bytes[i]
    BY <2>1, <2>5 DEF Pushed, bytes
  <2>7. m_wr_offset = Len(bytes)
    BY <2>1 DEF Pushed, bytes
  <2> HIDE DEF held
  <2>8. bytes \in Seq(0..255)
    BY <2>3 DEF bytes
  <2>9. held = bytes
    BY <2>5, <2>6, <2>8
  <2>10. QED
    BY <2>7, <2>9 DEF held, bytes
<1>2. ReportInv /\ BufferInv => BufferHoldsScan
  BY <1>1 DEF BufferHoldsScan
<1>3. QED
  BY <1>2, ReportInvHolds, BufferInvHolds, PTL
-----------------------------------------------------------------------------
(* Rows and columns *)
LEMMA DivMod ==
  \A a \in Nat, d \in Nat \ {0} :
    a \div d \in Nat /\ a % d \in 0..(d - 1) /\ a = (a \div d) * d + (a % d)
BY SMT

LEMMA AtLeastOnce == \A k \in Nat \ {0}, d \in Nat : k * d >= d
BY SMT

(* A number has one quotient and one remainder. *)
LEMMA OneWay ==
  ASSUME NEW d \in Nat \ {0}, NEW p \in Nat, NEW q \in Nat,
         NEW r \in 0..(d - 1), NEW s \in 0..(d - 1), p * d + r = q * d + s
  PROVE  p = q /\ r = s
<1>1. ASSUME NEW a \in Nat, NEW b \in Nat, NEW u \in 0..(d - 1), NEW v \in 0..(d - 1),
             a * d + u = b * d + v, a < b
      PROVE  FALSE
  <2>1. b - a \in Nat \ {0} /\ (b - a) * d = b * d - a * d
    BY <1>1, SMT
  <2>2. (b - a) * d >= d
    BY <2>1, AtLeastOnce
  <2>3. a * d \in Nat /\ b * d \in Nat
    BY <1>1, SMT
  <2>4. QED
    BY <1>1, <2>1, <2>2, <2>3
<1>2. ~(p < q) /\ ~(q < p)
  BY <1>1
<1>3. p = q
  BY <1>2
<1>4. p * d \in Nat
  BY SMT
<1>5. QED
  BY <1>3, <1>4

LEMMA DivModUnique ==
  ASSUME NEW d \in Nat \ {0}, NEW q \in Nat, NEW r \in 0..(d - 1)
  PROVE  (q * d + r) \div d = q /\ (q * d + r) % d = r
<1> DEFINE a == q * d + r
<1>1. a \in Nat
  BY SMT
<1>2. a \div d \in Nat /\ a % d \in 0..(d - 1) /\ a = (a \div d) * d + (a % d)
  BY <1>1, DivMod
<1> HIDE DEF a
<1>3. (a \div d) * d + (a % d) = q * d + r
  BY <1>2 DEF a
<1>4. a \div d = q /\ a % d = r
  BY <1>2, <1>3, OneWay
<1>5. QED
  BY <1>4 DEF a

(* A coordinate lies in the block of its quotient, at the remainder.        *)
LEMMA Within ==
  ASSUME NEW d \in Nat \ {0}, NEW a \in Nat, NEW c \in Nat
  PROVE  /\ a - c * d \in 0..(d - 1) <=> c = a \div d
         /\ c = a \div d => a - c * d = a % d
<1>1. a \div d \in Nat /\ a % d \in 0..(d - 1) /\ a = (a \div d) * d + (a % d)
  BY DivMod
<1>2. c * d \in Nat
  BY SMT
<1>3. ASSUME a - c * d \in 0..(d - 1) PROVE c = a \div d
  <2>1. c * d + (a - c * d) = (a \div d) * d + (a % d)
    BY <1>1, <1>2
  <2>2. QED
    BY <1>1, <1>3, <2>1, OneWay
<1>4. ASSUME c = a \div d PROVE a - c * d = a % d
  <2>1. a = c * d + (a % d)
    BY <1>1, <1>4
  <2>2. QED
    BY <1>1, <1>2, <2>1
<1>5. QED
  BY <1>1, <1>3, <1>4
(* The number of the cell in row b and column a of a grid of n columns.     *)
LEMMA Cell ==
  ASSUME NEW n \in Nat \ {0}, NEW k \in Nat, NEW a \in 0..(n - 1), NEW b \in Nat
  PROVE  k = b * n + a <=> k % n = a /\ k \div n = b
<1>1. ASSUME k = b * n + a PROVE k % n = a /\ k \div n = b
  BY <1>1, DivModUnique
<1>2. ASSUME k % n = a, k \div n = b PROVE k = b * n + a
  BY <1>2, DivMod
<1>3. QED
  BY <1>1, <1>2

LEMMA InRows ==
  ASSUME NEW w \in Nat \ {0}, NEW h \in Nat \ {0}, NEW o \in 0..(w * h - 1)
  PROVE  o % w \in 0..(w - 1) /\ o \div w \in 0..(h - 1)
<1>1. w * h \in Nat
  BY SMT
<1>2. o \in Nat
  BY <1>1
<1>3. o \div w \in Nat /\ o % w \in 0..(w - 1) /\ o = (o \div w) * w + (o % w)
  BY <1>2, DivMod
<1>4. ASSUME NEW q \in Nat, q >= h PROVE q * w >= w * h
  BY <1>4, SMT
<1>5. ~(o \div w >= h)
  <2>1. \A q \in Nat : q * w \in Nat
    BY SMT
  <2> DEFINE q == o \div w
  <2> HIDE DEF q
  <2>2. q \in Nat /\ o = q * w + (o % w)
    BY <1>3 DEF q
  <2>3. ~(q >= h)
    BY <1>1, <1>2, <1>3, <1>4, <2>1, <2>2
  <2>4. QED
    BY <2>3 DEF q
<1>6. QED
  BY <1>3, <1>5

(* Blocks in a row of w samples, the last one perhaps cut. *)
BlocksIn(w, e) == w \div e + (IF w % e # 0 THEN 1 ELSE 0)

LEMMA Blocks ==
  ASSUME NEW w \in Nat \ {0}, NEW e \in Nat \ {0}
  PROVE  /\ BlocksIn(w, e) \in Nat \ {0}
         /\ w <= BlocksIn(w, e) * e /\ w > (BlocksIn(w, e) - 1) * e
         /\ (w + e - 1) \div e = BlocksIn(w, e)
         /\ \A x \in 0..(w - 1) : x \div e \in 0..(BlocksIn(w, e) - 1)
<1> DEFINE q == w \div e
           r == w % e
           n == BlocksIn(w, e)
<1>1. q \in Nat /\ r \in 0..(e - 1) /\ w = q * e + r
  BY DivMod
<1>2. n = q + (IF r # 0 THEN 1 ELSE 0)
  BY DEF BlocksIn
<1> HIDE DEF q, r, n
<1>3. q * e \in Nat /\ (q + 1) * e = q * e + e /\ (q - 1) * e = q * e - e
  BY <1>1, SMT
<1>4. n \in Nat \ {0} /\ w <= n * e /\ w > (n - 1) * e
  <2>1. CASE r = 0
    <3>1. n = q
      BY <1>1, <1>2, <2>1
    <3>2. q # 0
      BY <1>1, <2>1, SMT
    <3>3. QED
      BY <1>1, <1>3, <2>1, <3>1, <3>2
  <2>2. CASE r # 0
    <3>1. n = q + 1 /\ n - 1 = q
      BY <1>1, <1>2, <2>2
    <3>2. QED
      BY <1>1, <1>3, <2>2, <3>1
  <2>3. QED
    BY <2>1, <2>2
<1>5. (w + e - 1) \div e = n
  <2>1. n * e \in Nat /\ (n - 1) * e = n * e - e
    BY <1>4, SMT
  <2>2. w + e - 1 - n * e \in 0..(e - 1) /\ w + e - 1 = n * e + (w + e - 1 - n * e)
    BY <1>4, <2>1
  <2>3. (n * e + (w + e - 1 - n * e)) \div e = n
    BY <1>4, <2>2, DivModUnique
  <2>4. QED
    BY <2>2, <2>3
<1>6. ASSUME NEW x \in 0..(w - 1) PROVE x \div e \in 0..(n - 1)
  <2> DEFINE p == x \div e
  <2>1. p \in Nat /\ x % e \in 0..(e - 1) /\ x = p * e + (x % e)
    BY DivMod
  <2> HIDE DEF p
  <2>2. ASSUME p >= n PROVE FALSE
    <3>1. p * e >= n * e /\ p * e \in Nat /\ n * e \in Nat
      BY <1>4, <2>1, <2>2, SMT
    <3>2. QED
      BY <1>4, <2>1, <3>1
  <2>3. QED
    BY <1>4, <2>1, <2>2 DEF p
<1>7. QED
  BY <1>4, <1>5, <1>6 DEF n

(* Two blocks of e samples side by side. *)
LEMMA Pairs ==
  ASSUME NEW a \in Nat, NEW e \in Nat \ {0}
  PROVE  /\ a \div (2 * e) = (a \div e) \div 2
         /\ a % (2 * e) = ((a \div e) % 2) * e + (a % e)
<1> DEFINE p == a \div e
           s == p \div 2
           t == p % 2
           r == a % e
<1>1. p \in Nat /\ r \in 0..(e - 1) /\ a = p * e + r
  BY DivMod
<1>2. s \in Nat /\ t \in 0..1 /\ p = s * 2 + t
  BY <1>1, DivMod
<1> HIDE DEF p, s, t, r
<1>3. p * e = s * (2 * e) + t * e
  BY <1>1, <1>2, SMT
<1>4. t * e + r \in 0..(2 * e - 1) /\ 2 * e \in Nat \ {0}
  BY <1>1, <1>2, SMT
<1>5. a = s * (2 * e) + (t * e + r)
  <2>1. s * (2 * e) \in Nat /\ t * e \in Nat
    BY <1>2, SMT
  <2>2. QED
    BY <1>1, <1>3, <2>1
<1>6. a \div (2 * e) = s /\ a % (2 * e) = t * e + r
  BY <1>2, <1>4, <1>5, DivModUnique
<1>7. QED
  BY <1>6 DEF p, s, t, r

(* Rows of an even number of blocks are rows of half as many pairs.         *)
LEMMA PairsIn ==
  ASSUME NEW w \in Nat \ {0}, NEW e \in Nat \ {0}, BlocksIn(w, e) % 2 = 0
  PROVE  (w + 2 * e - 1) \div (2 * e) = BlocksIn(w, e) \div 2
<1> DEFINE n == BlocksIn(w, e)
           k == n \div 2
<1>1. n \in Nat \ {0} /\ w <= n * e /\ w > (n - 1) * e
  BY Blocks
<1>2. k \in Nat /\ n = k * 2
  <2>1. n % 2 = 0
    OBVIOUS
  <2> HIDE DEF n
  <2>2. n \in Nat /\ 2 \in Nat \ {0}
    BY <1>1
  <2>3. n \div 2 \in Nat /\ n = (n \div 2) * 2 + (n % 2)
    BY ONLY <2>2, DivMod
  <2>4. QED
    BY <2>1, <2>3
<1> HIDE DEF n, k
<1>3. n * e = k * (2 * e) /\ k * (2 * e) \in Nat /\ (n - 1) * e = n * e - e
  BY <1>1, <1>2, SMT
<1>4. w + 2 * e - 1 - k * (2 * e) \in 0..(2 * e - 1)
  BY <1>1, <1>3
<1>5. w + 2 * e - 1 = k * (2 * e) + (w + 2 * e - 1 - k * (2 * e))
  BY <1>3
<1>6. 2 * e \in Nat \ {0}
  OBVIOUS
<1>7. (k * (2 * e) + (w + 2 * e - 1 - k * (2 * e))) \div (2 * e) = k
  BY <1>2, <1>4, <1>6, DivModUnique
<1>8. QED
  BY <1>5, <1>7 DEF n, k
-----------------------------------------------------------------------------
(* Where a block goes *)
Wide == width \in Nat \ {0} /\ height \in Nat \ {0}

Pixels == 0..(width * height - 1)
BlockOf(offset) == ((offset \div width) \div Edge) * XBlocks + ((offset % width) \div Edge)
CellIn(offset) == ((offset \div width) % Edge) * Edge + ((offset % width) % Edge)

LEMMA PixelTypes ==
  ASSUME Wide, NEW o \in Pixels
  PROVE  /\ o \in Nat /\ o < width * height /\ width * height \in Nat
         /\ o % width \in 0..(width - 1) /\ o \div width \in 0..(height - 1)
         /\ XBlocks \in Nat \ {0} /\ XBlocks = BlocksIn(width, Edge)
         /\ (o % width) \div Edge \in 0..(XBlocks - 1) /\ (o \div width) \div Edge \in Nat
         /\ BlockOf(o) \in Nat
<1>1. width * height \in Nat /\ width \in Nat \ {0} /\ height \in Nat \ {0} /\ Edge \in Nat \ {0}
  BY DecoderAssumption, SMT DEF Wide
<1>2. o \in Nat /\ o < width * height
  BY <1>1 DEF Pixels
<1>3. o % width \in 0..(width - 1) /\ o \div width \in 0..(height - 1)
  BY <1>1, InRows DEF Pixels
<1>4. XBlocks = BlocksIn(width, Edge)
  BY DEF XBlocks, RoundUp, BlocksIn
<1>5. XBlocks \in Nat \ {0} /\ (o % width) \div Edge \in 0..(XBlocks - 1)
  BY <1>1, <1>3, <1>4, Blocks
<1>6. (o \div width) \div Edge \in Nat
  BY <1>1, <1>3, DivMod
<1>7. BlockOf(o) \in Nat
  <2> DEFINE a == (o % width) \div Edge
             b == (o \div width) \div Edge
  <2>1. a \in Nat /\ b \in Nat /\ XBlocks \in Nat
    BY <1>5, <1>6
  <2> HIDE DEF a, b
  <2>2. b * XBlocks + a \in Nat
    BY <2>1, SMT
  <2>3. QED
    BY <2>2 DEF BlockOf, a, b
<1>8. QED
  BY <1>1, <1>2, <1>3, <1>4, <1>5, <1>6, <1>7

(* ConvertBlock writes the pixels of its own block and no other.            *)
LEMMA ConvertBlockWrites ==
  ASSUME Wide, NEW image, NEW o \in Pixels, o \in DOMAIN image, NEW n \in Nat, NEW pixel
  PROVE  ConvertBlock(image, n, pixel)[o] =
           IF n = BlockOf(o) THEN pixel[CellIn(o)] ELSE image[o]
<1> DEFINE x == o % width
           y == o \div width
           c == n % XBlocks
           r == n \div XBlocks
           inside == x - c * Edge \in 0..(Edge - 1) /\ y - r * Edge \in 0..(Edge - 1)
<1>1. /\ o \in Nat /\ o < width * height /\ x \in Nat /\ y \in Nat /\ XBlocks \in Nat \ {0}
      /\ x \div Edge \in 0..(XBlocks - 1) /\ y \div Edge \in Nat /\ Edge \in Nat \ {0}
  BY PixelTypes, DecoderAssumption
<1>2. c \in Nat /\ r \in Nat
  <2>1. XBlocks \in Nat \ {0}
    BY <1>1
  <2>2. n \div XBlocks \in Nat /\ n % XBlocks \in 0..(XBlocks - 1)
    BY ONLY <2>1, n \in Nat, DivMod
  <2>3. QED
    BY <2>1, <2>2
<1>3. inside <=> (c = x \div Edge /\ r = y \div Edge)
  BY <1>1, <1>2, Within
<1>4. inside => y - r * Edge = y % Edge /\ x - c * Edge = x % Edge
  BY <1>1, <1>2, Within
<1>5. n = BlockOf(o) <=> (c = x \div Edge /\ r = y \div Edge)
  <2>1. n = (y \div Edge) * XBlocks + (x \div Edge)
          <=> n % XBlocks = x \div Edge /\ n \div XBlocks = y \div Edge
    <3> DEFINE a == x \div Edge
               b == y \div Edge
    <3>1. XBlocks \in Nat \ {0} /\ a \in 0..(XBlocks - 1) /\ b \in Nat
      BY <1>1
    <3> HIDE DEF a, b
    <3>2. n = b * XBlocks + a <=> n % XBlocks = a /\ n \div XBlocks = b
      BY ONLY <3>1, n \in Nat, Cell
    <3>3. QED
      BY <3>2 DEF a, b
  <2>2. BlockOf(o) = (y \div Edge) * XBlocks + (x \div Edge)
    BY DEF BlockOf
  <2>3. QED
    BY <2>1, <2>2
<1>6. ConvertBlock(image, n, pixel)[o] =
        IF o < width * height /\ inside
        THEN pixel[(y - r * Edge) * Edge + (x - c * Edge)] ELSE image[o]
  BY DEF ConvertBlock
<1>7. CASE n = BlockOf(o)
  BY <1>1, <1>3, <1>4, <1>5, <1>6, <1>7 DEF CellIn
<1>8. CASE n # BlockOf(o)
  BY <1>3, <1>5, <1>6, <1>8
<1>9. QED
  BY <1>7, <1>8

LEMMA CellInBlock ==
  ASSUME Wide, NEW o \in Pixels
  PROVE  CellIn(o) \in 0..(Edge * Edge - 1)
<1> DEFINE a == (o % width) % Edge
           b == (o \div width) % Edge
<1>1. Edge \in Nat \ {0} /\ o % width \in Nat /\ o \div width \in Nat
  BY PixelTypes, DecoderAssumption
<1>2. a \in 0..(Edge - 1) /\ b \in 0..(Edge - 1)
  BY <1>1, DivMod
<1> HIDE DEF a, b
<1>3. (Edge - 1 - b) * Edge \in Nat /\ (Edge - 1 - b) * Edge = Edge * Edge - Edge - b * Edge
      /\ b * Edge \in Nat /\ Edge * Edge \in Nat
  BY <1>1, <1>2, SMT
<1>4. b * Edge + a \in 0..(Edge * Edge - 1)
  BY <1>1, <1>2, <1>3
<1>5. QED
  BY <1>4 DEF CellIn, a, b

(* So does the conversion of the C model, where the image is whole.         *)
LEMMA ConvertYUV2RGBWrites ==
  ASSUME Wide, program = "c_model" /\ mode = "mono" => width % Edge = 0 /\ height % Edge = 0,
         program = "c_model",
         NEW image, NEW o \in Pixels, o \in DOMAIN image, NEW n \in Nat, NEW pixel
  PROVE  ConvertYUV2RGB(image, n, pixel)[o] =
           IF n = BlockOf(o) THEN pixel[CellIn(o)] ELSE image[o]
<1>1. CASE mode # "mono"
  BY <1>1, ConvertBlockWrites DEF ConvertYUV2RGB
<1>2. CASE mode = "mono"
  <2> DEFINE x == o % width
             y == o \div width
             c == n % XBlocks
             r == n \div XBlocks
             cells == 0..(Edge * Edge - 1)
             Offset(i) == (r * Edge + i \div Edge) * width + c * Edge + (i % Edge)
             hits == {i \in cells : Offset(i) = o}
  <2>1. /\ o \in Nat /\ x \in 0..(width - 1) /\ y \in Nat /\ XBlocks \in Nat \ {0}
        /\ x \div Edge \in 0..(XBlocks - 1) /\ y \div Edge \in Nat /\ Edge \in Nat \ {0}
        /\ width \in Nat \ {0} /\ XBlocks = width \div Edge
    <3>1. width % Edge = 0
      BY <1>2
    <3>2. XBlocks = width \div Edge + 0
      BY <3>1 DEF XBlocks, RoundUp
    <3>3. width \div Edge \in Nat
      BY DecoderAssumption, DivMod DEF Wide
    <3>4. QED
      BY <3>2, <3>3, PixelTypes, DecoderAssumption DEF Wide
  <2>2. width = XBlocks * Edge
    BY <1>2, <2>1, DivMod
  <2>3. c \in 0..(XBlocks - 1) /\ r \in Nat
    <3>1. XBlocks \in Nat \ {0}
      BY <2>1
    <3>2. QED
      BY ONLY <3>1, n \in Nat, DivMod
  <2>4. x % Edge \in 0..(Edge - 1) /\ x = (x \div Edge) * Edge + (x % Edge)
        /\ y % Edge \in 0..(Edge - 1) /\ y = (y \div Edge) * Edge + (y % Edge)
    <3>1. x \in Nat /\ y \in Nat /\ Edge \in Nat \ {0}
      BY <2>1
    <3> HIDE DEF x, y
    <3>2. QED
      BY ONLY <3>1, DivMod
  <2>5. o = y * width + x
    BY <2>1, DivMod
  <2>6. ASSUME NEW i \in cells
        PROVE  Offset(i) = o <=> n = BlockOf(o) /\ i = CellIn(o)
    <3> DEFINE u == i % Edge
               v == i \div Edge
    <3>1. u \in 0..(Edge - 1) /\ v \in 0..(Edge - 1)
      BY <2>1, InRows
    <3> HIDE DEF u, v, x, y, c, r
    <3>2. Offset(i) = (r * Edge + v) * width + (c * Edge + u)
      <4>1. c * Edge \in Nat /\ (r * Edge + v) * width \in Nat
        BY <2>1, <2>3, <3>1, SMT
      <4>2. QED
        BY <3>1, <4>1 DEF u, v
    <3>3. c * Edge + u \in 0..(width - 1) /\ r * Edge + v \in Nat
      <4>1. (XBlocks - 1 - c) * Edge \in Nat /\ (XBlocks - 1 - c) * Edge = XBlocks * Edge - Edge - c * Edge
        BY <2>1, <2>3, SMT
      <4>2. c * Edge \in Nat /\ r * Edge \in Nat /\ XBlocks * Edge \in Nat
        BY <2>1, <2>3, SMT
      <4>3. QED
        BY <2>1, <2>2, <3>1, <4>1, <4>2
    <3>4. Offset(i) = o <=> r * Edge + v = y /\ c * Edge + u = x
      BY <2>1, <2>5, <3>2, <3>3, OneWay
    <3>5. r * Edge + v = y <=> r = y \div Edge /\ v = y % Edge
      <4>1. ASSUME r * Edge + v = y PROVE r = y \div Edge /\ v = y % Edge
        <5>1. r \in Nat /\ Edge \in Nat \ {0}
          BY <2>1, <2>3
        <5>2. QED
          BY ONLY <3>1, <4>1, <5>1, DivModUnique
      <4>2. QED
        BY <2>4, <4>1
    <3>6. c * Edge + u = x <=> c = x \div Edge /\ u = x % Edge
      <4>1. ASSUME c * Edge + u = x PROVE c = x \div Edge /\ u = x % Edge
        <5>1. c \in Nat /\ Edge \in Nat \ {0}
          BY <2>1, <2>3
        <5>2. QED
          BY ONLY <3>1, <4>1, <5>1, DivModUnique
      <4>2. QED
        BY <2>4, <4>1
    <3>7. n = BlockOf(o) <=> c = x \div Edge /\ r = y \div Edge
      <4> DEFINE a == x \div Edge
                 b == y \div Edge
      <4>1. XBlocks \in Nat \ {0} /\ a \in 0..(XBlocks - 1) /\ b \in Nat
        BY <2>1
      <4> HIDE DEF a, b
      <4>2. n = b * XBlocks + a <=> n % XBlocks = a /\ n \div XBlocks = b
        BY ONLY <4>1, n \in Nat, Cell
      <4>3. BlockOf(o) = b * XBlocks + a
        BY DEF BlockOf, a, b, x, y
      <4>4. QED
        BY <4>2, <4>3 DEF a, b, c, r
    <3>8. i = CellIn(o) <=> u = x % Edge /\ v = y % Edge
      <4> DEFINE a == x % Edge
                 b == y % Edge
      <4>1. Edge \in Nat \ {0} /\ a \in 0..(Edge - 1) /\ b \in Nat /\ i \in Nat
        BY <2>1, <2>4
      <4> HIDE DEF a, b
      <4>2. i = b * Edge + a <=> i % Edge = a /\ i \div Edge = b
        BY ONLY <4>1, Cell
      <4>3. CellIn(o) = b * Edge + a
        BY DEF CellIn, a, b, x, y
      <4>4. QED
        BY <4>2, <4>3 DEF a, b, u, v
    <3>9. QED
      BY <3>4, <3>5, <3>6, <3>7, <3>8
  <2>7. CellIn(o) \in cells
    BY CellInBlock
  <2>8. ConvertYUV2RGB(image, n, pixel)[o] =
          IF hits = {} THEN image[o]
          ELSE pixel[CHOOSE i \in hits : \A j \in hits : j <= i]
    BY <1>2 DEF ConvertYUV2RGB
  <2> HIDE DEF Offset, cells
  <2>9. CASE n = BlockOf(o)
    <3>1. hits = {CellIn(o)}
      BY <2>6, <2>7, <2>9
    <3>2. CellIn(o) \in Nat
      BY <2>7, DecoderAssumption, SMT DEF cells
    <3>3. (CHOOSE i \in hits : \A j \in hits : j <= i) = CellIn(o)
      BY <3>1, <3>2
    <3>4. QED
      BY <2>8, <2>9, <3>1, <3>3
  <2>10. CASE n # BlockOf(o)
    <3>1. hits = {}
      BY <2>6, <2>10
    <3>2. QED
      BY <2>8, <2>10, <3>1
  <2>11. QED
    BY <2>9, <2>10
<1>3. QED
  BY <1>1, <1>2
LEMMA ConvertWrites ==
  ASSUME Wide, Placed, program \in {"driver", "c_model"},
         NEW image, NEW o \in Pixels, o \in DOMAIN image, NEW n \in Nat, NEW pixel
  PROVE  /\ Convert(image, n, pixel)[o] =
              IF n = BlockOf(o) THEN pixel[CellIn(o)] ELSE image[o]
         /\ DOMAIN Convert(image, n, pixel) = DOMAIN image
<1>1. CASE program = "driver"
  <2>1. Convert(image, n, pixel) = ConvertBlock(image, n, pixel)
    BY <1>1 DEF Convert
  <2>2. DOMAIN ConvertBlock(image, n, pixel) = DOMAIN image
    BY DEF ConvertBlock
  <2>3. QED
    BY <2>1, <2>2, ConvertBlockWrites
<1>2. CASE program = "c_model"
  <2>1. Convert(image, n, pixel) = ConvertYUV2RGB(image, n, pixel)
    BY <1>2 DEF Convert
  <2>2. DOMAIN ConvertYUV2RGB(image, n, pixel) = DOMAIN image
    BY DEF ConvertYUV2RGB, ConvertBlock
  <2>3. QED
    BY <1>2, <2>1, <2>2, ConvertYUV2RGBWrites DEF Placed
<1>3. QED
  BY <1>1, <1>2
-----------------------------------------------------------------------------
(* The MCU of a pixel *)
Row(o) == (o \div width) \div Edge
Column(o) == (o % width) \div Edge
Quarter(o) == IF mode = "420" THEN 2 * (Row(o) % 2) + (Column(o) % 2) ELSE 0
McuAt(o) == IF mode = "420" THEN (Row(o) \div 2) * (XBlocks \div 2) + (Column(o) \div 2)
            ELSE BlockOf(o)

LEMMA McuTypes ==
  ASSUME Wide, NEW o \in Pixels
  PROVE  /\ Row(o) \in Nat /\ Column(o) \in 0..(XBlocks - 1) /\ McuAt(o) \in Nat
         /\ Quarter(o) \in 0..3
<1>1. Row(o) \in Nat /\ Column(o) \in 0..(XBlocks - 1) /\ XBlocks \in Nat \ {0} /\ BlockOf(o) \in Nat
  BY PixelTypes DEF Row, Column
<1> DEFINE r == Row(o)
           c == Column(o)
           n == XBlocks
<1>2. r \in Nat /\ c \in Nat /\ n \in Nat
  BY <1>1
<1> HIDE DEF r, c, n
<1>3. /\ r \div 2 \in Nat /\ c \div 2 \in Nat /\ n \div 2 \in Nat /\ r % 2 \in 0..1 /\ c % 2 \in 0..1
  BY <1>2
<1>4. \A a, b, e \in Nat : a * b + e \in Nat
  BY SMT
<1>5. (r \div 2) * (n \div 2) + (c \div 2) \in Nat
  BY <1>3, <1>4
<1>6. 2 * (r % 2) + (c % 2) \in 0..3
  BY <1>3
<1>7. QED
  BY <1>1, <1>5, <1>6 DEF McuAt, Quarter, r, c, n

(* A block is half of a pair.                                               *)
LEMMA HalfOfPair ==
  ASSUME NEW g \in Nat, NEW v \in Nat, NEW b \in Nat
  PROVE  (b * (2 * g) + v) \div 2 = b * g + (v \div 2)
<1> DEFINE k == v \div 2
           s == v % 2
<1>1. k \in Nat /\ s \in 0..1 /\ v = k * 2 + s
  BY DivMod
<1> HIDE DEF k, s
<1>2. b * (2 * g) = (b * g) * 2 /\ b * g \in Nat
  BY SMT
<1>3. b * (2 * g) + v = (b * g + k) * 2 + s /\ b * g + k \in Nat
  BY <1>1, <1>2
<1>4. ((b * g + k) * 2 + s) \div 2 = b * g + k
  BY <1>1, <1>3, DivModUnique
<1>5. QED
  BY <1>3, <1>4 DEF k

(* The chrominance sample of a pixel, counted in its quarter and in the     *)
(* whole MCU.                                                               *)
LEMMA SubIdxIs ==
  ASSUME NEW a \in 0..1, NEW b \in 0..1, NEW u \in 0..(Edge - 1), NEW v \in 0..(Edge - 1)
  PROVE  SubIdx(2 * b + a, v * Edge + u) =
           ((b * Edge + v) \div 2) * Edge + ((a * Edge + u) \div 2)
<1> DEFINE g == Edge \div 2
           i == v * Edge + u
<1>1. g \in Nat /\ Edge = 2 * g /\ Edge \in Nat \ {0} /\ v \in Nat /\ u \in Nat
  BY DecoderAssumption
<1> HIDE DEF g
<1>2. i \in Nat
  BY <1>1, SMT
<1>3. i \div Edge = v /\ i % Edge = u
  BY <1>1, DivModUnique
<1> HIDE DEF i
<1>4. i \div (2 * Edge) = v \div 2
  BY <1>1, <1>2, <1>3, Pairs
<1>5. (Edge * Edge) \div 2 = g * Edge
  <2>1. Edge * Edge = (g * Edge) * 2 + 0 /\ g * Edge \in Nat
    BY <1>1, SMT
  <2> DEFINE e == g * Edge
  <2> HIDE DEF e
  <2>2. e \in Nat /\ 2 \in Nat \ {0} /\ 0 \in 0..(2 - 1)
    BY <2>1 DEF e
  <2>3. (e * 2 + 0) \div 2 = e
    BY ONLY <2>2, DivModUnique
  <2>4. QED
    BY <2>1, <2>3 DEF e
<1>6. (2 * b + a) \div 2 = b /\ (2 * b + a) % 2 = a
  OBVIOUS
<1>7. (b * Edge + v) \div 2 = b * g + (v \div 2) /\ (a * Edge + u) \div 2 = a * g + (u \div 2)
  BY <1>1, HalfOfPair
<1>8. SubIdx(2 * b + a, i) = b * (g * Edge) + (v \div 2) * Edge + a * g + (u \div 2)
  BY <1>3, <1>4, <1>5, <1>6 DEF SubIdx, g
<1>9. (b * g + (v \div 2)) * Edge = b * (g * Edge) + (v \div 2) * Edge
  <2> DEFINE k == v \div 2
  <2>1. k \in Nat
    BY <1>1
  <2> HIDE DEF k
  <2>2. (b * g + k) * Edge = b * (g * Edge) + k * Edge
    BY <1>1, <2>1, SMT
  <2>3. QED
    BY <2>2 DEF k
<1>10. b * (g * Edge) \in Nat /\ (v \div 2) * Edge \in Nat /\ a * g \in Nat /\ u \div 2 \in Nat
  BY <1>1, SMT
<1>11. QED
  BY <1>7, <1>8, <1>9, <1>10 DEF i

(* The image the file holds has the header that was read.                   *)
HeaderIs(image) == image.width = width /\ image.height = height /\ image.mode = mode

Known == mode \in {"mono", "444", "420"}

(* The reference counts MCUs as pairs of blocks.                            *)
LEMMA McuIsMcuAt ==
  ASSUME Wide, Known, Placed, NEW image, HeaderIs(image), NEW o \in Pixels
  PROVE  McuOf(image, o % image.width, o \div image.width) = McuAt(o)
<1>1. /\ width \in Nat \ {0} /\ Edge \in Nat \ {0} /\ XBlocks = BlocksIn(width, Edge)
      /\ o % width \in Nat /\ o \div width \in Nat
  BY PixelTypes, DecoderAssumption DEF Wide
<1> DEFINE x == o % width
           y == o \div width
<1>2. CASE mode # "420"
  <2>1. McuEdge(image) = Edge /\ McusPerRow(image) = XBlocks
    BY <1>1, <1>2, Blocks DEF HeaderIs, McuEdge, McusPerRow
  <2>2. QED
    BY <1>2, <2>1 DEF McuOf, McuAt, BlockOf, HeaderIs
<1>3. CASE mode = "420"
  <2>1. BlocksIn(width, Edge) % 2 = 0
    BY <1>1, <1>3 DEF Placed
  <2>2. McuEdge(image) = 2 * Edge /\ McusPerRow(image) = XBlocks \div 2
    <3>1. (width + 2 * Edge - 1) \div (2 * Edge) = BlocksIn(width, Edge) \div 2
      BY <1>1, <2>1, PairsIn
    <3>2. QED
      BY <1>1, <1>3, <3>1 DEF HeaderIs, McuEdge, McusPerRow
  <2>3. x \div (2 * Edge) = (x \div Edge) \div 2 /\ y \div (2 * Edge) = (y \div Edge) \div 2
    BY <1>1, Pairs
  <2>4. QED
    BY <1>3, <2>2, <2>3 DEF McuOf, McuAt, Row, Column, HeaderIs
<1>4. QED
  BY <1>2, <1>3

(* The samples a pixel is converted from, taken from those of its MCU, are  *)
(* those of the reference.                                                  *)
LEMMA PixelIsRefPixel ==
  ASSUME Wide, Known, Placed, NEW image, HeaderIs(image), NEW o \in Pixels,
         NEW mcu, NEW all,
         \A k \in 1..McuSize : mcu[k] = all[McuAt(o) * McuSize + k]
  PROVE  Pixel(mcu, Quarter(o), CellIn(o)) = RefPixel(image, all, o)
<1> DEFINE x == o % width
           y == o \div width
           m == McuAt(o)
<1>1. Edge \in Nat \ {0} /\ Edge % 2 = 0 /\ x \in Nat /\ y \in Nat /\ m \in Nat
  BY PixelTypes, McuTypes, DecoderAssumption
<1>2. CellIn(o) = (y % Edge) * Edge + (x % Edge)
  BY DEF CellIn
<1>3. McuOf(image, o % image.width, o \div image.width) = m
  BY McuIsMcuAt
<1>4. image.width = width /\ image.mode = mode
  BY DEF HeaderIs
<1> HIDE DEF m
<1>5. CASE mode = "mono"
  <2>1. McuSize = 1 /\ McuComponents(image.mode) = <<1>>
    BY <1>4, <1>5 DEF McuSize, Components, McuComponents
  <2>2. mcu[1] = all[m + 1]
    BY <1>1, <2>1 DEF m
  <2>3. RefPixel(image, all, o) = <<all[m * 1 + 1], CellIn(o)>>
    BY <1>2, <1>3, <1>4, <1>5, <2>1 DEF RefPixel
  <2>4. QED
    BY <1>1, <1>5, <2>2, <2>3 DEF Pixel
<1>6. CASE mode = "444"
  <2>1. McuSize = 3 /\ Len(McuComponents(image.mode)) = 3
    BY <1>4, <1>6 DEF McuSize, Components, McuComponents
  <2>2. mcu[1] = all[m * 3 + 1] /\ mcu[2] = all[m * 3 + 2] /\ mcu[3] = all[m * 3 + 3]
    BY <1>1, <2>1 DEF m
  <2>3. RefPixel(image, all, o) =
          <<all[m * 3 + 1], CellIn(o), all[m * 3 + 2], CellIn(o), all[m * 3 + 3], CellIn(o)>>
    BY <1>2, <1>3, <1>4, <1>6, <2>1 DEF RefPixel
  <2>4. QED
    BY <1>6, <2>2, <2>3 DEF Pixel
<1>7. CASE mode = "420"
  <2> DEFINE q == Quarter(o)
             j == ((y % (2 * Edge)) \div 2) * Edge + ((x % (2 * Edge)) \div 2)
  <2>1. McuSize = 6 /\ Len(McuComponents(image.mode)) = 6
    BY <1>4, <1>7 DEF McuSize, Components, McuComponents
  <2>2. q = 2 * ((y \div Edge) % 2) + ((x \div Edge) % 2) /\ q \in 0..3
    BY <1>7, McuTypes DEF Quarter, Row, Column
  <2>3. SubIdx(q, CellIn(o)) = j
    <3> DEFINE a == (x \div Edge) % 2
               b == (y \div Edge) % 2
               u == x % Edge
               v == y % Edge
    <3>1. a \in 0..1 /\ b \in 0..1 /\ u \in 0..(Edge - 1) /\ v \in 0..(Edge - 1)
      <4>1. x \div Edge \in Nat /\ y \div Edge \in Nat
        BY <1>1, DivMod
      <4>2. a \in 0..1 /\ b \in 0..1
        BY <4>1
      <4>3. u \in 0..(Edge - 1) /\ v \in 0..(Edge - 1)
        BY <1>1, DivMod
      <4>4. QED
        BY <4>2, <4>3
    <3>2. x % (2 * Edge) = a * Edge + u /\ y % (2 * Edge) = b * Edge + v
      BY <1>1, Pairs
    <3> HIDE DEF a, b, u, v
    <3>3. SubIdx(2 * b + a, v * Edge + u) =
            ((b * Edge + v) \div 2) * Edge + ((a * Edge + u) \div 2)
      BY <3>1, SubIdxIs
    <3>4. q = 2 * b + a /\ CellIn(o) = v * Edge + u
      BY <1>2, <2>2 DEF a, b, u, v
    <3>5. QED
      BY <3>2, <3>3, <3>4
  <2>4. /\ mcu[q + 1] = all[m * 6 + (q + 1)] /\ mcu[5] = all[m * 6 + 5] /\ mcu[6] = all[m * 6 + 6]
        /\ m * 6 + (q + 1) = m * 6 + 1 + q
    BY <1>1, <2>1, <2>2 DEF m
  <2>5. RefPixel(image, all, o) =
          <<all[m * 6 + 1 + q], CellIn(o), all[m * 6 + 5], j, all[m * 6 + 6], j>>
    <3> HIDE DEF q
    <3>1. QED
      BY <1>2, <1>3, <1>4, <1>7, <2>1, <2>2 DEF RefPixel
  <2>6. QED
    BY <1>7, <2>3, <2>4, <2>5 DEF Pixel
<1>8. QED
  BY <1>5, <1>6, <1>7 DEF Known-----------------------------------------------------------------------------
(* The MCU that is converted next: in 4:2:0, loop counts the MCUs of a row  *)
(* and block_num is behind two rows of blocks for each row that is done.    *)
RowsDone(r) == block_num = 4 * XBlocks * r + 4 * loop

Counters ==
  Known /\ Placed =>
    /\ block_num \in Nat
    /\ mode # "420" => loop = 0
    /\ mode = "420" => loop \in 0..(XBlocks \div 2 - 1) /\ \E r \in Nat : RowsDone(r)

LEMMA HalfRow ==
  ASSUME Wide, Placed, mode = "420"
  PROVE  /\ XBlocks \in Nat \ {0} /\ XBlocks \div 2 \in Nat \ {0}
         /\ XBlocks = 2 * (XBlocks \div 2)
<1>1. XBlocks = BlocksIn(width, Edge)
  BY DEF XBlocks, RoundUp, BlocksIn
<1>2. XBlocks \in Nat \ {0}
  BY <1>1, Blocks, DecoderAssumption DEF Wide
<1>3. XBlocks % 2 = 0
  BY DEF Placed
<1> HIDE DEF XBlocks
<1>4. QED
  BY <1>2, <1>3

LEMMA RowsOf ==
  ASSUME NEW n \in Nat \ {0}, NEW r \in Nat, NEW l \in Nat, NEW b, b = 4 * n * r + 4 * l
  PROVE  (b - 4 * l) \div (4 * n) = r
<1>1. 4 * n * r = r * (4 * n) /\ r * (4 * n) \in Nat /\ 4 * n \in Nat \ {0}
  BY SMT
<1>2. b - 4 * l = r * (4 * n) + 0
  BY <1>1
<1>3. (r * (4 * n) + 0) \div (4 * n) = r
  <2>1. 0 \in 0..(4 * n - 1)
    BY <1>1
  <2>2. QED
    BY ONLY <1>1, <2>1, r \in Nat, DivModUnique
<1>4. QED
  BY <1>2, <1>3

LEMMA McusDoneIs ==
  ASSUME Wide, Placed, mode = "420", loop \in Nat, NEW r \in Nat, RowsDone(r)
  PROVE  McusDone = r * (XBlocks \div 2) + loop
BY HalfRow, RowsOf DEF McusDone, RowsDone

LEMMA McusDoneNat ==
  ASSUME Wide, Known, Placed, Counters
  PROVE  McusDone \in Nat
<1>1. CASE mode # "420"
  BY <1>1 DEF McusDone, Counters
<1>2. CASE mode = "420"
  <2>1. PICK r \in Nat : RowsDone(r)
    BY <1>2 DEF Counters
  <2> DEFINE h == XBlocks \div 2
  <2>2. h \in Nat \ {0} /\ loop \in 0..(h - 1)
    BY <1>2, HalfRow DEF Counters
  <2>3. McusDone = r * h + loop
    BY <1>2, <2>1, <2>2, McusDoneIs
  <2> HIDE DEF h
  <2>4. r * h \in Nat
    BY <2>2, SMT
  <2>5. QED
    BY <2>2, <2>3, <2>4
<1>3. QED
  BY <1>1, <1>2

(* Block q of a 4:2:0 MCU is that of the pixels of quarter q of this MCU.   *)
LEMMA PlacesAre ==
  ASSUME Wide, Placed, mode = "420", Counters, NEW o \in Pixels, NEW q \in 0..3
  PROVE  /\ Places[q + 1] \in Nat
         /\ Places[q + 1] = BlockOf(o) <=> q = Quarter(o) /\ McusDone = McuAt(o)
<1> DEFINE n == XBlocks
           h == n \div 2
           R == Row(o)
           C == Column(o)
           k == q \div 2
           s == q % 2
           l == loop
<1>1. PICK r \in Nat : RowsDone(r)
  BY DEF Counters, Known
<1>2. n \in Nat \ {0} /\ h \in Nat \ {0} /\ n = 2 * h
  BY HalfRow
<1>3. R \in Nat /\ C \in 0..(n - 1) /\ l \in 0..(h - 1)
  BY McuTypes DEF Counters, Known
<1>4. McusDone = r * h + l
  BY <1>1, <1>3, McusDoneIs
<1>5. McuAt(o) = (R \div 2) * h + (C \div 2) /\ BlockOf(o) = R * n + C
      /\ Quarter(o) = 2 * (R % 2) + (C % 2)
  BY DEF McuAt, BlockOf, Quarter, Row, Column
<1>6. Places[q + 1] = (2 * r + k) * n + (2 * l + s)
  <2>1. block_num = 4 * n * r + 4 * l
    BY <1>1 DEF RowsDone
  <2> HIDE DEF n, h, l
  <2>2. 4 * n * r = 2 * (2 * r * n) /\ 2 * r * n \in Nat
    BY <1>2, SMT
  <2>3. block_num \div 2 = 2 * r * n + 2 * l
    BY <1>3, <2>1, <2>2
  <2>4. Places[q + 1] = block_num \div 2 + k * n + s
    <3>1. Places = <<block_num \div 2, block_num \div 2 + 1, block_num \div 2 + n, block_num \div 2 + n + 1>>
      BY DEF Places, n
    <3>2. CASE q = 0
      BY <1>2, <1>3, <2>2, <2>3, <3>1, <3>2
    <3>3. CASE q = 1
      BY <1>2, <1>3, <2>2, <2>3, <3>1, <3>3
    <3>4. CASE q = 2
      BY <1>2, <1>3, <2>2, <2>3, <3>1, <3>4
    <3>5. CASE q = 3
      BY <1>2, <1>3, <2>2, <2>3, <3>1, <3>5
    <3>6. QED
      BY <3>2, <3>3, <3>4, <3>5
  <2>5. (2 * r + k) * n = 2 * r * n + k * n /\ k * n \in Nat
    BY <1>2, SMT
  <2>6. QED
    BY <1>2, <1>3, <2>2, <2>3, <2>4, <2>5
<1> HIDE DEF n, h, R, C, l
<1>7. 2 * r + k \in Nat /\ 2 * l + s \in 0..(n - 1)
  BY <1>2, <1>3
<1>8. (2 * r + k) * n \in Nat
  BY <1>2, <1>7, SMT
<1>9. Places[q + 1] \in Nat
  BY <1>6, <1>7, <1>8
<1>10. Places[q + 1] = BlockOf(o) <=> 2 * r + k = R /\ 2 * l + s = C
  BY <1>2, <1>3, <1>5, <1>6, <1>7, OneWay
<1>11. McusDone = McuAt(o) <=> r = R \div 2 /\ l = C \div 2
  <2> DEFINE a == R \div 2
             b == C \div 2
  <2>1. a \in Nat /\ b \in 0..(h - 1) /\ McuAt(o) = a * h + b
    BY <1>2, <1>3, <1>5
  <2> HIDE DEF a, b
  <2>2. h \in Nat \ {0} /\ r \in Nat /\ l \in 0..(h - 1)
    BY <1>2, <1>3
  <2>3. r * h + l = a * h + b <=> r = a /\ l = b
    BY ONLY <2>1, <2>2, OneWay
  <2>4. QED
    BY <1>4, <2>1, <2>3 DEF a, b
<1>12. 2 * r + k = R /\ 2 * l + s = C
         <=> q = 2 * (R % 2) + (C % 2) /\ r = R \div 2 /\ l = C \div 2
  BY <1>2, <1>3
<1>13. QED
  BY <1>5, <1>9, <1>10, <1>11, <1>12

(* Converting an MCU writes its own pixels, each from its place in there,   *)
(* and leaves all others.                                                   *)
LEMMA McuDrawn ==
  ASSUME Wide, Known, Placed, Counters, program \in {"driver", "c_model"},
         NEW o \in Pixels, o \in DOMAIN dst, NEW mcu
  PROVE  /\ ConvertMcu(mcu)[o] = IF McusDone = McuAt(o)
                                 THEN Pixel(mcu, Quarter(o), CellIn(o)) ELSE dst[o]
         /\ DOMAIN ConvertMcu(mcu) = DOMAIN dst
<1> DEFINE PixelOf(n) == [i \in 0..(Edge * Edge - 1) |-> Pixel(mcu, n - 1, i)]
           Luminance(image, n) == Convert(image, Places[n], PixelOf(n))
           c == CellIn(o)
<1>1. c \in 0..(Edge * Edge - 1)
  BY CellInBlock
<1> HIDE DEF c
<1>2. \A n \in 1..4 : PixelOf(n)[c] = Pixel(mcu, n - 1, c)
  BY <1>1
<1> HIDE DEF PixelOf
<1>3. CASE mode = "420"
  <2>1. ASSUME NEW image, o \in DOMAIN image, NEW n \in 1..4
        PROVE  /\ Luminance(image, n)[o] = IF n - 1 = Quarter(o) /\ McusDone = McuAt(o)
                                           THEN Pixel(mcu, n - 1, c) ELSE image[o]
               /\ DOMAIN Luminance(image, n) = DOMAIN image
    <3>1. n - 1 \in 0..3 /\ (n - 1) + 1 = n
      OBVIOUS
    <3>2. Places[n] \in Nat /\ (Places[n] = BlockOf(o) <=> n - 1 = Quarter(o) /\ McusDone = McuAt(o))
      BY <1>3, <3>1, PlacesAre
    <3>3. /\ Luminance(image, n)[o] = IF Places[n] = BlockOf(o) THEN PixelOf(n)[c] ELSE image[o]
          /\ DOMAIN Luminance(image, n) = DOMAIN image
      BY <2>1, <3>2, ConvertWrites DEF c
    <3>4. QED
      BY <1>2, <3>2, <3>3
  <2> DEFINE i1 == Luminance(dst, 1)
             i2 == Luminance(i1, 2)
             i3 == Luminance(i2, 3)
             i4 == Luminance(i3, 4)
  <2>2. ConvertMcu(mcu) = i4
    BY <1>3 DEF ConvertMcu, PixelOf
  <2> HIDE DEF Luminance
  <2>3. 1 \in 1..4 /\ 2 \in 1..4 /\ 3 \in 1..4 /\ 4 \in 1..4
    OBVIOUS
  <2>4. /\ i1[o] = IF 0 = Quarter(o) /\ McusDone = McuAt(o) THEN Pixel(mcu, 0, c) ELSE dst[o]
        /\ DOMAIN i1 = DOMAIN dst
    BY <2>1, <2>3
  <2> HIDE DEF i1
  <2>5. /\ i2[o] = IF 1 = Quarter(o) /\ McusDone = McuAt(o) THEN Pixel(mcu, 1, c) ELSE i1[o]
        /\ DOMAIN i2 = DOMAIN dst
    BY <2>1, <2>3, <2>4
  <2> HIDE DEF i2
  <2>6. /\ i3[o] = IF 2 = Quarter(o) /\ McusDone = McuAt(o) THEN Pixel(mcu, 2, c) ELSE i2[o]
        /\ DOMAIN i3 = DOMAIN dst
    BY <2>1, <2>3, <2>5
  <2> HIDE DEF i3
  <2>7. /\ i4[o] = IF 3 = Quarter(o) /\ McusDone = McuAt(o) THEN Pixel(mcu, 3, c) ELSE i3[o]
        /\ DOMAIN i4 = DOMAIN dst
    BY <2>1, <2>3, <2>6
  <2> HIDE DEF i4
  <2>8. Quarter(o) \in 0..3
    BY McuTypes
  <2>9. QED
    BY <2>2, <2>4, <2>5, <2>6, <2>7, <2>8 DEF c
<1>4. CASE mode # "420"
  <2>1. Places = <<block_num>> /\ Places[1] = block_num /\ block_num \in Nat
        /\ McusDone = block_num /\ McuAt(o) = BlockOf(o) /\ Quarter(o) = 0
    BY <1>4 DEF Places, McusDone, McuAt, Quarter, Counters
  <2>2. ConvertMcu(mcu) = Convert(dst, block_num, PixelOf(1))
    BY <1>4, <2>1 DEF ConvertMcu, PixelOf
  <2>3. /\ ConvertMcu(mcu)[o] = IF block_num = BlockOf(o) THEN PixelOf(1)[c] ELSE dst[o]
        /\ DOMAIN ConvertMcu(mcu) = DOMAIN dst
    BY <2>1, <2>2, ConvertWrites DEF c
  <2>4. PixelOf(1)[c] = Pixel(mcu, 0, c)
    BY <1>2
  <2>5. QED
    BY <2>1, <2>3, <2>4 DEF c
<1>5. QED
  BY <1>3, <1>4-----------------------------------------------------------------------------
(* While the scan is decoded, the header is that of the image, the blocks   *)
(* of the MCU at hand are those that were encoded, and the pixels of every  *)
(* MCU that is done show their samples; they go on to do so.                *)
HeaderKept == mode # "unsupported" => HeaderIs(file.image) /\ Pixels \subseteq DOMAIN dst

BlocksSoFar ==
  /\ \E S : blocks \in Seq(S)
  /\ Len(blocks) < McuSize
  /\ phase # "block" => blocks = <<>>
  /\ \A k \in 1..Len(blocks) :
       Intact(McusDone * McuSize + k) => blocks[k] = Ref.blocks[McusDone * McuSize + k]

Shown ==
  \A o \in Pixels :
    McuIntact(McuAt(o)) /\ (decode_done \/ (phase \in Scanning /\ McuAt(o) < McusDone))
      => dst[o] = RefPixel(file.image, Ref.blocks, o)

KindKnown == decode_done \/ phase \in Scanning => mode # "unsupported"

AllCapacity == program = "driver" => DOMAIN dst = 0..(DstCapacity \div 3 - 1)

ImageInv ==
  /\ AllCapacity
  /\ Sound => /\ HeaderKept /\ KindKnown
              /\ Placed /\ phase \in Scanning => Counters /\ BlocksSoFar
              /\ Placed => Shown

LEMMA SoundEncodes ==
  ASSUME ReportInv, Sound
  PROVE  /\ Encodes(file) /\ file.image.width \in Nat \ {0} /\ file.image.height \in Nat \ {0}
         /\ file.image.mode \in {"mono", "444", "420"}
BY FilesAssumption DEF ReportInv, Begun, Sound

LEMMA HeaderTypes ==
  ASSUME ReportInv, Sound, HeaderKept, mode # "unsupported"
  PROVE  Wide /\ Known /\ HeaderIs(file.image) /\ Pixels \subseteq DOMAIN dst
BY SoundEncodes DEF HeaderKept, HeaderIs, Wide, Known

(* What the reference says of a pixel. *)
LEMMA RefIs ==
  ASSUME ReportInv, Sound, Placed, HeaderKept, mode # "unsupported"
  PROVE  /\ DOMAIN Ref.pixels = Pixels /\ DOMAIN Ref.mcu = Pixels
         /\ \A o \in Pixels : /\ Ref.mcu[o] = McuAt(o)
                              /\ Ref.pixels[o] = RefPixel(file.image, Ref.blocks, o)
<1>1. Wide /\ Known /\ HeaderIs(file.image)
  BY HeaderTypes
<1>2. Ref = Reference(file.image)
  BY SoundEncodes DEF Encodes, Ref
<1>3. 0..(file.image.width * file.image.height - 1) = Pixels
  BY <1>1 DEF HeaderIs, Pixels
<1>4. Ref.mcu = [o \in Pixels |-> McuOf(file.image, o % file.image.width, o \div file.image.width)]
  BY <1>2, <1>3 DEF Reference
<1>5. Ref.pixels = [o \in Pixels |-> RefPixel(file.image, Ref.blocks, o)]
  BY <1>2, <1>3 DEF Reference
<1>6. ASSUME NEW o \in Pixels
      PROVE  McuOf(file.image, o % file.image.width, o \div file.image.width) = McuAt(o)
  BY <1>1, McuIsMcuAt
<1>7. QED
  BY <1>4, <1>5, <1>6

LEMMA ImageFollows == ReportInv /\ ImageInv => ImageRight
<1> SUFFICES ASSUME ReportInv, ImageInv, Sound, decode_done, Placed,
                    NEW o \in DOMAIN Ref.pixels, McuIntact(Ref.mcu[o])
             PROVE  dst[o] = Ref.pixels[o]
  BY DEF ImageRight
<1>1. HeaderKept /\ mode # "unsupported" /\ Shown
  BY DEF ImageInv, KindKnown
<1>2. o \in Pixels /\ Ref.mcu[o] = McuAt(o) /\ Ref.pixels[o] = RefPixel(file.image, Ref.blocks, o)
  BY <1>1, RefIs
<1>3. QED
  BY <1>1, <1>2 DEF Shown

LEMMA ImageInvInitially == DecoderInit => ImageInv
BY DEF DecoderInit, ImageInv, AllCapacity, HeaderKept, KindKnown, Shown, Scanning

(* A file has one scan: before its end nothing is decoded, behind it comes  *)
(* neither a scan nor a header.                                             *)
LEMMA OneScan ==
  ASSUME ReportInv, Sound, phase \in Scanning \/ At({"SOS"})
  PROVE  ~decode_done
<1>1. phase # "done" /\ Segment.marker = "SOS" /\ segment \in 1..Len(Segments)
      /\ Len(Segments) \in Nat
  BY SegmentsCounted DEF ReportInv, Begun, Scanning, At, Segment
<1>2. SUFFICES ASSUME decode_done PROVE FALSE
  OBVIOUS
<1>3. PICK s \in 1..(segment - 1) : Segments[s].marker = "SOS"
  BY <1>1, <1>2 DEF ReportInv, LoopKnows
<1>4. Encodes(file)
  BY SoundEncodes
<1>5. s = segment
  BY <1>1, <1>3, <1>4 DEF Encodes, Segments, Segment
<1>6. QED
  BY <1>1, <1>3, <1>5

LEMMA OneHeader ==
  ASSUME ReportInv, Sound, At({"SOF0"})
  PROVE  mode = "unsupported"
<1>1. phase # "done" /\ Segment.marker = "SOF0" /\ segment \in 1..Len(Segments)
      /\ Len(Segments) \in Nat
  BY SegmentsCounted DEF ReportInv, Begun, At, Segment
<1>2. SUFFICES ASSUME mode # "unsupported" PROVE FALSE
  OBVIOUS
<1>3. PICK j \in 1..(segment - 1) : Segments[j].marker = "SOF0"
  BY <1>1, <1>2 DEF ReportInv, LoopKnows, Supported, Segments
<1>4. Encodes(file)
  BY SoundEncodes
<1>5. j = segment
  BY <1>1, <1>3, <1>4 DEF Encodes, Segments, Segment
<1>6. QED
  BY <1>1, <1>3, <1>5

(* With the header, the place of every pixel stays.                         *)
LEMMA SameHeader ==
  ASSUME UNCHANGED <<program, file, width, height, mode>>
  PROVE  /\ Sound' = Sound /\ Placed' = Placed /\ Pixels' = Pixels /\ Ref' = Ref
         /\ Known' = Known /\ XBlocks' = XBlocks /\ McuSize' = McuSize
         /\ HeaderIs(file.image)' = HeaderIs(file.image)
         /\ \A o : McuAt(o)' = McuAt(o) /\ McuIntact(McuAt(o))' = McuIntact(McuAt(o))
         /\ \A b : Intact(b)' = Intact(b)
         /\ \A o : RefPixel(file.image, Ref.blocks, o)' = RefPixel(file.image, Ref.blocks, o)
BY DEF Sound, Placed, Pixels, HeaderIs, Known, McuAt, BlockOf, Row, Column, XBlocks, RoundUp,
       McuIntact, McuSize, Components, Intact, Ref, RefPixel

(* The steps that change neither header, counters nor pixels.               *)
LEMMA ImageStill ==
  ASSUME ImageInv,
         UNCHANGED <<program, file, width, height, mode, decode_done, dst>>,
         phase' \in Scanning => phase \in Scanning /\ (phase' # "block" => phase # "block")
                                /\ UNCHANGED <<blocks, block_num, loop>>
  PROVE  ImageInv'
<1>1. /\ Sound' = Sound /\ Placed' = Placed /\ Ref' = Ref
      /\ HeaderKept' = HeaderKept /\ AllCapacity' = AllCapacity
  BY SameHeader DEF HeaderKept, AllCapacity
<1>2. KindKnown => KindKnown'
  BY DEF KindKnown
<1>3. Shown /\ (phase' \in Scanning => phase \in Scanning /\ McusDone' = McusDone) => Shown'
  BY SameHeader DEF Shown
<1>4. CASE phase' \in Scanning
  <2>1. Counters' = Counters
    BY <1>4, SameHeader DEF Counters, RowsDone
  <2>2. McusDone' = McusDone
    BY <1>4, SameHeader DEF McusDone
  <2>3. BlocksSoFar => BlocksSoFar'
    BY <1>1, <1>4, <2>2, SameHeader DEF BlocksSoFar
  <2>4. Shown => Shown'
    BY <1>3, <1>4, <2>2
  <2>5. QED
    BY <1>1, <1>2, <1>4, <2>1, <2>3, <2>4 DEF ImageInv
<1>5. CASE phase' \notin Scanning
  <2>1. Shown => Shown'
    BY <1>3, <1>5
  <2>2. QED
    BY <1>1, <1>2, <1>5, <2>1 DEF ImageInv
<1>6. QED
  BY <1>4, <1>5
LEMMA HeaderImage ==
  ASSUME ReportInv, ImageInv, ParseSof0 \/ CModelSof0
  PROVE  ImageInv'
<1>1. At({"SOF0"}) /\ UNCHANGED <<program, file, decode_done>>
  BY DEF ParseSof0, CModelSof0
<1>2. CASE Refuse /\ UNCHANGED headerVars /\ UNCHANGED dst
  BY <1>1, <1>2, ImageStill DEF Refuse, headerVars, Scanning
<1>3. CASE SetHeader /\ Continue
  <2>1. phase' = "segments" /\ width' = Segment.width /\ height' = Segment.height
        /\ mode' = Modes(Segment.comps)
    BY <1>1, <1>3 DEF SetHeader, Continue, At
  <2>2. \/ /\ program = "driver" /\ dst' = dst
           /\ 3 * Segment.width * Segment.height <= DstCapacity
        \/ /\ program # "driver"
           /\ dst' = [offset \in 0..(Segment.width * Segment.height - 1) |-> Stale]
    BY <1>3, <2>1 DEF ParseSof0, CModelSof0, Checked, Refuse
  <2>3. AllCapacity'
    BY <1>1, <2>2 DEF AllCapacity, ImageInv
  <2>4. ASSUME Sound PROVE HeaderKept' /\ ~decode_done'
    <3>1. mode = "unsupported"
      BY <1>1, <2>4, OneHeader
    <3>2. ~decode_done'
      BY <1>1, <2>4, <3>1 DEF ImageInv, KindKnown
    <3>3. /\ Segment.width = file.image.width /\ Segment.height = file.image.height
          /\ Modes(Segment.comps) = file.image.mode
      <4>1. segment \in 1..Len(Segments) /\ Segment.marker = "SOF0" /\ Len(Segments) \in Nat
        BY <1>1, SegmentsCounted DEF At, Segment, ReportInv, Begun
      <4>2. Encodes(file)
        BY <2>4, SoundEncodes
      <4>3. QED
        BY <4>1, <4>2 DEF Encodes, Segments, Segment
    <3>4. HeaderIs(file.image)'
      BY <1>1, <2>1, <3>3 DEF HeaderIs
    <3>5. Pixels' \subseteq DOMAIN dst'
      <4> DEFINE w == Segment.width
                 h == Segment.height
      <4>1. w \in Nat /\ h \in Nat /\ Pixels' = 0..(w * h - 1)
        BY <2>1, <2>4, <3>3, SoundEncodes DEF Pixels
      <4> HIDE DEF w, h
      <4>2. CASE program = "driver"
        <5>1. 3 * w * h <= DstCapacity /\ DOMAIN dst' = 0..(DstCapacity \div 3 - 1)
          BY <2>2, <4>2 DEF AllCapacity, ImageInv, w, h
        <5>2. 3 * w * h = 3 * (w * h) /\ w * h \in Nat
          BY <4>1, SMT
        <5>3. w * h <= DstCapacity \div 3
          BY <5>1, <5>2, DecoderAssumption
        <5>4. DstCapacity \div 3 \in Nat
          BY DecoderAssumption
        <5>5. QED
          BY <4>1, <5>1, <5>2, <5>3, <5>4
      <4>3. CASE program # "driver"
        BY <2>2, <4>1, <4>3 DEF w, h
      <4>4. QED
        BY <4>2, <4>3
    <3>6. QED
      BY <3>2, <3>4, <3>5 DEF HeaderKept
  <2>5. Sound' = Sound
    BY <1>1 DEF Sound
  <2>6. QED
    BY <2>1, <2>3, <2>4, <2>5 DEF ImageInv, KindKnown, Shown, Scanning
<1>4. QED
  BY <1>1, <1>2, <1>3 DEF ParseSof0, CModelSof0, headerVars

LEMMA BeginImage ==
  ASSUME ReportInv, ImageInv, At({"SOS"}), mode # "unsupported", BeginScan,
         UNCHANGED <<program, file, headerVars, decode_done, dst>>
  PROVE  ImageInv'
<1>1. /\ UNCHANGED <<program, file, width, height, mode>> /\ phase' = "scan"
      /\ blocks' = <<>> /\ block_num' = 0 /\ loop' = 0
  BY DEF BeginScan, headerVars
<1>2. Sound' = Sound /\ Placed' = Placed /\ AllCapacity' = AllCapacity /\ HeaderKept' = HeaderKept
  BY <1>1, SameHeader DEF AllCapacity, HeaderKept
<1>3. KindKnown'
  BY <1>1 DEF KindKnown
<1>4. ASSUME Sound, Placed PROVE Counters' /\ BlocksSoFar' /\ Shown'
  <2>1. Wide /\ Known
    BY <1>4, HeaderTypes DEF ImageInv
  <2>2. ASSUME mode = "420" PROVE /\ 0 \in 0..(XBlocks' \div 2 - 1) /\ RowsDone(0)' /\ McusDone' = 0
    <3>1. XBlocks \in Nat \ {0} /\ XBlocks \div 2 \in Nat \ {0}
      BY <1>4, <2>1, <2>2, HalfRow
    <3>2. XBlocks' = XBlocks
      BY <1>1, SameHeader
    <3> DEFINE n == XBlocks
    <3> HIDE DEF n
    <3>3. 4 * n * 0 + 4 * 0 = 0 /\ n \in Nat \ {0}
      BY <3>1, SMT DEF n
    <3>4. RowsDone(0)'
      BY <1>1, <3>2, <3>3 DEF RowsDone, n
    <3>5. (0 - 4 * 0) \div (4 * n) = 0
      BY <3>3, RowsOf
    <3>6. McusDone' = 0 * (n \div 2) + 0
      BY <1>1, <2>2, <3>2, <3>5 DEF McusDone, n
    <3>7. 0 * (n \div 2) + 0 = 0
      BY <3>1 DEF n
    <3>8. QED
      BY <3>1, <3>2, <3>4, <3>6, <3>7 DEF n
  <2>3. Counters'
    BY <1>1, <2>1, <2>2 DEF Counters
  <2>4. McusDone' = 0
    BY <1>1, <2>1, <2>2 DEF McusDone
  <2>5. McuSize \in {1, 3, 6}
    BY <2>1 DEF McuSize, Components, Known
  <2>6. BlocksSoFar'
    <3>1. blocks' \in Seq({}) /\ Len(blocks') = 0
      BY <1>1
    <3>2. McuSize' = McuSize
      BY <1>1, SameHeader
    <3>3. QED
      BY <1>1, <2>5, <3>1, <3>2 DEF BlocksSoFar
  <2>7. Shown'
    <3>1. ~decode_done'
      BY <1>4, OneScan
    <3>2. \A o \in Pixels : McuAt(o) \in Nat
      BY <2>1, McuTypes
    <3>3. Pixels' = Pixels /\ \A o : McuAt(o)' = McuAt(o)
      BY <1>1, SameHeader
    <3>4. QED
      BY <2>4, <3>1, <3>2, <3>3 DEF Shown
  <2>8. QED
    BY <2>3, <2>6, <2>7
<1>5. QED
  BY <1>2, <1>3, <1>4 DEF ImageInv
(* At the end of the scan no MCU that is intact is left.                    *)
LEMMA EndOfScan ==
  ASSUME ReportInv, ImageInv, ScanIsFinished, NextMcu
  PROVE  ImageInv'
<1>1. phase = "mcu" /\ UNCHANGED <<program, file, width, height, mode, blocks, block_num, loop, dst>>
  BY DEF NextMcu, headerVars, imageVars
<1>2. CASE ~Eof
  <2>1. phase' = "block" /\ UNCHANGED decode_done
    BY <1>2 DEF NextMcu
  <2>2. QED
    BY <1>1, <2>1, ImageStill DEF Scanning
<1>3. CASE Eof
  <2>1. phase' = "segments" /\ decode_done'
    BY <1>3 DEF NextMcu
  <2>2. /\ Sound' = Sound /\ Placed' = Placed /\ Pixels' = Pixels
        /\ AllCapacity' = AllCapacity /\ HeaderKept' = HeaderKept
    BY <1>1, SameHeader DEF AllCapacity, HeaderKept
  <2>3. ASSUME Sound PROVE KindKnown'
    BY <1>1, <2>3 DEF ImageInv, KindKnown, Scanning
  <2>4. ASSUME Sound, Placed, NEW o \in Pixels, McuIntact(McuAt(o))
        PROVE  dst[o] = RefPixel(file.image, Ref.blocks, o)
    <3>1. HeaderKept /\ mode # "unsupported" /\ Shown
      BY <1>1, <2>4 DEF ImageInv, KindKnown, Scanning
    <3>2. o \in DOMAIN Ref.mcu /\ Ref.mcu[o] = McuAt(o)
      BY <2>4, <3>1, RefIs
    <3>3. McuAt(o) < McusDone
      BY <1>1, <1>3, <2>4, <3>2 DEF ScanIsFinished
    <3>4. QED
      BY <1>1, <2>4, <3>1, <3>3 DEF Shown, Scanning
  <2>5. ASSUME Sound, Placed PROVE Shown'
    <3>1. /\ \A o : McuIntact(McuAt(o))' = McuIntact(McuAt(o))
          /\ \A o : RefPixel(file.image, Ref.blocks, o)' = RefPixel(file.image, Ref.blocks, o)
      BY <1>1, SameHeader
    <3>2. QED
      BY <1>1, <2>2, <2>4, <2>5, <3>1 DEF Shown
  <2>6. QED
    BY <1>1, <2>1, <2>2, <2>3, <2>5 DEF ImageInv, Scanning
<1>4. QED
  BY <1>2, <1>3

(* A block is done: it is the one that was encoded, and so are those of its *)
(* MCU before it.                                                           *)
LEMMA BlockDone ==
  ASSUME ReportInv, ImageInv, BlocksRight, Sound, Placed, phase = "block", coeff >= Coefficients,
         NEW block, block = ProcessSamples(dqt_table[Component])
  PROVE  LET mcu == Append(blocks, block)
         IN /\ \E S : mcu \in Seq(S)
            /\ Len(mcu) = Len(blocks) + 1 /\ Len(blocks) \in Nat
            /\ \A k \in 1..Len(mcu) :
                 Intact(McusDone * McuSize + k) => mcu[k] = Ref.blocks[McusDone * McuSize + k]
<1>1. BlocksSoFar /\ Counters /\ mode # "unsupported" /\ HeaderKept
  BY DEF ImageInv, Scanning, KindKnown
<1>2. Wide /\ Known
  BY <1>1, HeaderTypes
<1>3. PICK S : blocks \in Seq(S)
  BY <1>1 DEF BlocksSoFar
<1> DEFINE T == S \union {block}
           mcu == Append(blocks, block)
           first == McusDone * McuSize
<1>4. blocks \in Seq(T) /\ block \in T
  <2>1. Len(blocks) \in Nat /\ DOMAIN blocks = 1..Len(blocks)
        /\ blocks = [k \in 1..Len(blocks) |-> blocks[k]] /\ \A k \in 1..Len(blocks) : blocks[k] \in S
    BY <1>3
  <2>2. QED
    BY <2>1
<1> HIDE DEF T
<1>5. /\ mcu \in Seq(T) /\ Len(blocks) \in Nat /\ Len(mcu) = Len(blocks) + 1
      /\ \A k \in 1..Len(blocks) : mcu[k] = blocks[k]
      /\ mcu[Len(blocks) + 1] = block
  BY <1>4, AppendProperties
<1>6. McusDone \in Nat /\ McuSize \in {1, 3, 6}
  BY <1>1, <1>2, McusDoneNat DEF McuSize, Components, Known
<1>7. first \in Nat
  BY <1>6, SMT
<1>8. Intact(first + (Len(blocks) + 1)) => block = Ref.blocks[first + (Len(blocks) + 1)]
  <2>1. first + Len(blocks) + 1 = first + (Len(blocks) + 1)
    BY <1>5, <1>7
  <2>2. QED
    BY <2>1 DEF BlocksRight
<1> HIDE DEF mcu
<1>9. ASSUME NEW k \in 1..Len(mcu), Intact(first + k) PROVE mcu[k] = Ref.blocks[first + k]
  <2>1. CASE k = Len(blocks) + 1
    BY <1>5, <1>8, <1>9, <2>1
  <2>2. CASE k # Len(blocks) + 1
    <3>1. k \in 1..Len(blocks)
      BY <1>5, <1>9, <2>2
    <3>2. blocks[k] = Ref.blocks[first + k]
      BY <1>1, <1>9, <3>1 DEF BlocksSoFar
    <3>3. QED
      BY <1>5, <3>1, <3>2
  <2>3. QED
    BY <2>1, <2>2
<1>10. QED
  BY <1>5, <1>9 DEF mcu
(* The counters behind an MCU: the next one, in 4:2:0 perhaps at the begin  *)
(* of the next row.                                                         *)
LEMMA NextCounters ==
  ASSUME Wide, Known, Placed, Counters, UNCHANGED <<program, width, height, mode>>,
         block_num' = block_num + Len(Places) + (IF RowEnds THEN 2 * XBlocks ELSE 0),
         loop' = IF mode # "420" \/ RowEnds THEN 0 ELSE loop + 1
  PROVE  Counters' /\ McusDone' = McusDone + 1
<1>1. XBlocks' = XBlocks
  BY DEF XBlocks, RoundUp
<1>2. CASE mode # "420"
  <2>1. block_num' = block_num + 1 /\ loop' = 0 /\ block_num \in Nat
    BY <1>2 DEF Places, RowEnds, Counters
  <2>2. QED
    BY <1>2, <2>1 DEF Counters, McusDone
<1>3. CASE mode = "420"
  <2> DEFINE n == XBlocks
             h == n \div 2
             l == loop
  <2>1. n \in Nat \ {0} /\ h \in Nat \ {0} /\ n = 2 * h
    BY <1>3, HalfRow
  <2>2. PICK r \in Nat : RowsDone(r)
    BY <1>3 DEF Counters
  <2>3. l \in 0..(h - 1) /\ McusDone = r * h + l
    BY <1>3, <2>2, McusDoneIs DEF Counters
  <2>4. block_num = 4 * n * r + 4 * l
    BY <2>2 DEF RowsDone
  <2>5. Len(Places) = 4
    BY <1>3 DEF Places
  <2>6. RowEnds <=> l + 1 = h
    BY <1>3 DEF RowEnds
  <2>7. McusDone' = ((block_num' - 4 * loop') \div (4 * n)) * h + loop'
    BY <1>1, <1>3 DEF McusDone
  <2> HIDE DEF n, h, l
  <2>8. 4 * n * r \in Nat /\ 4 * n * (r + 1) = 4 * n * r + 4 * n /\ r * h \in Nat /\ (r + 1) * h = r * h + h
    BY <2>1, SMT
  <2>9. CASE RowEnds
    <3>1. loop' = 0 /\ block_num' = 4 * n * (r + 1) + 4 * 0
      BY <2>1, <2>3, <2>4, <2>5, <2>6, <2>8, <2>9 DEF n
    <3>2. (block_num' - 4 * loop') \div (4 * n) = r + 1
      BY <2>1, <3>1, RowsOf
    <3>3. McusDone' = (r + 1) * h + 0
      BY <2>7, <3>1, <3>2, Zenon
    <3>4. McusDone' = McusDone + 1
      BY <2>1, <2>3, <2>6, <2>8, <2>9, <3>3
    <3>5. RowsDone(r + 1)' /\ loop' \in 0..(XBlocks' \div 2 - 1)
      BY <1>1, <2>1, <3>1 DEF RowsDone, n, h
    <3>6. block_num' \in Nat /\ r + 1 \in Nat
      BY <2>1, <2>8, <3>1
    <3>7. QED
      BY <1>3, <3>4, <3>5, <3>6 DEF Counters
  <2>10. CASE ~RowEnds
    <3>1. loop' = l + 1 /\ block_num' = 4 * n * r + 4 * (l + 1)
      BY <1>3, <2>3, <2>4, <2>5, <2>8, <2>10 DEF l
    <3>2. McusDone' = r * h + (l + 1)
      <4>1. (block_num' - 4 * loop') \div (4 * n) = r
        <5>1. l + 1 \in Nat
          BY <2>1, <2>3
        <5>2. QED
          BY <2>1, <3>1, <5>1, RowsOf
      <4>2. QED
        BY <2>7, <3>1, <4>1, Zenon
    <3>3. McusDone' = McusDone + 1
      BY <2>1, <2>3, <2>8, <3>2
    <3>4. RowsDone(r)' /\ loop' \in 0..(XBlocks' \div 2 - 1)
      <4>1. l + 1 \in 0..(h - 1)
        BY <2>1, <2>3, <2>6, <2>10
      <4>2. QED
        BY <1>1, <2>1, <3>1, <4>1 DEF RowsDone, n, h
    <3>5. block_num' \in Nat
      BY <2>3, <2>8, <3>1
    <3>6. QED
      BY <1>3, <3>3, <3>4, <3>5 DEF Counters
  <2>11. QED
    BY <2>9, <2>10
<1>4. QED
  BY <1>2, <1>3

LEMMA FinishImage ==
  ASSUME ReportInv, ImageInv, BlocksRight, FinishBlock
  PROVE  ImageInv'
<1> DEFINE block == ProcessSamples(dqt_table[Component])
           mcu == Append(blocks, block)
<1>1. /\ phase = "block" /\ coeff >= Coefficients
      /\ UNCHANGED <<program, file, width, height, mode, decode_done>>
  BY DEF FinishBlock, headerVars
<1>2. /\ Sound' = Sound /\ Placed' = Placed /\ Pixels' = Pixels /\ Known' = Known /\ Ref' = Ref
      /\ McuSize' = McuSize /\ \A b : Intact(b)' = Intact(b)
      /\ HeaderIs(file.image)' = HeaderIs(file.image)
  BY <1>1, SameHeader
<1>3. \/ /\ Len(mcu) < McuSize
         /\ blocks' = mcu /\ UNCHANGED <<phase, block_num, loop, dst>>
      \/ /\ ~(Len(mcu) < McuSize)
         /\ blocks' = <<>> /\ phase' = "mcu"
         /\ dst' = IF width = 0 THEN dst ELSE ConvertMcu(mcu)
         /\ block_num' = block_num + Len(Places) + (IF RowEnds THEN 2 * XBlocks ELSE 0)
         /\ loop' = IF mode # "420" \/ RowEnds THEN 0 ELSE loop + 1
  BY DEF FinishBlock, McuSize
<1>4. phase' \in Scanning
  BY <1>1, <1>3 DEF Scanning
<1>5. DOMAIN dst' = DOMAIN dst
  <2>1. \A image, n, pixel : DOMAIN Convert(image, n, pixel) = DOMAIN image
    BY DEF Convert, ConvertYUV2RGB, ConvertBlock
  <2>2. DOMAIN ConvertMcu(mcu) = DOMAIN dst
    BY <2>1 DEF ConvertMcu
  <2>3. QED
    BY <1>3, <2>2
<1>6. AllCapacity'
  BY <1>1, <1>5 DEF ImageInv, AllCapacity
<1>7. ASSUME Sound PROVE HeaderKept' /\ KindKnown'
  BY <1>1, <1>2, <1>5, <1>7 DEF ImageInv, HeaderKept, KindKnown, Scanning
<1>8. ASSUME Sound, Placed PROVE Counters' /\ BlocksSoFar' /\ Shown'
  <2>1. Wide /\ Known /\ HeaderIs(file.image) /\ Pixels \subseteq DOMAIN dst /\ BlocksSoFar
        /\ Counters /\ Shown /\ ~decode_done /\ program \in {"driver", "c_model"}
    BY <1>1, <1>8, HeaderTypes, OneScan DEF ImageInv, KindKnown, Scanning, ReportInv, Begun
  <2>2. /\ \E S : mcu \in Seq(S)
        /\ Len(mcu) = Len(blocks) + 1 /\ Len(blocks) \in Nat
        /\ \A k \in 1..Len(mcu) :
             Intact(McusDone * McuSize + k) => mcu[k] = Ref.blocks[McusDone * McuSize + k]
    BY <1>1, <1>8, BlockDone
  <2> HIDE DEF mcu
  <2>3. CASE Len(mcu) < McuSize
    <3>1. blocks' = mcu /\ UNCHANGED <<phase, block_num, loop, dst>>
      BY <1>3, <2>3
    <3>2. Counters' = Counters /\ McusDone' = McusDone
      BY <1>1, <3>1, SameHeader DEF Counters, RowsDone, McusDone
    <3>3. BlocksSoFar'
      BY <1>1, <1>2, <2>2, <2>3, <3>1, <3>2 DEF BlocksSoFar
    <3>4. Shown'
      BY <1>1, <2>1, <3>1, <3>2, SameHeader DEF Shown
    <3>5. QED
      BY <2>1, <3>2, <3>3, <3>4
  <2>4. CASE ~(Len(mcu) < McuSize)
    <3>1. /\ blocks' = <<>> /\ phase' = "mcu" /\ dst' = ConvertMcu(mcu)
          /\ Counters' /\ McusDone' = McusDone + 1
      BY <1>1, <1>3, <2>1, <2>4, <1>8, NextCounters DEF Wide
    <3>2. McuSize \in {1, 3, 6} /\ Len(mcu) = McuSize
      BY <2>1, <2>2, <2>4 DEF BlocksSoFar, McuSize, Components, Known
    <3>3. BlocksSoFar'
      <4>1. blocks' \in Seq({}) /\ Len(blocks') = 0
        BY <3>1
      <4>2. QED
        BY <1>2, <3>1, <3>2, <4>1 DEF BlocksSoFar
    <3>4. ASSUME NEW o \in Pixels, McuIntact(McuAt(o)), McuAt(o) < McusDone + 1
          PROVE  dst'[o] = RefPixel(file.image, Ref.blocks, o)
      <4>1. dst'[o] = IF McusDone = McuAt(o) THEN Pixel(mcu, Quarter(o), CellIn(o)) ELSE dst[o]
        BY <1>8, <2>1, <3>1, McuDrawn
      <4>2. CASE McusDone = McuAt(o)
        <5>1. \A k \in 1..McuSize : mcu[k] = Ref.blocks[McuAt(o) * McuSize + k]
          BY <2>2, <3>2, <3>4, <4>2 DEF McuIntact
        <5>2. Pixel(mcu, Quarter(o), CellIn(o)) = RefPixel(file.image, Ref.blocks, o)
          BY <1>8, <2>1, <5>1, PixelIsRefPixel
        <5>3. QED
          BY <4>1, <4>2, <5>2
      <4>3. CASE McusDone # McuAt(o)
        <5>1. McuAt(o) < McusDone
          BY <1>8, <2>1, <3>4, <4>3, McuTypes, McusDoneNat
        <5>2. QED
          BY <1>1, <2>1, <3>4, <4>1, <4>3, <5>1 DEF Shown, Scanning
      <4>4. QED
        BY <4>2, <4>3
    <3>5. Shown'
      BY <1>1, <2>1, <3>1, <3>4, SameHeader DEF Shown
    <3>6. QED
      BY <3>1, <3>3, <3>5
  <2>5. QED
    BY <2>3, <2>4
<1>9. QED
  BY <1>2, <1>4, <1>6, <1>7, <1>8 DEF ImageInv

LEMMA ImageInvNext ==
  ASSUME ReportInv, ImageInv, BlocksRight, ScanIsFinished, [DecoderNext]_decoderVars
  PROVE  ImageInv'
<1>1. CASE ParseSof0 \/ CModelSof0
  BY <1>1, HeaderImage
<1>2. CASE NextMcu
  BY <1>2, EndOfScan
<1>3. CASE FinishBlock
  BY <1>3, FinishImage
<1>4. CASE ParseSos \/ CModelSos
  <2>1. At({"SOS"}) /\ UNCHANGED <<program, file, headerVars, decode_done, dst>>
    BY <1>4 DEF ParseSos, CModelSos
  <2>2. CASE mode # "unsupported" /\ BeginScan
    BY <2>1, <2>2, BeginImage
  <2>3. CASE Refuse \/ WriteImage
    BY <2>1, <2>3, ImageStill DEF Refuse, WriteImage, Scanning, headerVars
  <2>4. QED
    BY <1>4, <2>2, <2>3 DEF ParseSos, CModelSos
<1>5. CASE SkipSegment \/ ParseSof2 \/ EndOfFile
  <2>1. UNCHANGED <<program, file, headerVars, decode_done, dst>>
    BY <1>5 DEF SkipSegment, ParseSof2, EndOfFile
  <2>2. phase' \notin Scanning
    BY <1>5 DEF SkipSegment, ParseSof2, EndOfFile, Refuse, Continue, WriteImage, At, Scanning
  <2>3. QED
    BY <2>1, <2>2, ImageStill DEF headerVars
<1>6. CASE ParseDqt \/ CModelDqt \/ ParseDht \/ CModelDht
  <2>1. UNCHANGED <<program, file, headerVars, decode_done, dst>>
    BY <1>6 DEF ParseDqt, CModelDqt, ParseDht, CModelDht, Table
  <2>2. phase' \notin Scanning
    BY <1>6 DEF ParseDqt, CModelDqt, ParseDht, CModelDht, Table, Refuse, Continue, At, Scanning
  <2>3. QED
    BY <2>1, <2>2, ImageStill DEF headerVars
<1>7. CASE PushScan
  BY <1>7, ImageStill DEF PushScan, headerVars, imageVars, Scanning
<1>8. CASE DecodeFirst \/ DecodeNext
  BY <1>8, ImageStill DEF DecodeFirst, DecodeNext, InBlock, headerVars, Scanning
<1>9. CASE DivideByZero \/ UNCHANGED decoderVars
  BY <1>9, ImageStill DEF DivideByZero, Scanning, decoderVars, headerVars, imageVars
<1>10. QED
  BY <1>1, <1>2, <1>3, <1>4, <1>5, <1>6, <1>7, <1>8, <1>9 DEF DecoderNext

(* ImageRight: every pixel of an intact MCU shows its own samples when the  *)
(* scan is decoded (DecodeImage, ConvertBlock, WriteRgbPixel,               *)
(* ConvertYUV2RGB), for images of any size and mode and blocks of any even  *)
(* edge, provided that the blocks are decoded right and the end of the scan *)
(* is not seen too early.                                                   *)
THEOREM ImageIsRight ==
  DecoderSpec /\ []BlocksRight /\ []ScanIsFinished => []ImageRight
<1>1. DecoderInit => ImageInv
  BY ImageInvInitially
<1>2. ReportInv /\ ImageInv /\ BlocksRight /\ ScanIsFinished /\ [DecoderNext]_decoderVars
        => ImageInv'
  BY ImageInvNext
<1>3. ReportInv /\ ImageInv => ImageRight
  BY ImageFollows
<1>4. QED
  BY <1>1, <1>2, <1>3, ReportInvHolds, PTL DEF DecoderSpec
=============================================================================
