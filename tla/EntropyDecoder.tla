--------------------------- MODULE EntropyDecoder ---------------------------
(***************************************************************************)
(* The classes of c_model both software decoders are built from:           *)
(* jpeg_bit_buffer, jpeg_dht, jpeg_mcu_block and jpeg_dqt.  Bytes, codes    *)
(* and coefficients are the numbers of the file; the inverse DCT is left   *)
(* out: a block is the set of its coefficients that are not zero, as       *)
(* <<position, value>>.                                                    *)
(***************************************************************************)
EXTENDS Integers, Sequences

VARIABLES
  m_buffer, m_last, m_wr_offset, m_rd_offset,  \* jpeg_bit_buffer
  m_dht_table,                                 \* index -> entries in code order
  m_table_dqt,                                 \* table -> factors in zigzag order
  coeff, samples                               \* jpeg_mcu_block::decode

bitVars == <<m_buffer, m_last, m_wr_offset, m_rd_offset>>
entropyVars == <<bitVars, m_dht_table, m_table_dqt, coeff, samples>>

Coefficients == 64
WordBits == 32   \* bits of read_word
CodeBits == 16   \* bits of the longest code

EntropyInit ==
  /\ m_buffer = <<>> /\ m_last = 0 /\ m_wr_offset = 0 /\ m_rd_offset = 0
  /\ m_dht_table = [index \in 0..3 |-> <<>>]
  /\ m_table_dqt = [table \in 0..3 |-> [k \in 1..Coefficients |-> 0]]
  /\ coeff = 0 /\ samples = <<>>

-----------------------------------------------------------------------------
(* jpeg_bit_buffer.  Memory behind what was pushed is zero. *)
ResetBits ==
  m_buffer' = <<>> /\ m_last' = 0 /\ m_wr_offset' = 0 /\ m_rd_offset' = 0

MarkerFound(b) == m_last = 255 /\ b # 0

(* Mutant of Push: a stuffed zero byte is kept. *)
PushKeepsPadding(b) ==
  /\ IF MarkerFound(b)
     THEN m_wr_offset' = m_wr_offset - 1 /\ UNCHANGED <<m_buffer, m_last>>
     ELSE /\ m_last' = b
          /\ m_buffer' = Append(m_buffer, b) /\ m_wr_offset' = m_wr_offset + 1
  /\ UNCHANGED m_rd_offset

(* The 0xFF of a marker stays in memory, behind the write offset.           *)
Push(b) ==
  /\ IF MarkerFound(b)
     THEN m_wr_offset' = m_wr_offset - 1 /\ UNCHANGED <<m_buffer, m_last>>
     ELSE /\ m_last' = b
          /\ IF m_last = 255
             THEN UNCHANGED <<m_buffer, m_wr_offset>>
             ELSE m_buffer' = Append(m_buffer, b) /\ m_wr_offset' = m_wr_offset + 1
  /\ UNCHANGED m_rd_offset

(* Mutant of Eof: the end is where a word can no longer be filled.          *)
EofShort == m_rd_offset + WordBits > 8 * m_wr_offset
Eof == (m_rd_offset + 7) \div 8 >= m_wr_offset

BitAt(n) ==
  IF n \div 8 < Len(m_buffer) THEN (m_buffer[n \div 8 + 1] \div 2^(7 - (n % 8))) % 2 ELSE 0

(* The next bits, the most significant first. *)
ReadWord == [k \in 0..(WordBits - 1) |-> IF Eof THEN 0 ELSE BitAt(m_rd_offset + k)]

(* n bits of a word from the given place, as a number. *)
Field(word, from, n) ==
  LET value[k \in 0..n] == IF k = 0 THEN 0 ELSE 2 * value[k - 1] + word[from + k - 1]
  IN value[n]

-----------------------------------------------------------------------------
(* Mutant of HuffmanTable: codes restart with every length. *)
HuffmanTableRestarts(counts, values) ==
  LET before[x \in 1..(CodeBits + 1)] == IF x = 1 THEN 0 ELSE before[x - 1] + counts[x - 1]
      length(e) == CHOOSE x \in 1..CodeBits : before[x] < e /\ e <= before[x + 1]
  IN [e \in 1..before[CodeBits + 1] |->
        [code_len |-> length(e), code |-> e - before[length(e)] - 1, value |-> values[e]]]

(* jpeg_dht: counts[x] symbols have codes of x bits.  Codes of one length   *)
(* count up; the first of the next length continues with a zero appended.   *)
HuffmanTable(counts, values) ==
  LET before[x \in 1..(CodeBits + 1)] == IF x = 1 THEN 0 ELSE before[x - 1] + counts[x - 1]
      first[x \in 1..CodeBits] ==
        IF x = 1 THEN 0 ELSE (2 * (first[x - 1] + counts[x - 1])) % 2^16
      length(e) == CHOOSE x \in 1..CodeBits : before[x] < e /\ e <= before[x + 1]
  IN [e \in 1..before[CodeBits + 1] |->
        [code_len |-> length(e),
         code |-> (first[length(e)] + e - before[length(e)] - 1) % 2^16,
         value |-> values[e]]]

(* jpeg_dht::process: the tables of a segment, one after the other.         *)
ProcessDht(tables) ==
  m_dht_table' = [index \in 0..3 |->
    IF \E k \in 1..Len(tables) : tables[k].index = index
    THEN LET k == CHOOSE k \in 1..Len(tables) :
                    /\ tables[k].index = index
                    /\ \A j \in (k + 1)..Len(tables) : tables[j].index # index
         IN HuffmanTable(tables[k].counts, tables[k].values)
    ELSE m_dht_table[index]]

(* lookup: the first entry whose code the word starts with; width 0 when    *)
(* there is none.                                                           *)
Lookup(table, word) ==
  LET Matches(e) == Field(word, 0, table[e].code_len) = table[e].code
  IN IF \E e \in 1..Len(table) : Matches(e)
     THEN LET e == CHOOSE e \in 1..Len(table) : Matches(e) /\ \A f \in 1..(e - 1) : ~Matches(f)
          IN [width |-> table[e].code_len, value |-> table[e].value]
     ELSE [width |-> 0, value |-> 0]

-----------------------------------------------------------------------------
Int16(v) == ((v + 32768) % 65536) - 32768

(* decode_number: a number of the given size whose first bit is 0 is        *)
(* negative.                                                                *)
DecodeNumber(word, from, bits) ==
  LET code == Field(word, from, bits)
  IN IF bits # 0 /\ word[from] = 0 THEN code - 2^bits + 1 ELSE code

StartBlock == coeff' = 0 /\ samples' = <<>>

(* One turn of the loop of jpeg_mcu_block::decode.  Result: the DC          *)
(* coefficient the next block of the component starts from.                 *)
DecodeDc(table_idx, olddccoeff) ==
  LET word == ReadWord
      hit == Lookup(m_dht_table[table_idx], word)
      bits == hit.value % 16
  IN [advance |-> hit.width + bits,
      dcoeff |-> Int16(DecodeNumber(word, hit.width, bits) + olddccoeff)]

ZeroRun == 16

DecodeAc(table_idx) ==
  LET word == ReadWord
      hit == Lookup(m_dht_table[table_idx + 1], word)
      bits == hit.value % 16
      at == coeff + hit.value \div 16
  IN /\ m_rd_offset' = m_rd_offset + hit.width + bits
     /\ coeff' = IF hit.value = 0 THEN Coefficients        \* end of block
                 ELSE IF hit.value = 240 THEN coeff + ZeroRun
                 ELSE at + 1
     /\ samples' = IF hit.value \in {0, 240} \/ at >= Coefficients THEN samples
                   ELSE Append(samples, <<at, Int16(DecodeNumber(word, hit.width, bits))>>)

-----------------------------------------------------------------------------
(* jpeg_dqt. *)
m_zigzag_table ==
  << 0,  1,  8, 16,  9,  2,  3, 10, 17, 24, 32, 25, 18, 11,  4,  5,
    12, 19, 26, 33, 40, 48, 41, 34, 27, 20, 13,  6,  7, 14, 21, 28,
    35, 42, 49, 56, 57, 50, 43, 36, 29, 22, 15, 23, 30, 37, 44, 51,
    58, 59, 52, 45, 38, 31, 39, 46, 53, 60, 61, 54, 47, 55, 62, 63 >>

(* jpeg_dqt::process keeps the first table of a segment. *)
ProcessDqt(tables) ==
  m_table_dqt' = [m_table_dqt EXCEPT ![Head(tables).number % 4] = Head(tables).factors]

ProcessSamples(quant_table) ==
  {c \in {<<m_zigzag_table[s[1] + 1], s[2] * m_table_dqt[quant_table][s[1] + 1]>> :
            s \in {samples[k] : k \in 1..Len(samples)}} : c[2] # 0}
=============================================================================
