----------------------------- MODULE RecordFiles -----------------------------
(***************************************************************************)
(* Files of records: CompressedRecordFileWriter, CompressedRecordFileReader *)
(* and RecordCompressor.  A record is a sequence of entries of one size in *)
(* bytes; positions and lengths are in bytes.  LZ4 is external: Lz4(n) is  *)
(* the compressed size of n bytes, and what is decompressed is what was    *)
(* compressed as far as the buffer has room for it.                        *)
(*                                                                         *)
(* A file has the number of records of its header, the offsets of its      *)
(* second part and what was written at each position (blobs); offsets that *)
(* have not been written yet are 0.  written, pending and position are the *)
(* writer's.                                                               *)
(***************************************************************************)
EXTENDS Integers, Sequences, SequencesExt, FiniteSets, FiniteSetsExt

CONSTANTS
  MantissaMax,  \* mantissa_mask, 255
  MaxExp,       \* the largest exponent, 31: decompress() shifts a 32-bit 1
  MaxBlock,     \* MAX_BLOCK_SIZE
  Percent,      \* --compress-threshold, in percent; 0 disables compression
  Lz4(_)

ASSUME RecordAssumption ==
  /\ MantissaMax \in Nat /\ MaxExp \in Nat /\ MaxBlock \in Nat \ {0} /\ Percent \in Nat
  /\ \A n \in 1 .. MaxBlock : Lz4(n) \in Nat

HeaderSize == 2
BlockLengthSize == 4

-----------------------------------------------------------------------------
(* RecordCompressor. *)

(* 1 << exp *)
Shifted(exp) ==
  LET power[e \in 0 .. exp] == IF e = 0 THEN 1 ELSE 2 * power[e - 1]
  IN  power[exp]

(* The length is kept as mantissa * 2^exp, rounded down. *)
Exponents(length) == {e \in 0 .. MaxExp : length \div Shifted(e) <= MantissaMax}
HeaderFits(length) == Exponents(length) # {}
Header(length) ==
  LET exp == Min(Exponents(length))
  IN  [exp |-> exp, mantissa |-> length \div Shifted(exp)]

Blocks(length) ==
  LET whole == length \div MaxBlock
      rest == length % MaxBlock
  IN  [k \in 1 .. whole |-> MaxBlock] \o (IF rest = 0 THEN <<>> ELSE <<rest>>)

(* compress(): a single block needs no length of its own. *)
Compressed(length) ==
  LET blocks == Blocks(length)
      multi == Len(blocks) > 1
      packed == [k \in DOMAIN blocks |->
                   Lz4(blocks[k]) + (IF multi THEN BlockLengthSize ELSE 0)]
  IN  [header |-> Header(length), multi |-> multi, blocks |-> blocks,
       size |-> HeaderSize + MapThenSumSet(LAMBDA k : packed[k], DOMAIN blocks)]

(* Mutant: the buffer is as large as the length was rounded down to. *)
RoomRoundedDown(header, entrySize) ==
  LET room == header.mantissa * Shifted(header.exp)
  IN  room - (room % entrySize)

(* The size of the buffer to decompress into. *)
Room(header, entrySize) ==
  LET mul == Shifted(header.exp)
      room == header.mantissa * mul + (mul - 1)
  IN  room - (room % entrySize)

(* decompress(): the blocks one after the other, each into what is left of *)
(* the buffer.  What LZ4 answers is not looked at: a block that does not   *)
(* fit would lose the end of the record.                                   *)
Decompress(blob, length, entrySize) ==
  IF length < HeaderSize THEN <<>>
  ELSE IF ~blob.compressed THEN blob.entries
  ELSE LET room == Room(blob.header, entrySize)
           Before(k) == MapThenSumSet(LAMBDA j : blob.blocks[j], 1 .. k - 1)
       IN  IF \A k \in DOMAIN blob.blocks : blob.blocks[k] <= room - Before(k)
             THEN blob.entries ELSE SubSeq(blob.entries, 1, room \div entrySize)

-----------------------------------------------------------------------------
(* CompressedRecordFileWriter. *)

Create(number) ==
  [number |-> number, offsets |-> [i \in 0 .. number |-> 0], blobs |-> <<>>,
   written |-> 0, pending |-> <<>>, position |-> 8 * (number + 2)]

(* write_record(): an empty record takes no room. *)
WriteRecord(file, entries, entrySize) ==
  LET length == Len(entries) * entrySize
      packed == Compressed(length)
      shrinks == Percent > 0 /\ 100 * packed.size < length * Percent
      size == IF length = 0 THEN 0
              ELSE IF shrinks THEN packed.size ELSE HeaderSize + length
      blob == [compressed |-> shrinks, entries |-> entries, header |-> packed.header,
               multi |-> packed.multi, blocks |-> packed.blocks]
  IN  [file EXCEPT !.written = @ + 1,
                   !.pending = Append(@, file.position),
                   !.position = @ + size,
                   !.blobs = IF length = 0 THEN @
                             ELSE [p \in DOMAIN @ \cup {file.position} |->
                                     IF p = file.position THEN blob ELSE @[p]]]

(* close(): the offsets are written at the end, over the room left for     *)
(* them; it throws if a record is missing.                                 *)
CanClose(file) == file.written = file.number
Close(file) ==
  [file EXCEPT !.offsets = [i \in DOMAIN @ |->
                 IF i = file.number THEN file.position ELSE file.pending[i + 1]]]

-----------------------------------------------------------------------------
(* CompressedRecordFileReader::get_record(). *)

GetRecord(file, i, entrySize) ==
  LET offset == file.offsets[i]
      length == file.offsets[i + 1] - offset
  IN  IF length = 0 THEN <<>> ELSE Decompress(file.blobs[offset], length, entrySize)
=============================================================================
