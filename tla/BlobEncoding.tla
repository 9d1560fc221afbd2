---------------------------- MODULE BlobEncoding ----------------------------
(***************************************************************************)
(* The format in which batcher data lies in a blob, and its decoder,       *)
(* decode_blob_data of src/l1/blob_encoding.rs.                            *)
(*                                                                         *)
(* A blob is a sequence of field elements of 32 bytes.  The first byte of  *)
(* an element has only six usable bits; the other 31 carry a byte each.    *)
(* Four elements are a round: their 4 x 31 bytes and the three bytes that  *)
(* the 4 x 6 bits make are the 127 bytes of data of a round.  The first    *)
(* element also carries the version and the length and so holds 27 bytes   *)
(* of data instead of 31.                                                  *)
(*                                                                         *)
(* Bytes are numbers in 0..255; blobs and outputs are functions from an    *)
(* offset (0 based, as in the code) to a byte.  The number of rounds is    *)
(* 1024 in the code and the only size that is scaled.                      *)
(***************************************************************************)
EXTENDS Integers, Sequences, SequencesExt

CONSTANT ROUNDS

ASSUME RoundsAssumption == ROUNDS \in Nat \ {0}

FIELD_ELEMENT == 32
BLOB_SIZE == 4 * FIELD_ELEMENT * ROUNDS
MAX_BLOB_DATA_SIZE == (4 * 31 + 3) * ROUNDS - 4
VERSION_OFFSET == 1
ENCODING_VERSION == 0

(* What decode_blob_data returns when it bails out. *)
Invalid == [ok |-> FALSE]

---------------------------------------------------------------------------
(* decode_blob_data.  A decoder state d has the code's local variables:    *)
(* ip is input_pos, op is output_pos, out is output, enc is encoded_byte,  *)
(* and ok is FALSE once a field element was refused.                       *)

(* decode_field_element: 31 bytes are copied, the first byte is returned   *)
(* (here: appended to enc).                                                *)
decode_field_element(d, blob) ==
  IF ~d.ok \/ blob[d.ip] >= 64
  THEN [d EXCEPT !.ok = FALSE]
  ELSE [d EXCEPT !.enc = Append(@, blob[d.ip]),
                 !.out = [j \in DOMAIN @ |-> IF j \in d.op .. d.op + 30
                                             THEN blob[d.ip + 1 + j - d.op]
                                             ELSE @[j]],
                 !.op = @ + 32,
                 !.ip = @ + 32]

(* 4 x 6 bits are three bytes. *)
Reassembled(e) ==
  << (e[1] % 64) + 64 * ((e[2] \div 16) % 4),
     (e[2] % 16) + 16 * (e[4] % 16),
     (e[3] % 64) + 64 * ((e[4] \div 16) % 4) >>

(* reassemble_bytes: the three bytes fill the gaps between the four runs   *)
(* of 31 bytes, and the next round starts right behind the last run.       *)
reassemble_bytes(d) ==
  IF ~d.ok
  THEN d
  ELSE LET pos == d.op - 1
           xyz == Reassembled(d.enc)
       IN [d EXCEPT !.op = pos,
                    !.enc = << >>,
                    !.out = [@ EXCEPT ![pos - 32] = xyz[3],
                                      ![pos - 64] = xyz[2],
                                      ![pos - 96] = xyz[1]]]

(* The elements of one round: three more in the first one, four afterwards *)
RoundOf(d, blob, elements) ==
  reassemble_bytes(
    FoldLeft(LAMBDA acc, i : decode_field_element(acc, blob), d,
             [i \in 1..elements |-> i]))

(* The loop over the rounds, which ends early once output_len bytes are    *)
(* there.                                                                  *)
MoreRounds(d, blob, len) ==
  FoldLeft(LAMBDA acc, r : IF acc.op >= len THEN acc ELSE RoundOf(acc, blob, 4),
           d, [r \in 1 .. ROUNDS - 1 |-> r])

FirstElement(blob) ==
  [ok |-> TRUE, ip |-> 32, op |-> 28, enc |-> << blob[0] >>,
   out |-> [j \in 0 .. MAX_BLOB_DATA_SIZE - 1 |->
              IF j < 27 THEN blob[5 + j] ELSE 0]]

(* The mutation: the part of the blob that was not read is not looked at. *)
Extraneous_OutputOnly(d, blob, len) ==
  \E j \in len .. MAX_BLOB_DATA_SIZE - 1 : d.out[j] # 0

(* Nothing may follow the data: neither in the decoded output beyond its   *)
(* length nor in the part of the blob that was not read.                   *)
Extraneous(d, blob, len) ==
  \/ \E j \in len .. MAX_BLOB_DATA_SIZE - 1 : d.out[j] # 0
  \/ \E p \in d.ip .. BLOB_SIZE - 1 : blob[p] # 0

decode_blob_data(blob) ==
  LET len == 65536 * blob[2] + 256 * blob[3] + blob[4]
      d == MoreRounds(RoundOf(FirstElement(blob), blob, 3), blob, len)
  IN IF \/ blob[VERSION_OFFSET] # ENCODING_VERSION
        \/ len > MAX_BLOB_DATA_SIZE
        \/ ~d.ok
        \/ Extraneous(d, blob, len)
     THEN Invalid
     ELSE [ok |-> TRUE, data |-> [i \in 1..len |-> d.out[i - 1]]]

---------------------------------------------------------------------------
(* The format itself, stated per byte of the blob and independently of the *)
(* decoder's loops.  (The encoder is the batcher's; it is not part of this *)
(* repository.)                                                            *)

(* In which round, and where in it, the data byte k of a full stream is.   *)
(* The stream is the data preceded by the four bytes of version and length *)
StreamByte(data, k) ==
  CASE k = 0 -> ENCODING_VERSION
    [] k = 1 -> Len(data) \div 65536
    [] k = 2 -> (Len(data) \div 256) % 256
    [] k = 3 -> Len(data) % 256
    [] OTHER -> IF k - 3 <= Len(data) THEN data[k - 3] ELSE 0

(* Round r holds the 127 stream bytes from 127 * r on.  They are laid out  *)
(* as 31 bytes, x, 31 bytes, y, 31 bytes, z, 31 bytes; x, y and z go into  *)
(* the first bytes of the four elements, six bits each.                    *)
EncodedByte(data, p) ==
  LET r == p \div 128
      e == (p % 128) \div 32
      o == p % 32
      S(k) == StreamByte(data, 127 * r + k)
      x == S(31)
      y == S(63)
      z == S(95)
  IN IF o # 0
     THEN S(32 * e + o - 1)
     ELSE CASE e = 0 -> x % 64
            [] e = 1 -> (y % 16) + 16 * (x \div 64)
            [] e = 2 -> z % 64
            [] e = 3 -> (y \div 16) + 16 * (z \div 64)

EncodeBlob(data) == [p \in 0 .. BLOB_SIZE - 1 |-> EncodedByte(data, p)]
=============================================================================
