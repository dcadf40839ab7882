------------------------------ MODULE Padding ------------------------------
(***************************************************************************)
(* Message padding (core/src/crypto/padding.rs; pad_payload and            *)
(* unpad_payload of core/src/metadata.rs call it with Standard): a byte    *)
(* string is extended to whole blocks,                                     *)
(*                                                                         *)
(*    prefix length | prefix noise | text | fill | length of the fill (2)  *)
(*                                                                         *)
(* where noise and fill are random, and so is how many blocks more than    *)
(* needed are filled.  encrypt_message pads and decrypt_message unpads.    *)
(***************************************************************************)
EXTENDS Integers, Sequences

Byte == 0..255

MAX_PREFIX == 8
MAX_PADDING_BYTES == 256 * 256 - 1
MAX_EXTRA_BLOCKS == 7

\* What unpad_message returns for a buffer that no pad_message made.
Invalid == "InvalidMessage"

\* Bytes besides the fill.
MinTotal(prefixLen, textLen) == 1 + prefixLen + textLen + 2

\* Bytes up to the next whole block.
MinPadLen(total, block) == IF total % block = 0 THEN 0 ELSE block - (total % block)

\* How many extra blocks may be drawn: as many as the length field has room for.
Cap(pad, block) ==
    LET budget == (IF pad <= MAX_PADDING_BYTES THEN MAX_PADDING_BYTES - pad ELSE 0) \div block
    IN  IF budget <= MAX_EXTRA_BLOCKS THEN budget ELSE MAX_EXTRA_BLOCKS

PadLen(total, block, extra) == MinPadLen(total, block) + extra * block

\* One outcome of the draws: the noise, and the number of extra blocks.
Draw(prefix, extra, textLen, block) ==
    /\ prefix \in Seq(Byte) /\ Len(prefix) \in 1..MAX_PREFIX
    /\ extra \in 0..Cap(MinPadLen(MinTotal(Len(prefix), textLen), block), block)

\* pad_message goes on: the fill fits the length field.
Fits(prefix, extra, textLen, block) ==
    PadLen(MinTotal(Len(prefix), textLen), block, extra) <= MAX_PADDING_BYTES

PadMessage(text, prefix, fill) ==
    <<Len(prefix)>> \o prefix \o text \o fill \o
        <<Len(fill) % 256, (Len(fill) \div 256) % 256>>

UnpadMessage(padded) ==
    LET n == Len(padded)
        prefixLen == padded[1]
        padLen == padded[n - 1] + 256 * padded[n]
        textLen == n - MinTotal(prefixLen, padLen)
    IN  IF n < 4 THEN Invalid
        ELSE IF prefixLen \notin 1..MAX_PREFIX \/ MinTotal(prefixLen, 0) > n THEN Invalid
        ELSE IF textLen < 0 THEN Invalid
        ELSE SubSeq(padded, prefixLen + 2, prefixLen + 1 + textLen)

=============================================================================
