---------------------------- MODULE MirrorBuffer ---------------------------
(***************************************************************************)
(* src/lib/lib/mirror_buffer.c: the decryption of the video stream.  The   *)
(* sender encrypts the payloads one after the other with one AES-CTR key   *)
(* stream.  The receiver runs its cipher in whole blocks only: of a last   *)
(* block that a payload fills in part it keeps the rest in og, for the     *)
(* beginning of the next payload.                                          *)
(*                                                                         *)
(* A byte is right when both sides use the same position of the key stream *)
(* for it, so the model keeps positions, not bytes: output[i] is the       *)
(* position that was xored onto byte i.                                    *)
(***************************************************************************)
EXTENDS Integers

CONSTANTS
  Length,         \* the lengths of payloads
  ShortPayloads,  \* payloads may be shorter than what is left of a block
  MaxPosition,    \* bounds the bytes of a stream
  MaxStreams      \* bounds the calls of mirror_buffer_init_aes

AES_128_BLOCK_SIZE == 16

ASSUME CipherAssumption ==
  /\ Length \subseteq Nat
  /\ ShortPayloads \in BOOLEAN
  /\ {MaxPosition, MaxStreams} \subseteq Nat

VARIABLES
  nextDecryptCount,  \* bytes of og that are still to be used
  og,         \* position of the key stream of og[0]
  consumed,   \* positions of the key stream aes_ctx has produced
  streams,    \* keys derived so far; 0 before mirror_buffer_init_aes
  position,   \* position at which the sender encrypts the next payload
  start,      \* history: where the sender encrypted the last payload,
  input,      \* history: its length
  output      \* history: and the positions that decrypted it

cipherVars == <<nextDecryptCount, og, consumed, streams, position, start, input, output>>

CipherInit ==
  /\ nextDecryptCount = 0 /\ og = 0 /\ consumed = 0 /\ streams = 0
  /\ position = 0 /\ start = 0 /\ input = 0 /\ output = [i \in {} |-> 0]

(* mirror_buffer_init_aes: a key and a counter of its own for every stream *)
InitAes ==
  /\ streams < MaxStreams
  /\ streams' = streams + 1
  /\ nextDecryptCount' = 0 /\ consumed' = 0 /\ position' = 0
  /\ start' = 0 /\ input' = 0 /\ output' = [i \in {} |-> 0]
  /\ UNCHANGED og

(* C's division and remainder, which round to zero.                        *)
BlocksOf(n) == IF n >= 0 THEN n \div AES_128_BLOCK_SIZE
               ELSE -((-n) \div AES_128_BLOCK_SIZE)
RestOf(n)   == n - BlocksOf(n) * AES_128_BLOCK_SIZE

(* What is kept of the block that a rest of n bytes begins.                *)
KeptOf(n) == IF n > 0 THEN AES_128_BLOCK_SIZE - n ELSE 0

(* The positions of the key stream for byte i: from og while there is some *)
(* left, then from the cipher.  (A mistake: og is used from its start.)    *)
LeftFromStart(i) == og + i
Left(i)  == og + AES_128_BLOCK_SIZE - nextDecryptCount + i
Whole(i) == consumed + i - nextDecryptCount

(* mirror_buffer_decrypt.  encryptlen is a multiple of the block size, so  *)
(* aes_ctr_start_fresh_block has nothing to skip.                          *)
Decrypt(inputLen) ==
  LET encryptlen == BlocksOf(inputLen - nextDecryptCount) * AES_128_BLOCK_SIZE
      restlen    == RestOf(inputLen - nextDecryptCount)
      reststart  == inputLen - restlen
      rest(i)    == consumed + encryptlen + i - reststart
  IN /\ streams > 0
     /\ position + inputLen <= MaxPosition
     /\ inputLen < nextDecryptCount => ShortPayloads
     /\ output' = [i \in 0 .. inputLen - 1 |->
                     IF restlen > 0 /\ i >= reststart THEN rest(i)
                     ELSE IF i >= nextDecryptCount THEN Whole(i) ELSE Left(i)]
     /\ nextDecryptCount' = KeptOf(restlen)
     /\ og' = IF restlen > 0 THEN consumed + encryptlen ELSE og
     /\ consumed' = consumed + encryptlen + (IF restlen > 0 THEN AES_128_BLOCK_SIZE ELSE 0)
     /\ position' = position + inputLen
     /\ start' = position /\ input' = inputLen
     /\ UNCHANGED streams

CipherNext == InitAes \/ \E inputLen \in Length : Decrypt(inputLen)

CipherSpec == CipherInit /\ [][CipherNext]_cipherVars

-----------------------------------------------------------------------------
(* Every variable has its type, and og holds less than a block.            *)
CipherTypeOK ==
  /\ nextDecryptCount \in 0 .. AES_128_BLOCK_SIZE - 1
  /\ {og, consumed, streams, position, start, input} \subseteq Nat
  /\ output \in [0 .. input - 1 -> Int]

(* Both sides are at the same place of the key stream: what the receiver's *)
(* cipher has produced beyond the sender's position is what og keeps.      *)
Synchronised ==
  /\ consumed = position + nextDecryptCount
  /\ nextDecryptCount > 0 => og + AES_128_BLOCK_SIZE = consumed

(* Every byte of a payload is decrypted with the position of the key       *)
(* stream the sender encrypted it with, wherever the borders between the   *)
(* payloads lie.                                                           *)
DecryptsStream == \A i \in 0 .. input - 1 : output[i] = start + i
=============================================================================
