----------------------------- MODULE Decryption ----------------------------
(***************************************************************************)
(* Decryption of an encrypted push (infrastructure/crypto/aes_decrypt.go). *)
(*                                                                         *)
(* AES-CBC itself is external: under a key of a legal length it turns the  *)
(* blocks after the IV into as many blocks of plaintext, any there are if  *)
(* the key or the data are wrong.  A payload is therefore whether it is    *)
(* Base64, how many bytes that yields, and what CBC makes of the bytes     *)
(* after the IV.                                                           *)
(***************************************************************************)
EXTENDS Integers, Sequences

BlockSize == 16     \* aes.BlockSize
Byte == 0..255

Failed(why) == [error |-> why, text |-> <<>>]

\* A wrong version: the padding bytes are not compared.
pkcs7UnpadUnchecked(data, blockSize) ==
    LET padLen == data[Len(data)]
    IN  IF data = <<>> THEN Failed("empty")
        ELSE IF padLen <= 0 \/ padLen > blockSize THEN Failed("padding")
        ELSE [error |-> "none", text |-> SubSeq(data, 1, Len(data) - padLen)]

\* The last byte says how many bytes of padding there are; each must say so.
pkcs7Unpad(data, blockSize) ==
    LET padLen == data[Len(data)]
    IN  IF data = <<>> THEN Failed("empty")
        ELSE IF padLen <= 0 \/ padLen > blockSize THEN Failed("padding")
        ELSE IF \E i \in Len(data) - padLen + 1 .. Len(data) : data[i] # padLen
             THEN Failed("padding")
        ELSE [error |-> "none", text |-> SubSeq(data, 1, Len(data) - padLen)]

\* 1 to blockSize bytes of padding, never none.
pkcs7Pad(data, blockSize) ==
    LET padLen == blockSize - (Len(data) % blockSize)
    IN  [i \in 1 .. Len(data) + padLen |-> IF i <= Len(data) THEN data[i] ELSE padLen]

\* The checks in their order; size counts the IV too.
DecryptPayload(payload, keyLen) ==
    IF keyLen \notin {16, 24, 32} THEN Failed("key")
    ELSE IF ~payload.base64 THEN Failed("base64")
    ELSE IF payload.size < BlockSize THEN Failed("short")
    ELSE IF (payload.size - BlockSize) % BlockSize # 0 THEN Failed("blocks")
    ELSE pkcs7Unpad(payload.plain, BlockSize)

-----------------------------------------------------------------------------
\* The payload reaches the cipher.
Readable(payload, keyLen) ==
    /\ keyLen \in {16, 24, 32}
    /\ payload.base64
    /\ payload.size >= BlockSize
    /\ (payload.size - BlockSize) % BlockSize = 0
=============================================================================
