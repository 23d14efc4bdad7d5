------------------------------ MODULE NoteLink ------------------------------
(***************************************************************************)
(* The share link: what encryptMessage and decryptMessage of               *)
(* static/crypto.js compute and how static/link.js puts it into a URL and  *)
(* reads it back.  Operators only, used by both pages.                     *)
(*                                                                         *)
(* Cryptography is symbolic.  A byte string is a term and its size: only   *)
(* the matching private key opens an RSA-OAEP term, and only the matching  *)
(* AES key and IV open a GCM term.  An encoded string is the bytes it      *)
(* decodes to, its number of characters, and whether all of them belong    *)
(* to the alphabet.  An exception is the term Throws.                      *)
(***************************************************************************)
EXTENDS Integers, FiniteSetsExt

CONSTANT OriginLength   \* characters of window.location.origin

ASSUME OriginAssumption == OriginLength \in Nat

Bytes(term, size) == [is |-> term, size |-> size]
Throws  == Bytes(<<"throws">>, 0)
Garbage == Bytes(<<"garbage">>, 0)

(* The UTF-8 bytes of a plaintext.                                         *)
Text(name, size) == Bytes(<<"text", name>>, size)

-----------------------------------------------------------------------------
(* btoa: four characters for every three bytes begun, '=' in the last ones. *)
Base64Length(n) == 4 * ((n + 2) \div 3)
Padding(n)      == (3 - (n % 3)) % 3

ChunkSizeForPlaintext(n) ==
  CASE n <= 128 -> 128 [] n > 128 /\ n <= 2048 -> 2048 [] OTHER -> 32768

(* Faulty variant of BinaryLength: the loop stops before the last chunk. *)
WholeChunksLength(n, chunkSize) == (n \div chunkSize) * chunkSize

(* The bytes of the binary string that the loop of bytesToBase64 builds.   *)
BinaryLength(n, chunkSize) ==
  MapThenSumSet(LAMBDA k : Min({chunkSize, n - k * chunkSize}), 0..((n - 1) \div chunkSize))

(* bytesToBase64: btoa of a binary string with every byte in it.           *)
BytesToBase64(b, chunkSize) ==
  LET n == BinaryLength(b.size, chunkSize)
  IN  [bytes |-> IF n = b.size THEN b ELSE Garbage, len |-> Base64Length(n), clean |-> Padding(n) = 0]

(* Faulty variant of BytesToBase64URL: the padding is not removed. *)
BytesToPaddedBase64(b, chunkSize) == BytesToBase64(b, chunkSize)

BytesToBase64URL(b, chunkSize) ==
  [BytesToBase64(b, chunkSize) EXCEPT !.len = @ - Padding(BinaryLength(b.size, chunkSize)), !.clean = TRUE]

(* base64ToBytes pads to a multiple of four; atob takes two '=' at most.   *)
PadLength(len) == IF len % 4 = 0 THEN 0 ELSE 4 - (len % 4)
Base64ToBytes(s) == IF PadLength(s.len) > 2 THEN Throws ELSE s.bytes

Base64URLToBytes(s) == IF s.len = 0 \/ ~s.clean THEN Throws ELSE Base64ToBytes(s)

-----------------------------------------------------------------------------
(* The PEM blocks that generateKey of the server makes for key k, with the *)
(* DER sizes of a 4096-bit key.                                            *)
Pem(label, b) == [label |-> label, body |-> [bytes |-> b, len |-> Base64Length(b.size), clean |-> TRUE]]
PublicPem(k)  == Pem("PUBLIC KEY", Bytes(<<"spki", k>>, 550))
PrivatePem(k) == Pem("PRIVATE KEY", Bytes(<<"pkcs8", k>>, 2376))

PemToBytes(pem, label) ==
  IF pem.label # label \/ pem.body.len = 0 THEN Throws ELSE Base64ToBytes(pem.body)

(* importRsaPublicKey and importRsaPrivateKey: the format must match.      *)
ImportRsaPublicKey(pem)  == PemToBytes(pem, "PUBLIC KEY").is
ImportRsaPrivateKey(pem) == PemToBytes(pem, "PRIVATE KEY").is

(* r stands for what this call draws: the AES key and the IV.              *)
GenerateAesKey(r) == Bytes(<<"aes", r>>, 32)
RandomIV(r)       == Bytes(<<"iv", r>>, 12)

Oaep(k, b)     == Bytes(<<"oaep", k, b>>, 512)
Gcm(key, iv, b) == Bytes(<<"gcm", key, iv, b>>, b.size + 16)

EncryptMessage(pubPem, text, r) ==
  LET publicKey == ImportRsaPublicKey(pubPem)
      chunkSize == ChunkSizeForPlaintext(text.size)
      aesKey    == GenerateAesKey(r)
  IN  [wrapped |-> BytesToBase64URL(Oaep(publicKey[2], aesKey), chunkSize),
       iv      |-> BytesToBase64URL(RandomIV(r), chunkSize),
       ct      |-> BytesToBase64URL(Gcm(aesKey, RandomIV(r), text), chunkSize)]

(* crypto.subtle.decrypt of RSA-OAEP and of AES-GCM.                       *)
OaepOpen(privateKey, b) ==
  IF privateKey[1] = "pkcs8" /\ b.is[1] = "oaep" /\ b.is[2] = privateKey[2] THEN b.is[3] ELSE Throws

(* Faulty variant of GcmOpen: a cipher mode without authentication. *)
CtrOpen(aesKey, iv, b) ==
  IF b.is[1] = "gcm" /\ b.is[2] = aesKey /\ b.is[3] = iv THEN b.is[4] ELSE Garbage

GcmOpen(aesKey, iv, b) ==
  IF b.is[1] = "gcm" /\ b.is[2] = aesKey /\ b.is[3] = iv THEN b.is[4] ELSE Throws

(* Any of its steps may throw: the first one that does ends the call.      *)
DecryptMessage(privPem, f) ==
  LET aesKey == OaepOpen(ImportRsaPrivateKey(privPem), Base64URLToBytes(f.wrapped))
  IN  IF aesKey = Throws THEN Throws
      ELSE GcmOpen(aesKey, Base64URLToBytes(f.iv), Base64URLToBytes(f.ct))

-----------------------------------------------------------------------------
(* A parameter or query that is not there.                                 *)
Absent == [bytes |-> Throws, len |-> 0, clean |-> FALSE]
NoData == [wrapped |-> Absent, iv |-> Absent, ct |-> Absent]

(* randomID of the server: 128 bits in hexadecimal.                        *)
HexId(id) == [bytes |-> Bytes(<<"id", id>>, 16), len |-> 32, clean |-> TRUE]

(* Faulty variant of BuildShareURL: the data goes before the '#' as well. *)
BuildQueryURL(id, e) ==
  [path |-> HexId(id), query |-> e, hash |-> [v |-> "1", w |-> e.wrapped, i |-> e.iv, c |-> e.ct]]

BuildShareURL(id, e) ==
  [path |-> HexId(id), query |-> NoData,
   hash |-> [v |-> "1", w |-> e.wrapped, i |-> e.iv, c |-> e.ct]]

(* Its characters: "/share/", the id, and the names of the parameters.      *)
LinkLength(url) ==
  OriginLength + 7 + url.path.len + 7 + url.hash.w.len + 3 + url.hash.i.len + 3 + url.hash.c.len

(* Faulty variant of Base64URLLength: the length is rounded down. *)
Base64URLFloor(n) == (n * 4) \div 3

Base64URLLength(n) == (n * 4 + 2) \div 3
EstimateLinkLength(n) == OriginLength + 7 + 32 + 7 + 683 + 3 + 16 + 3 + Base64URLLength(n + 16)

QrCapacity == 2331

(* What a browser sends of a URL, and what splitShareURL says it sends.    *)
Requested(url)     == {url.path, url.query.wrapped, url.query.iv, url.query.ct} \ {Absent}
SplitShareURL(url) == [sent |-> {url.path}, kept |-> url.hash]

(* parseFragment: NoData stands for the error it throws.  An absent        *)
(* parameter and an empty one are alike, and so are no hash and no version. *)
ParseFragment(h) ==
  IF h.v # "1" \/ \E s \in {h.w, h.i, h.c} : s.len = 0 \/ ~s.clean
    THEN NoData
    ELSE [wrapped |-> h.w, iv |-> h.i, ct |-> h.c]
=============================================================================
