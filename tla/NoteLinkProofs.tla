--------------------------- MODULE NoteLinkProofs ---------------------------
(***************************************************************************)
(* Proofs about the link for notes of every size: base64 loses no byte,    *)
(* its length is the one the create page predicts, and what was encrypted  *)
(* for a key is decrypted with it.                                         *)
(*                                                                         *)
(* bytesToBase64 is a loop, in NoteLink a sum over the chunks of the note. *)
(* Its value is found by induction over the sets of chunks, stated as the  *)
(* absence of a smallest counterexample.                                   *)
(***************************************************************************)
EXTENDS NoteLink, FiniteSetTheorems, TLAPS

Chunks == {128, 2048, 32768}

-----------------------------------------------------------------------------
(* Among sets of subsets of a finite set one is smallest by inclusion.     *)
LEMMA SmallestSubset ==
  ASSUME NEW K, IsFiniteSet(K), NEW D, D \subseteq SUBSET K, D # {}
  PROVE  \E s \in D : \A t \in D : t \subseteq s => t = s
<1>1. IsWellFoundedOn(StrictSubsetOrdering(K), SUBSET K)
  BY FS_StrictSubsetOrderingWellFounded, FS_FiniteSubsetsOfFinite
<1>2. PICK s \in D : \A t \in D : ~(<<t, s>> \in StrictSubsetOrdering(K))
  BY <1>1, WFMin
<1>3. \A t \in D : t \subseteq s => t = s
  BY <1>2 DEF StrictSubsetOrdering
<1> QED
  BY <1>3

(* Math.min of two numbers.                                                *)
LEMMA MinOfTwo ==
  ASSUME NEW a \in Int, NEW b \in Int
  PROVE  Min({a, b}) = IF a < b THEN a ELSE b
<1> DEFINE m == IF a < b THEN a ELSE b
<1>1. m \in {a, b} /\ \A y \in {a, b} : m =< y
  OBVIOUS
<1>2. \A x \in {a, b} : (\A y \in {a, b} : x =< y) => x = m
  OBVIOUS
<1> HIDE DEF m
<1>3. Min({a, b}) = m
  BY <1>1, <1>2 DEF Min
<1> QED
  BY <1>3 DEF m

(* The chunks 0..m of n bytes: all are full but the last one.              *)
LEMMA ChunkArithmetic ==
  ASSUME NEW n \in Nat, NEW c \in Chunks
  PROVE  LET m == (n - 1) \div c
         IN  /\ c \in Nat /\ m \in Int /\ m >= -1 /\ m * c \in Int
             /\ n - m * c <= c
             /\ \A k \in 0..m : k * c \in Int /\ (k # m => n - k * c >= c)
<1>1. CASE c = 128
  BY <1>1, SMT
<1>2. CASE c = 2048
  BY <1>2, SMT
<1>3. CASE c = 32768
  BY <1>3, SMT
<1> QED
  BY <1>1, <1>2, <1>3 DEF Chunks

(* The loop of bytesToBase64 copies every byte, for every size of the data *)
(* and every chunk size in use.                                            *)
LEMMA EveryByteCopied ==
  ASSUME NEW n \in Nat, NEW c \in Chunks
  PROVE  BinaryLength(n, c) = n
<1> DEFINE m == (n - 1) \div c
           K == 0..m
           x(s) == CHOOSE x \in s : TRUE
           B(k) == Min({c, n - k * c})
           Sum(g) == [s \in SUBSET K |-> IF s = {} THEN 0 ELSE B(x(s)) + g[s \ {x(s)}]]
           iter == CHOOSE g : g = Sum(g)
           short == (m + 1) * c - n
           W == [s \in SUBSET K |-> c * Cardinality(s) - (IF m \in s THEN short ELSE 0)]
<1>1. BinaryLength(n, c) = iter[K]
  BY Zenon DEF BinaryLength, MapThenSumSet, MapThenFoldSet
<1>2. /\ c \in Nat /\ m \in Int /\ m >= -1 /\ m * c \in Int /\ n - m * c <= c
      /\ \A k \in K : k * c \in Int /\ (k # m => n - k * c >= c)
  BY ChunkArithmetic
<1> HIDE DEF m
<1>3. short \in Int /\ short = m * c + c - n
  BY <1>2
<1>4. ASSUME NEW k \in K
      PROVE  B(k) = IF k = m THEN c - short ELSE c
  <2>1. B(k) = IF c < n - k * c THEN c ELSE n - k * c
    BY <1>2, MinOfTwo
  <2> HIDE DEF B, short, K
  <2>2. CASE k = m
    BY <1>2, <1>3, <2>1, <2>2
  <2>3. CASE k # m
    <3>1. n - k * c >= c /\ k * c \in Int
      BY <1>2, <2>3
    <3> QED
      BY <1>2, <2>1, <2>3, <3>1
  <2> QED
    BY <2>2, <2>3
<1>5. IsFiniteSet(K) /\ Cardinality(K) = m + 1
  BY <1>2, FS_Interval
<1> HIDE DEF short, B
<1>6. ASSUME NEW s \in SUBSET K
      PROVE  IsFiniteSet(s) /\ Cardinality(s) \in Nat
  BY <1>5, FS_Subset, FS_CardinalityType
<1>7. W[{}] = 0
  BY <1>2, FS_EmptySet
<1>8. ASSUME NEW s \in SUBSET K, NEW k \in s
      PROVE  W[s] = B(k) + W[s \ {k}]
  <2>1. Cardinality(s \ {k}) = Cardinality(s) - 1
    BY <1>6, FS_RemoveElement
  <2>2. c * Cardinality(s \ {k}) = c * Cardinality(s) - c /\ c * Cardinality(s) \in Int
    BY <1>2, <1>6, <2>1
  <2>3. /\ W[s] = c * Cardinality(s) - (IF m \in s THEN short ELSE 0)
        /\ W[s \ {k}] = c * Cardinality(s \ {k}) - (IF m \in s /\ m # k THEN short ELSE 0)
    OBVIOUS
  <2>4. k \in K
    OBVIOUS
  <2> QED
    BY <1>2, <1>3, <1>4, <2>2, <2>3, <2>4
<1> HIDE DEF K
<1>9. \A s \in SUBSET K : s # {} => x(s) \in s
  OBVIOUS
<1> HIDE DEF x
<1>10. W = Sum(W)
  <2>1. ASSUME NEW s \in SUBSET K
        PROVE  W[s] = IF s = {} THEN 0 ELSE B(x(s)) + W[s \ {x(s)}]
    BY <1>7, <1>8, <1>9
  <2>2. W = [s \in SUBSET K |-> W[s]]
    OBVIOUS
  <2> HIDE DEF W
  <2> QED
    BY <2>1, <2>2
<1> HIDE DEF W
<1>11. iter = Sum(iter)
  <2> HIDE DEF Sum
  <2> QED
    BY <1>10
<1> HIDE DEF iter
<1>12. \A s \in SUBSET K : iter[s] = IF s = {} THEN 0 ELSE B(x(s)) + iter[s \ {x(s)}]
  BY <1>11
<1> HIDE DEF Sum
<1>13. \A s \in SUBSET K : iter[s] = W[s]
  <2> DEFINE D == {s \in SUBSET K : iter[s] # W[s]}
  <2> SUFFICES ASSUME D # {}
               PROVE  FALSE
    OBVIOUS
  <2>0. D \subseteq SUBSET K
    OBVIOUS
  <2> HIDE DEF D
  <2>1. PICK s \in D : \A t \in D : t \subseteq s => t = s
    BY <1>5, <2>0, SmallestSubset
  <2>2. s \in SUBSET K /\ iter[s] # W[s]
    BY <2>1 DEF D
  <2>3. s # {}
    BY <1>7, <1>12, <2>2
  <2>4. x(s) \in s
    BY <1>9, <2>2, <2>3
  <2>5. s \ {x(s)} \in SUBSET K /\ s \ {x(s)} # s /\ s \ {x(s)} \subseteq s
    BY <2>2, <2>4
  <2>6. iter[s \ {x(s)}] = W[s \ {x(s)}]
    BY <2>1, <2>5 DEF D
  <2>7. iter[s] = B(x(s)) + iter[s \ {x(s)}] /\ W[s] = B(x(s)) + W[s \ {x(s)}]
    BY <1>8, <1>12, <2>2, <2>3, <2>4
  <2> QED
    BY <2>2, <2>6, <2>7
<1>14. W[K] = c * (m + 1) - (IF m \in K THEN short ELSE 0)
  BY <1>5 DEF W
<1>15. m >= 0 => m \in K
  BY <1>2 DEF K
<1>16. m = -1 => m \notin K /\ n = 0
  BY <1>2 DEF K
<1> QED
  BY <1>1, <1>2, <1>3, <1>13, <1>14, <1>15, <1>16

-----------------------------------------------------------------------------
(* base64: what is encoded or decoded is the bytes or nothing of use.      *)
LEMMA Encoded ==
  ASSUME NEW b, NEW chunkSize
  PROVE  LET n == BinaryLength(b.size, chunkSize)
         IN  BytesToBase64URL(b, chunkSize) = [bytes |-> IF n = b.size THEN b ELSE Garbage,
                                               len   |-> Base64Length(n) - Padding(n),
                                               clean |-> TRUE]
<1> DEFINE e == BytesToBase64(b, chunkSize)
           n == BinaryLength(b.size, chunkSize)
<1>1. e = [bytes |-> IF n = b.size THEN b ELSE Garbage, len |-> Base64Length(n), clean |-> Padding(n) = 0]
  BY DEF BytesToBase64
<1>2. BytesToBase64URL(b, chunkSize) = [e EXCEPT !.len = @ - Padding(n), !.clean = TRUE]
  BY DEF BytesToBase64URL
<1> HIDE DEF e, n
<1>3. BytesToBase64URL(b, chunkSize) = [bytes |-> IF n = b.size THEN b ELSE Garbage,
                                        len   |-> Base64Length(n) - Padding(n),
                                        clean |-> TRUE]
  BY <1>1, <1>2
<1> QED
  BY <1>3 DEF n

(* Base64 without its padding has the length base64URLLength predicts, and *)
(* base64ToBytes can pad it again.                                         *)
LEMMA EncodedLength ==
  ASSUME NEW n \in Nat
  PROVE  LET l == Base64Length(n) - Padding(n)
         IN  /\ l = Base64URLLength(n) /\ l \in Nat /\ PadLength(l) <= 2
             /\ n > 0 => l > 0
<1>1. PICK q \in Nat, r \in 0..2 : n = 3 * q + r
  <2>1. n \div 3 \in Nat /\ n % 3 \in 0..2 /\ n = 3 * (n \div 3) + (n % 3)
    BY SMT
  <2> QED
    BY <2>1
<1>2. CASE r = 0
  <2>1. Base64Length(n) = 4 * q /\ Padding(n) = 0 /\ Base64URLLength(n) = 4 * q /\ PadLength(4 * q) = 0
    BY <1>1, <1>2, SMT DEF Base64Length, Padding, Base64URLLength, PadLength
  <2> QED
    BY <1>1, <1>2, <2>1, SMT
<1>3. CASE r = 1
  <2>1. /\ Base64Length(n) = 4 * q + 4 /\ Padding(n) = 2 /\ Base64URLLength(n) = 4 * q + 2
        /\ PadLength(4 * q + 2) = 2
    BY <1>1, <1>3, SMT DEF Base64Length, Padding, Base64URLLength, PadLength
  <2> QED
    BY <2>1, SMT
<1>4. CASE r = 2
  <2>1. /\ Base64Length(n) = 4 * q + 4 /\ Padding(n) = 1 /\ Base64URLLength(n) = 4 * q + 3
        /\ PadLength(4 * q + 3) = 1
    BY <1>1, <1>4, SMT DEF Base64Length, Padding, Base64URLLength, PadLength
  <2> QED
    BY <2>1, SMT
<1> QED
  BY <1>1, <1>2, <1>3, <1>4

(* What bytesToBase64URL makes of data, base64URLToBytes turns back.       *)
LEMMA RoundTrip ==
  ASSUME NEW b, b.size \in Nat \ {0}, NEW c \in Chunks
  PROVE  LET s == BytesToBase64URL(b, c)
         IN  /\ s.len = Base64URLLength(b.size) /\ s.len # 0 /\ s.len \in Nat /\ s.clean = TRUE
             /\ Base64URLToBytes(s) = b
<1> DEFINE n == b.size
           l == Base64Length(n) - Padding(n)
           yes == TRUE
<1>1. BinaryLength(n, c) = n
  BY EveryByteCopied
<1>2. BytesToBase64URL(b, c) = [bytes |-> b, len |-> l, clean |-> yes]
  BY <1>1, Encoded
<1>3. l = Base64URLLength(n) /\ l \in Nat /\ PadLength(l) <= 2 /\ l # 0 /\ PadLength(l) \in Int
  <2>1. PadLength(l) \in Int
    BY EncodedLength DEF PadLength
  <2> QED
    BY <2>1, EncodedLength
<1>4. yes = TRUE
  OBVIOUS
<1> DEFINE s == BytesToBase64URL(b, c)
<1> HIDE DEF n, l, yes, s
<1>5. s.bytes = b /\ s.len = l /\ s.clean = yes
  BY <1>2 DEF s
<1>6. Base64URLToBytes(s) = b
  BY <1>3, <1>4, <1>5 DEF Base64URLToBytes, Base64ToBytes
<1> QED
  BY <1>3, <1>4, <1>5, <1>6 DEF s, n

-----------------------------------------------------------------------------
(* The PEM blocks of the server import as the keys they hold.              *)
LEMMA Imported ==
  ASSUME NEW k
  PROVE  ImportRsaPublicKey(PublicPem(k)) = <<"spki", k>> /\ ImportRsaPrivateKey(PrivatePem(k)) = <<"pkcs8", k>>
<1> DEFINE pub  == Bytes(<<"spki", k>>, 550)
           priv == Bytes(<<"pkcs8", k>>, 2376)
           public  == "PUBLIC KEY"
           private == "PRIVATE KEY"
           l1 == Base64Length(550)
           l2 == Base64Length(2376)
<1>1. l1 # 0 /\ ~(PadLength(l1) > 2) /\ l2 # 0 /\ ~(PadLength(l2) > 2)
  BY SMT DEF Base64Length, PadLength
<1>2. /\ pub.size = 550 /\ pub.is = <<"spki", k>>
      /\ priv.size = 2376 /\ priv.is = <<"pkcs8", k>>
  BY SMT DEF Bytes
<1>3. /\ PublicPem(k) = Pem(public, pub) /\ PrivatePem(k) = Pem(private, priv)
      /\ ImportRsaPublicKey(PublicPem(k)) = PemToBytes(PublicPem(k), public).is
      /\ ImportRsaPrivateKey(PrivatePem(k)) = PemToBytes(PrivatePem(k), private).is
  <2> HIDE DEF pub, priv
  <2> QED
    BY Zenon DEF PublicPem, PrivatePem, ImportRsaPublicKey, ImportRsaPrivateKey, pub, priv
<1> HIDE DEF public, private
<1>4. /\ PublicPem(k).label = public /\ PublicPem(k).body.len = l1 /\ PublicPem(k).body.bytes = pub
      /\ PrivatePem(k).label = private /\ PrivatePem(k).body.len = l2 /\ PrivatePem(k).body.bytes = priv
  <2> HIDE DEF pub, priv
  <2> QED
    BY <1>2, <1>3, SMT DEF Pem
<1> HIDE DEF pub, priv, l1, l2
<1>5. PemToBytes(PublicPem(k), public) = pub /\ PemToBytes(PrivatePem(k), private) = priv
  BY <1>1, <1>4 DEF PemToBytes, Base64ToBytes
<1> QED
  BY <1>2, <1>3, <1>5, SMT

LEMMA ChunkInUse ==
  ASSUME NEW n \in Nat
  PROVE  ChunkSizeForPlaintext(n) \in Chunks
BY SMT DEF ChunkSizeForPlaintext, Chunks

(* What encryptMessage makes of a text: three strings of the alphabet      *)
(* that decode to the wrapped key, the IV and the ciphertext.              *)
LEMMA Encryption ==
  ASSUME NEW k, NEW r, NEW text, text.size \in Nat
  PROVE  LET e == EncryptMessage(PublicPem(k), text, r)
         IN  /\ Base64URLToBytes(e.wrapped) = Oaep(k, GenerateAesKey(r)) /\ e.wrapped.len # 0 /\ e.wrapped.clean = TRUE
             /\ Base64URLToBytes(e.iv) = RandomIV(r) /\ e.iv.len # 0 /\ e.iv.clean = TRUE
             /\ Base64URLToBytes(e.ct) = Gcm(GenerateAesKey(r), RandomIV(r), text) /\ e.ct.len # 0 /\ e.ct.clean = TRUE
             /\ e.wrapped.len = Base64URLLength(Oaep(k, GenerateAesKey(r)).size)
             /\ e.iv.len = Base64URLLength(RandomIV(r).size)
             /\ e.ct.len = Base64URLLength(Gcm(GenerateAesKey(r), RandomIV(r), text).size)
<1> DEFINE c   == ChunkSizeForPlaintext(text.size)
           w   == Oaep(k, GenerateAesKey(r))
           iv  == RandomIV(r)
           ct  == Gcm(GenerateAesKey(r), RandomIV(r), text)
           e   == EncryptMessage(PublicPem(k), text, r)
<1>1. c \in Chunks
  BY ChunkInUse
<1>2. w.size = 512 /\ iv.size = 12 /\ ct.size = text.size + 16
  BY SMT DEF Oaep, RandomIV, Gcm, Bytes
<1>3. e = [wrapped |-> BytesToBase64URL(w, c), iv |-> BytesToBase64URL(iv, c), ct |-> BytesToBase64URL(ct, c)]
  <2>1. ImportRsaPublicKey(PublicPem(k))[2] = k
    BY Imported
  <2> QED
    BY <2>1 DEF EncryptMessage
<1> HIDE DEF c, w, iv, ct, e
<1>4. /\ e.wrapped = BytesToBase64URL(w, c)
      /\ e.iv = BytesToBase64URL(iv, c)
      /\ e.ct = BytesToBase64URL(ct, c)
  BY <1>3
<1>5. w.size \in Nat \ {0} /\ iv.size \in Nat \ {0} /\ ct.size \in Nat \ {0}
  BY <1>2, SMT
<1>6. /\ e.wrapped.len = Base64URLLength(w.size) /\ e.wrapped.len # 0 /\ e.wrapped.clean = TRUE
      /\ Base64URLToBytes(e.wrapped) = w
      /\ e.iv.len = Base64URLLength(iv.size) /\ e.iv.len # 0 /\ e.iv.clean = TRUE
      /\ Base64URLToBytes(e.iv) = iv
      /\ e.ct.len = Base64URLLength(ct.size) /\ e.ct.len # 0 /\ e.ct.clean = TRUE
      /\ Base64URLToBytes(e.ct) = ct
  BY <1>1, <1>4, <1>5, RoundTrip
<1> QED
  BY <1>6 DEF e, w, iv, ct

(* The fragment of the link built for an encryption.                       *)
LEMMA FragmentOfLink ==
  ASSUME NEW id, NEW k, NEW r, NEW text, text.size \in Nat
  PROVE  LET e == EncryptMessage(PublicPem(k), text, r)
         IN  /\ ParseFragment(BuildShareURL(id, e).hash) = [wrapped |-> e.wrapped, iv |-> e.iv, ct |-> e.ct]
             /\ ParseFragment(BuildShareURL(id, e).hash) # NoData
<1> DEFINE e == EncryptMessage(PublicPem(k), text, r)
           h == BuildShareURL(id, e).hash
<1>1. /\ e.wrapped.len # 0 /\ e.wrapped.clean = TRUE
      /\ e.iv.len # 0 /\ e.iv.clean = TRUE
      /\ e.ct.len # 0 /\ e.ct.clean = TRUE
  BY Encryption, Zenon
<1> HIDE DEF e
<1>2. h.v = "1" /\ h.w = e.wrapped /\ h.i = e.iv /\ h.c = e.ct
  BY DEF BuildShareURL
<1> HIDE DEF h
<1>3. ParseFragment(h) = [wrapped |-> e.wrapped, iv |-> e.iv, ct |-> e.ct]
  BY <1>1, <1>2 DEF ParseFragment
<1>4. e.wrapped # Absent
  <2>1. Absent.len = 0
    BY DEF Absent
  <2> QED
    BY <1>1, <2>1
<1>5. ParseFragment(h) # NoData
  BY <1>3, <1>4 DEF NoData
<1> QED
  BY <1>3, <1>5 DEF h, e

(* Whatever the note and its size, what encryptMessage encrypts for a key  *)
(* and buildShareURL puts behind the '#' is what parseFragment and         *)
(* decryptMessage get back with the private half of that key.              *)
THEOREM LinkRoundTrip ==
  ASSUME NEW id, NEW k, NEW r, NEW text, text.size \in Nat
  PROVE  LET url == BuildShareURL(id, EncryptMessage(PublicPem(k), text, r))
         IN  DecryptMessage(PrivatePem(k), ParseFragment(url.hash)) = text
<1> DEFINE e   == EncryptMessage(PublicPem(k), text, r)
           f   == ParseFragment(BuildShareURL(id, e).hash)
           aes == GenerateAesKey(r)
           iv  == RandomIV(r)
           w   == Oaep(k, aes)
           ct  == Gcm(aes, iv, text)
<1>1. f.wrapped = e.wrapped /\ f.iv = e.iv /\ f.ct = e.ct
  <2> HIDE DEF f
  <2>1. f = [wrapped |-> e.wrapped, iv |-> e.iv, ct |-> e.ct]
    BY FragmentOfLink DEF f
  <2> HIDE DEF e
  <2> QED
    BY <2>1
<1>2. Base64URLToBytes(f.wrapped) = w /\ Base64URLToBytes(f.iv) = iv /\ Base64URLToBytes(f.ct) = ct
  <2>1. Base64URLToBytes(e.wrapped) = w /\ Base64URLToBytes(e.iv) = iv /\ Base64URLToBytes(e.ct) = ct
    BY Encryption, Zenon
  <2> HIDE DEF f, e, w, iv, ct
  <2> QED
    BY <1>1, <2>1, Zenon
<1> HIDE DEF f, e
<1>3. w.is[1] = "oaep" /\ w.is[2] = k /\ w.is[3] = aes
  <2> HIDE DEF aes
  <2> QED
    BY DEF Oaep, Bytes
<1>4. ct.is[1] = "gcm" /\ ct.is[2] = aes /\ ct.is[3] = iv /\ ct.is[4] = text
  <2> HIDE DEF aes, iv
  <2> QED
    BY DEF Gcm, Bytes
<1>5. aes # Throws
  <2>1. aes.size = 32 /\ Throws.size = 0
    BY SMT DEF GenerateAesKey, Throws, Bytes
  <2> HIDE DEF aes
  <2> QED
    BY <2>1, SMT
<1> HIDE DEF aes, iv, w, ct
<1>6. OaepOpen(ImportRsaPrivateKey(PrivatePem(k)), w) = aes
  <2>1. ImportRsaPrivateKey(PrivatePem(k))[1] = "pkcs8" /\ ImportRsaPrivateKey(PrivatePem(k))[2] = k
    BY Imported
  <2> QED
    BY <1>3, <2>1 DEF OaepOpen
<1>7. GcmOpen(aes, iv, ct) = text
  BY <1>4 DEF GcmOpen
<1>8. DecryptMessage(PrivatePem(k), f) = text
  BY <1>2, <1>5, <1>6, <1>7 DEF DecryptMessage
<1> QED
  BY <1>8 DEF f, e

(* Whatever the note and its size, the link is as long as estimateLinkLength *)
(* says of it before anything is encrypted.                                *)
THEOREM LinkLengthExact ==
  ASSUME NEW id, NEW k, NEW r, NEW text, text.size \in Nat
  PROVE  LinkLength(BuildShareURL(id, EncryptMessage(PublicPem(k), text, r))) = EstimateLinkLength(text.size)
<1> DEFINE e   == EncryptMessage(PublicPem(k), text, r)
           url == BuildShareURL(id, e)
           l   == Base64URLLength(text.size + 16)
<1>1. /\ Base64URLLength(Oaep(k, GenerateAesKey(r)).size) = 683
      /\ Base64URLLength(RandomIV(r).size) = 16
      /\ Gcm(GenerateAesKey(r), RandomIV(r), text).size = text.size + 16
  BY SMT DEF Base64URLLength, Oaep, RandomIV, Gcm, Bytes
<1>2. /\ e.wrapped.len = Base64URLLength(Oaep(k, GenerateAesKey(r)).size)
      /\ e.iv.len = Base64URLLength(RandomIV(r).size)
      /\ e.ct.len = Base64URLLength(Gcm(GenerateAesKey(r), RandomIV(r), text).size)
  BY Encryption, Zenon
<1> HIDE DEF e
<1>3. e.wrapped.len = 683 /\ e.iv.len = 16 /\ e.ct.len = l
  BY <1>1, <1>2, SMT
<1>4. url.hash.w = e.wrapped /\ url.hash.i = e.iv /\ url.hash.c = e.ct /\ url.path = HexId(id)
  BY DEF BuildShareURL
<1>5. HexId(id).len = 32
  BY SMT DEF HexId
<1> HIDE DEF url, l
<1>6. LinkLength(url) = OriginLength + 7 + 32 + 7 + 683 + 3 + 16 + 3 + l
  BY <1>3, <1>4, <1>5, SMT DEF LinkLength
<1> QED
  BY <1>6, SMT DEF url, e, l, EstimateLinkLength
=============================================================================
