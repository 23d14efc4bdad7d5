-------------------------- MODULE SharePageProofs --------------------------
(***************************************************************************)
(* Proofs about SharePage for any number of pages on the link and any      *)
(* countdown.                                                              *)
(***************************************************************************)
EXTENDS SharePage, NoteLinkProofs

-----------------------------------------------------------------------------
(* What the model of cryptography says of the four readings of the link:   *)
(* the id is all a browser sends and all the anatomy lists as sent, and    *)
(* the note is all that can be decrypted.                                  *)
LinksRead ==
  \A h \in DOMAIN links : /\ links[h].sent = {HexId("id")}
                          /\ links[h].anatomy = {HexId("id")}
                          /\ links[h].fragment.text \in {Note, Throws}

(* KeyBank has received the id and nothing else.                           *)
OnlyTheId == wire \subseteq {HexId("id")}

(* One page at most holds the key or has shown the note, never both at a   *)
(* time, and then the server has the key no more.                          *)
OneReader ==
  /\ \A p, q \in opened \cup Holders : p = q
  /\ opened \cap Holders = {}
  /\ opened \cup Holders # {} => key = "gone"

(* A plaintext, also a hidden one, belongs to a page that was opened and   *)
(* has no request under way.                                               *)
ShownIsOpened == \A p \in Pages : shown[p] # "no" => p \in opened /\ state[p] = "open"

(* An answer that says the key is gone says so truly, also while the page  *)
(* has not read it.                                                        *)
AnswersAreTrue == \A p \in Pages : fetch[p] \in {"200", "404", "body", "cut", "decrypt"} => key = "gone"

(* The promises of the clipboard come from clicks.                         *)
CopiesCounted == \A p \in Pages : copy[p].writing <= copy[p].clicks

(* The inductive invariant.                                                *)
ShareInv ==
  /\ TypeOK /\ LinksRead /\ OnlyTheId /\ OneReader /\ ShownIsOpened /\ AnswersAreTrue /\ CopiesCounted
  /\ OneRequest /\ ClaimsAreTrue /\ ShowsTheNote

-----------------------------------------------------------------------------
(* base64: what is decoded is the bytes or nothing of use.                 *)
LEMMA Decoded ==
  ASSUME NEW s
  PROVE  Base64URLToBytes(s) \in {s.bytes, Throws}
  BY DEF Base64URLToBytes, Base64ToBytes

(* What the terms are, by their first component.                           *)
LEMMA Terms ==
  /\ Throws.is[1] = "throws" /\ Garbage.is[1] = "garbage"
  /\ \A k, b : Oaep(k, b).is[1] = "oaep" /\ Oaep(k, b).is[3] = b
  /\ \A k, i, b : /\ Gcm(k, i, b).is[1] = "gcm" /\ Gcm(k, i, b).is[2] = k
                  /\ Gcm(k, i, b).is[4] = b
  /\ HexId("id").bytes.is[1] = "id"
  /\ GenerateAesKey("r") # GenerateAesKey("s") /\ GenerateAesKey("s") # Throws
  /\ Note # Throws
<1>1. Throws.is[1] = "throws" /\ Garbage.is[1] = "garbage" /\ HexId("id").bytes.is[1] = "id"
  BY DEF Throws, Garbage, HexId, Bytes
<1>2. \A k, b : Oaep(k, b).is[1] = "oaep" /\ Oaep(k, b).is[3] = b
  BY DEF Oaep, Bytes
<1>3. ASSUME NEW k, NEW i, NEW b
      PROVE  Gcm(k, i, b).is[1] = "gcm" /\ Gcm(k, i, b).is[2] = k /\ Gcm(k, i, b).is[4] = b
  BY DEF Gcm, Bytes
<1>4. GenerateAesKey("r") # GenerateAesKey("s") /\ GenerateAesKey("s") # Throws
  BY DEF GenerateAesKey, Throws, Bytes
<1>5. Note # Throws
  BY DEF Note, Text, Throws, Bytes
<1> QED
  BY <1>1, <1>2, <1>3, <1>4, <1>5

(* AES-GCM opens a ciphertext under the key it was made with to its        *)
(* plaintext, and anything else to nothing.                                *)
LEMMA GcmOpens ==
  ASSUME NEW k, NEW i, NEW j, NEW a, NEW text, NEW b \in {Gcm(a, i, text), Garbage, Throws}
  PROVE  GcmOpen(k, j, b) = Throws \/ (GcmOpen(k, j, b) = text /\ k = a)
  BY Terms DEF GcmOpen

(* RSA-OAEP opens what it wrapped or throws.                               *)
LEMMA OaepOpens ==
  ASSUME NEW k, NEW key2, NEW a, NEW b \in {Oaep(key2, a), Garbage, Throws}
  PROVE  OaepOpen(k, b) \in {a, Throws}
  BY Terms DEF OaepOpen

(* The parameters of the fragment of the link and of another note's.       *)
LEMMA LinkTerms ==
  /\ Link.path = HexId("id") /\ Link.query = NoData
  /\ \E k : Link.hash.w.bytes \in {Oaep(k, GenerateAesKey("r")), Garbage}
  /\ Link.hash.c.bytes \in {Gcm(GenerateAesKey("r"), RandomIV("r"), Note), Garbage}
  /\ Other.hash.c.bytes \in {Gcm(GenerateAesKey("s"), RandomIV("s"), Text("other", 7)), Garbage}
<1> DEFINE E == EncryptMessage(PublicPem("id"), Note, "r")
           F == EncryptMessage(PublicPem("other"), Text("other", 7), "s")
<1>1. \E k : E.wrapped.bytes \in {Oaep(k, GenerateAesKey("r")), Garbage}
  BY Encoded DEF EncryptMessage
<1>2. E.ct.bytes \in {Gcm(GenerateAesKey("r"), RandomIV("r"), Note), Garbage}
  BY Encoded DEF EncryptMessage
<1>3. F.ct.bytes \in {Gcm(GenerateAesKey("s"), RandomIV("s"), Text("other", 7)), Garbage}
  BY Encoded DEF EncryptMessage
<1>4. Link = BuildShareURL("id", E) /\ Other = BuildShareURL("other", F)
  BY DEF Link, Other
<1> HIDE DEF E, F
<1> QED
  BY <1>1, <1>2, <1>3, <1>4 DEF BuildShareURL

(* Whatever fragment a page finds, decryptMessage makes the note of it, or *)
(* throws (roadmap.md:117, "tampered-fragment rejected").                  *)
LEMMA DecryptsToNote ==
  ASSUME NEW f, NEW k,
         f.wrapped.bytes \in {Oaep(k, GenerateAesKey("r")), Garbage},
         f.ct.bytes \in {Gcm(GenerateAesKey("r"), RandomIV("r"), Note),
                         Gcm(GenerateAesKey("s"), RandomIV("s"), Text("other", 7)),
                         Garbage, Throws}
  PROVE  DecryptMessage(PrivatePem("id"), f) \in {Note, Throws}
<1> DEFINE aesKey == OaepOpen(ImportRsaPrivateKey(PrivatePem("id")), Base64URLToBytes(f.wrapped))
           iv == Base64URLToBytes(f.iv)
           ct == Base64URLToBytes(f.ct)
<1>1. Base64URLToBytes(f.wrapped) \in {Oaep(k, GenerateAesKey("r")), Garbage, Throws}
  BY Decoded
<1>2. aesKey \in {GenerateAesKey("r"), Throws}
  BY <1>1, OaepOpens
<1>3. \/ ct \in {Gcm(GenerateAesKey("r"), RandomIV("r"), Note), Garbage, Throws}
      \/ ct \in {Gcm(GenerateAesKey("s"), RandomIV("s"), Text("other", 7)), Garbage, Throws}
  BY Decoded
<1>4. DecryptMessage(PrivatePem("id"), f) = IF aesKey = Throws THEN Throws ELSE GcmOpen(aesKey, iv, ct)
  BY DEF DecryptMessage
<1> HIDE DEF aesKey, iv, ct
<1>5. GcmOpen(aesKey, iv, ct) = Throws \/ GcmOpen(aesKey, iv, ct) = Note
      \/ (GcmOpen(aesKey, iv, ct) = Text("other", 7) /\ aesKey = GenerateAesKey("s"))
  BY <1>3, GcmOpens
<1> QED
  BY <1>2, <1>4, <1>5, Terms

(* The four readings of the link.                                          *)
LEMMA ReadingOf ==
  ASSUME NEW h \in DOMAIN Content
  PROVE  /\ Reading(h).sent = {HexId("id")}
         /\ Reading(h).anatomy = {HexId("id")}
         /\ Reading(h).fragment.text \in {Note, Throws}
<1> DEFINE url == [Link EXCEPT !.hash = Content[h]]
           parsed == ParseFragment(url.hash)
<1>1. /\ Reading(h).sent = Requested(url) /\ Reading(h).anatomy = Anatomy(url)
      /\ Reading(h).fragment = IF parsed = NoData THEN Null
                               ELSE [of |-> h, text |-> DecryptMessage(PrivatePem("id"), parsed)]
  BY DEF Reading
<1>2. url.path = HexId("id") /\ url.query = NoData /\ url.hash = Content[h]
  <2>1. Link = [path |-> Link.path, query |-> Link.query, hash |-> Link.hash]
    BY DEF Link, BuildShareURL
  <2> QED
    BY <2>1, LinkTerms
<1> HIDE DEF url
<1>3. HexId("id") # Absent
  BY DEF HexId, Absent
<1>4. Requested(url) = {HexId("id")} /\ Anatomy(url) = {HexId("id")}
  BY <1>2, <1>3 DEF Requested, Anatomy, SplitShareURL, NoData
<1>5. Null.text = Throws
  BY DEF Null
<1>6. \E k : Content[h].w.bytes \in {Oaep(k, GenerateAesKey("r")), Garbage}
  <2>1. Content[h].w = Link.hash.w
    <3>1. Link.hash = [v |-> Link.hash.v, w |-> Link.hash.w, i |-> Link.hash.i, c |-> Link.hash.c]
      BY DEF Link, BuildShareURL
    <3> QED
      BY <3>1 DEF Content
  <2> QED
    BY <2>1, LinkTerms
<1>7. Content[h].c.bytes \in {Gcm(GenerateAesKey("r"), RandomIV("r"), Note),
                             Gcm(GenerateAesKey("s"), RandomIV("s"), Text("other", 7)),
                             Garbage, Throws}
  <2>1. Link.hash = [v |-> Link.hash.v, w |-> Link.hash.w, i |-> Link.hash.i, c |-> Link.hash.c]
    BY DEF Link, BuildShareURL
  <2>2. Content[h].c \in {Link.hash.c, Other.hash.c, Cut(Link.hash.c, 3), Absent}
    BY <2>1 DEF Content
  <2>3. Absent.bytes = Throws
    BY DEF Absent
  <2>4. Cut(Link.hash.c, 3).bytes = Garbage
    <3> DEFINE E == EncryptMessage(PublicPem("id"), Note, "r")
               g == Gcm(GenerateAesKey("r"), RandomIV("r"), Note)
               m == ChunkSizeForPlaintext(Note.size)
    <3>1. Link.hash.c = E.ct
      BY DEF Link, BuildShareURL
    <3>2. E.ct = BytesToBase64URL(g, m)
      BY DEF EncryptMessage
    <3> DEFINE n == BinaryLength(g.size, m)
               d == IF n = g.size THEN g ELSE Garbage
               x == Base64Length(n) - Padding(n)
    <3>3. BytesToBase64URL(g, m) = [bytes |-> d, len |-> x, clean |-> TRUE]
      BY Encoded
    <3> HIDE DEF E, g, m, n, d, x
    <3> QED
      BY <3>1, <3>2, <3>3 DEF Cut
  <2> QED
    BY <2>2, <2>3, <2>4, LinkTerms
<1>8. parsed # NoData => parsed.wrapped = Content[h].w /\ parsed.ct = Content[h].c
  BY <1>2 DEF ParseFragment
<1> HIDE DEF parsed
<1>9. parsed # NoData => DecryptMessage(PrivatePem("id"), parsed) \in {Note, Throws}
  BY <1>6, <1>7, <1>8, DecryptsToNote
<1> QED
  BY <1>1, <1>4, <1>5, <1>9

-----------------------------------------------------------------------------
(* Math.max of zero and a number.                                          *)
LEMMA MaxZero ==
  ASSUME NEW a \in Int
  PROVE  Max({0, a}) = IF a > 0 THEN a ELSE 0
<1> DEFINE m == IF a > 0 THEN a ELSE 0
<1>1. m \in {0, a} /\ \A y \in {0, a} : m >= y
  OBVIOUS
<1>2. \A x \in {0, a} : (\A y \in {0, a} : x >= y) => x = m
  OBVIOUS
<1> HIDE DEF m
<1>3. Max({0, a}) = m
  BY <1>1, <1>2 DEF Max
<1> QED
  BY <1>3 DEF m

(* Pages that have just been loaded keep every promise.                    *)
LEMMA ShareInit == Init => ShareInv
<1> SUFFICES ASSUME Init
             PROVE  ShareInv
  OBVIOUS
<1> USE SharePageAssumption
<1>1. DOMAIN links = DOMAIN Content /\ \A h \in DOMAIN links : links[h] = Reading(h)
  BY DEF Init
<1>2. LinksRead
  BY <1>1, ReadingOf DEF LinksRead
<1>3. \A p \in Pages : hash[p] \in DOMAIN links
  BY DEF Init
<1>4. TypeOK
  <2>1. NewCopy \in [clicks : 0..MaxCopies, writing : 0..MaxCopies, label : {"Copy", "Copied"},
                     marked : BOOLEAN, timers : Seq({"Copy", "Copied"})]
    BY DEF NewCopy
  <2>2. /\ fragment \in [Pages -> {links[h].fragment : h \in DOMAIN links}]
        /\ state \in [Pages -> {"ready", "invalid", "working", "open", "spent"}]
        /\ status \in [Pages -> Claims]
    BY <1>3 DEF Init, Parsed, Inspected, InspectedSays, Claims
  <2>3. /\ fetch \in [Pages -> {"none", "sent", "200", "404", "error", "broken", "body", "cut", "decrypt"}]
        /\ ledger \in [Pages -> Replies]
        /\ output \in [Pages -> {Throws, Note}]
        /\ shown \in [Pages -> {"no", "counting", "kept", "hidden"}]
        /\ remaining \in [Pages -> 0..AutoHideSeconds]
    BY DEF Init, NewLedger, Replies
  <2> QED
    BY <2>1, <2>2, <2>3 DEF Init, TypeOK
<1>5. OnlyTheId
  BY <1>2, <1>3 DEF Init, OnlyTheId, LinksRead
<1>6. Holders = {} /\ opened = {}
  BY DEF Init, Holders
<1>7. OneReader
  BY <1>6 DEF OneReader
<1>8. ShownIsOpened /\ AnswersAreTrue /\ CopiesCounted /\ OneRequest
  BY DEF Init, ShownIsOpened, AnswersAreTrue, CopiesCounted, OneRequest, NewCopy
<1>9. ClaimsAreTrue
  BY DEF Init, ClaimsAreTrue, InspectedSays, NewLedger
<1>10. ShowsTheNote
  BY Terms DEF Init, ShowsTheNote
<1> QED
  BY <1>2, <1>4, <1>5, <1>7, <1>8, <1>9, <1>10 DEF ShareInv

(* The type invariant by the parts of a page that change together.         *)
LinkTypes ==
  /\ hash \in [Pages -> DOMAIN links]
  /\ fragment \in [Pages -> {links[h].fragment : h \in DOMAIN links}]

CardTypes ==
  /\ state \in [Pages -> {"ready", "invalid", "working", "open", "spent"}]
  /\ status \in [Pages -> Claims]

FetchTypes ==
  /\ fetch \in [Pages -> {"none", "sent", "200", "404", "error", "broken", "body", "cut", "decrypt"}]
  /\ ledger \in [Pages -> Replies]

PlainTypes ==
  /\ output \in [Pages -> {Throws, Note}]
  /\ shown \in [Pages -> {"no", "counting", "kept", "hidden"}]
  /\ remaining \in [Pages -> 0..AutoHideSeconds]
  /\ opened \subseteq Pages

Buttons == [clicks : 0..MaxCopies, writing : 0..MaxCopies, label : {"Copy", "Copied"},
            marked : BOOLEAN, timers : Seq({"Copy", "Copied"})]

CopyTypes == copy \in [Pages -> Buttons]

KeyTypes == key \in {"live", "gone"}

(* They make up the type invariant.                                        *)
LEMMA TypeParts ==
  /\ TypeOK <=> LinkTypes /\ CardTypes /\ FetchTypes /\ PlainTypes /\ CopyTypes /\ KeyTypes
  /\ TypeOK' <=> LinkTypes' /\ CardTypes' /\ FetchTypes' /\ PlainTypes' /\ CopyTypes' /\ KeyTypes'
  BY DEF TypeOK, LinkTypes, CardTypes, FetchTypes, PlainTypes, CopyTypes, Buttons, KeyTypes

(* What copyText and its timers do to one button.                          *)
Clicked(b) == [b EXCEPT !.clicks = @ + 1, !.writing = @ + 1]
Written(b) == [b EXCEPT !.writing = @ - 1, !.label = "Copied", !.marked = TRUE,
                        !.timers = Append(@, b.label)]
Failed(b)  == [b EXCEPT !.writing = @ - 1]
Restored(b) == [b EXCEPT !.label = Head(b.timers), !.marked = FALSE, !.timers = Tail(@)]

(* A button stays a button, and its promises come from clicks.             *)
LEMMA ButtonSteps ==
  ASSUME NEW b \in Buttons, b.writing <= b.clicks
  PROVE  /\ b.clicks < MaxCopies => Clicked(b) \in Buttons /\ Clicked(b).writing <= Clicked(b).clicks
         /\ b.writing > 0 => Written(b) \in Buttons /\ Written(b).writing <= Written(b).clicks
         /\ b.writing > 0 => Failed(b) \in Buttons /\ Failed(b).writing <= Failed(b).clicks
         /\ b.timers # << >> => Restored(b) \in Buttons /\ Restored(b).writing <= Restored(b).clicks
         /\ NewCopy \in Buttons /\ NewCopy.writing <= NewCopy.clicks
<1> USE SharePageAssumption
<1> DEFINE L == {"Copy", "Copied"}
<1> DEFINE c == b.clicks
           w == b.writing
           l == b.label
           m == b.marked
           t == b.timers
<1>1. /\ b = [clicks |-> c, writing |-> w, label |-> l, marked |-> m, timers |-> t]
      /\ c \in 0..MaxCopies /\ w \in 0..MaxCopies /\ l \in L /\ m \in BOOLEAN /\ t \in Seq(L)
  BY DEF Buttons
<1>2. w <= c
  OBVIOUS
<1>3. Clicked(b) = [clicks |-> c + 1, writing |-> w + 1, label |-> l, marked |-> m, timers |-> t]
  <2>1. [b EXCEPT !.clicks = c + 1]
          = [clicks |-> c + 1, writing |-> w, label |-> l, marked |-> m, timers |-> t]
    BY <1>1
  <2>2. Clicked(b) = [[b EXCEPT !.clicks = c + 1] EXCEPT !.writing = w + 1]
    BY Zenon DEF Clicked
  <2> HIDE DEF c, w, l, m, t
  <2> QED
    BY <2>1, <2>2
<1>4. Written(b) = [clicks |-> c, writing |-> w - 1, label |-> "Copied", marked |-> TRUE,
                    timers |-> Append(t, l)]
  <2> DEFINE b1 == [b EXCEPT !.writing = w - 1]
             b2 == [b1 EXCEPT !.label = "Copied"]
             yes == TRUE
             b3 == [b2 EXCEPT !.marked = yes]
  <2>1. Written(b) = [b3 EXCEPT !.timers = Append(t, l)]
    BY Zenon DEF Written
  <2>2. b1 = [clicks |-> c, writing |-> w - 1, label |-> l, marked |-> m, timers |-> t]
    BY <1>1
  <2> HIDE DEF c, w, l, m, t, b1
  <2>3. b2 = [clicks |-> c, writing |-> w - 1, label |-> "Copied", marked |-> m, timers |-> t]
    BY <2>2
  <2> HIDE DEF b2, yes
  <2>4. b3 = [clicks |-> c, writing |-> w - 1, label |-> "Copied", marked |-> yes, timers |-> t]
    BY <2>3
  <2> HIDE DEF b3
  <2>5. Written(b) = [clicks |-> c, writing |-> w - 1, label |-> "Copied", marked |-> yes,
                      timers |-> Append(t, l)]
    BY <2>1, <2>4
  <2> QED
    BY <2>5, Zenon DEF yes
<1>5. Failed(b) = [clicks |-> c, writing |-> w - 1, label |-> l, marked |-> m, timers |-> t]
  BY <1>1 DEF Failed
<1>6. Restored(b) = [clicks |-> c, writing |-> w, label |-> Head(t), marked |-> FALSE, timers |-> Tail(t)]
  <2> DEFINE b1 == [b EXCEPT !.label = Head(t)]
             no == FALSE
             b2 == [b1 EXCEPT !.marked = no]
  <2>1. Restored(b) = [b2 EXCEPT !.timers = Tail(t)]
    BY Zenon DEF Restored
  <2>2. b1 = [clicks |-> c, writing |-> w, label |-> Head(t), marked |-> m, timers |-> t]
    BY <1>1
  <2> HIDE DEF c, w, l, m, t, b1, no
  <2>3. b2 = [clicks |-> c, writing |-> w, label |-> Head(t), marked |-> no, timers |-> t]
    BY <2>2
  <2> HIDE DEF b2
  <2>4. Restored(b) = [clicks |-> c, writing |-> w, label |-> Head(t), marked |-> no, timers |-> Tail(t)]
    BY <2>1, <2>3
  <2> QED
    BY <2>4, Zenon DEF no
<1>7. ASSUME NEW c2 \in 0..MaxCopies, NEW w2 \in 0..MaxCopies, NEW l2 \in L, NEW m2 \in BOOLEAN,
             NEW t2 \in Seq(L), w2 <= c2
      PROVE  LET r == [clicks |-> c2, writing |-> w2, label |-> l2, marked |-> m2, timers |-> t2]
             IN  r \in Buttons /\ r.writing <= r.clicks
  BY <1>7 DEF Buttons
<1>9. c < MaxCopies => c + 1 \in 0..MaxCopies /\ w + 1 \in 0..MaxCopies /\ w + 1 <= c + 1
  BY <1>1, <1>2
<1>10. w > 0 => w - 1 \in 0..MaxCopies /\ w - 1 <= c
  BY <1>1, <1>2
<1>11. Append(t, l) \in Seq(L)
  BY <1>1
<1>12. t # << >> => Head(t) \in L /\ Tail(t) \in Seq(L)
  BY <1>1
<1>13. NewCopy \in Buttons /\ NewCopy.writing <= NewCopy.clicks
  BY DEF NewCopy, Buttons
<1>14. "Copied" \in L /\ TRUE \in BOOLEAN /\ FALSE \in BOOLEAN
  OBVIOUS
<1>a. /\ c \in 0..MaxCopies /\ w \in 0..MaxCopies /\ l \in L /\ m \in BOOLEAN /\ t \in Seq(L)
  BY <1>1
<1> HIDE DEF L, c, w, l, m, t
<1>15. c < MaxCopies => Clicked(b) \in Buttons /\ Clicked(b).writing <= Clicked(b).clicks
  BY <1>a, <1>3, <1>7, <1>9, ZenonT(60)
<1>16. w > 0 => Written(b) \in Buttons /\ Written(b).writing <= Written(b).clicks
  BY <1>a, <1>4, <1>7, <1>10, <1>11, <1>14, ZenonT(60)
<1>17. w > 0 => Failed(b) \in Buttons /\ Failed(b).writing <= Failed(b).clicks
  BY <1>a, <1>5, <1>7, <1>10, ZenonT(60)
<1>18. t # << >> => Restored(b) \in Buttons /\ Restored(b).writing <= Restored(b).clicks
  BY <1>a, <1>2, <1>6, <1>7, <1>12, <1>14, ZenonT(60)
<1> QED
  BY <1>13, <1>15, <1>16, <1>17, <1>18 DEF c, w, t

(* The actions on the copy button in these terms.                          *)
LEMMA ButtonActions ==
  ASSUME NEW p \in Pages
  PROVE  /\ CopyClick(p) => copy[p].clicks < MaxCopies /\ copy' = [copy EXCEPT ![p] = Clicked(copy[p])]
         /\ CopyWritten(p) => copy[p].writing > 0 /\ copy' = [copy EXCEPT ![p] = Written(copy[p])]
         /\ CopyFails(p) => copy[p].writing > 0 /\ copy' = [copy EXCEPT ![p] = Failed(copy[p])]
         /\ CopyTimer(p) => copy[p].timers # << >> /\ copy' = [copy EXCEPT ![p] = Restored(copy[p])]
<1>1. CopyClick(p) => copy[p].clicks < MaxCopies /\ copy' = [copy EXCEPT ![p] = Clicked(copy[p])]
  BY DEF CopyClick, Clicked
<1>2. CopyWritten(p) => copy[p].writing > 0 /\ copy' = [copy EXCEPT ![p] = Written(copy[p])]
  BY Zenon DEF CopyWritten, Written
<1>3. CopyFails(p) => copy[p].writing > 0 /\ copy' = [copy EXCEPT ![p] = Failed(copy[p])]
  BY DEF CopyFails, Failed
<1>4. CopyTimer(p) => copy[p].timers # << >> /\ copy' = [copy EXCEPT ![p] = Restored(copy[p])]
  BY Zenon DEF CopyTimer, Restored
<1> QED
  BY <1>1, <1>2, <1>3, <1>4

(* Every step keeps the types.                                             *)
LEMMA TypeStep == TypeOK /\ LinksRead /\ CopiesCounted /\ [Next]_vars => TypeOK'
<1> SUFFICES ASSUME LinkTypes, CardTypes, FetchTypes, PlainTypes, CopyTypes, KeyTypes,
                    LinksRead, CopiesCounted, [Next]_vars
             PROVE  LinkTypes' /\ CardTypes' /\ FetchTypes' /\ PlainTypes' /\ CopyTypes' /\ KeyTypes'
  BY TypeParts
<1> DEFINE Types == LinkTypes /\ CardTypes /\ FetchTypes /\ PlainTypes /\ CopyTypes /\ KeyTypes
<1> USE SharePageAssumption DEF plain, server, page
<1>a. \A h \in DOMAIN links : /\ Parsed(h) \in {links[k].fragment : k \in DOMAIN links}
                              /\ Inspected(h) \in {"ready", "invalid"}
                              /\ InspectedSays(h) \in Claims
  BY DEF Parsed, Inspected, InspectedSays, Claims
<1>b. /\ UNCHANGED <<links, hash, fragment>> => LinkTypes'
      /\ UNCHANGED <<state, status>> => CardTypes'
      /\ UNCHANGED <<fetch, ledger>> => FetchTypes'
      /\ UNCHANGED plain => PlainTypes'
      /\ UNCHANGED copy => CopyTypes'
      /\ UNCHANGED key => KeyTypes'
  BY DEF LinkTypes, CardTypes, FetchTypes, PlainTypes, CopyTypes, KeyTypes
<1>1. ASSUME NEW p \in Pages, NEW h \in DOMAIN links, HashChange(p, h)
      PROVE  Types'
  <2>1. LinkTypes'
    <3>1. hash' \in [Pages -> DOMAIN links]
      BY <1>1 DEF HashChange, LinkTypes
    <3>2. fragment' = fragment \/ fragment' = [fragment EXCEPT ![p] = Parsed(h)]
      BY <1>1 DEF HashChange
    <3>3. fragment' \in [Pages -> {links[k].fragment : k \in DOMAIN links}]
      BY <1>a, <3>2 DEF LinkTypes
    <3>4. links' = links
      BY <1>1 DEF HashChange
    <3> QED
      BY <3>1, <3>3, <3>4 DEF LinkTypes
  <2>2. CardTypes'
    BY <1>a, <1>1 DEF HashChange, CardTypes
  <2> QED
    BY <1>b, <1>1, <2>1, <2>2 DEF HashChange
<1>2. ASSUME NEW p \in Pages, Click(p)
      PROVE  Types'
  <2>1. CardTypes'
    BY <1>2 DEF Click, Shows, CardTypes, Claims
  <2>2. FetchTypes'
    BY <1>2 DEF Click, FetchTypes, Replies
  <2> QED
    BY <1>b, <1>2, <2>1, <2>2 DEF Click
<1>3. ASSUME NEW p \in Pages, FetchFails(p)
      PROVE  Types'
  <2>1. CardTypes'
    BY <1>3 DEF FetchFails, FetchThrows, Shows, CardTypes, Claims
  <2>2. FetchTypes'
    BY <1>3 DEF FetchFails, Settle, FetchTypes, Replies
  <2> QED
    BY <1>b, <1>3, <2>1, <2>2 DEF FetchFails
<1>4. ASSUME NEW p \in Pages, FetchNull(p)
      PROVE  Types'
  <2>1. CardTypes'
    BY <1>4 DEF FetchNull, Shows, CardTypes, Claims
  <2>2. FetchTypes'
    BY <1>4 DEF FetchNull, Settle, FetchTypes, Replies
  <2> QED
    BY <1>b, <1>4, <2>1, <2>2 DEF FetchNull
<1>5. ASSUME NEW p \in Pages, FetchOk(p)
      PROVE  Types'
  <2>1. FetchTypes'
    BY <1>5 DEF FetchOk, Settle, FetchTypes, Replies
  <2> QED
    BY <1>b, <1>5, <2>1 DEF FetchOk
<1>6. ASSUME NEW p \in Pages, FetchText(p)
      PROVE  Types'
  <2>1. CardTypes'
    BY <1>6 DEF FetchText, FetchThrows, Shows, CardTypes, Claims
  <2>2. FetchTypes'
    BY <1>6 DEF FetchText, FetchTypes
  <2> QED
    BY <1>b, <1>6, <2>1, <2>2 DEF FetchText
<1>7. ASSUME NEW p \in Pages, Decrypts(p)
      PROVE  Types'
  <2>1. fragment[p].text \in {Note, Throws}
    BY DEF LinkTypes, LinksRead
  <2>2. CardTypes'
    BY <1>7 DEF Decrypts, Shows, CardTypes, Claims
  <2>3. FetchTypes'
    BY <1>7 DEF Decrypts, FetchTypes
  <2>4. PlainTypes'
    BY <1>7, <2>1 DEF Decrypts, Reveal, PlainTypes
  <2> QED
    BY <1>b, <1>7, <2>2, <2>3, <2>4 DEF Decrypts
<1>8. ASSUME NEW p \in Pages, DecryptThrows(p)
      PROVE  Types'
  <2>1. CardTypes'
    BY <1>8 DEF DecryptThrows, Shows, CardTypes, Claims
  <2>2. FetchTypes'
    BY <1>8 DEF DecryptThrows, FetchTypes
  <2> QED
    BY <1>b, <1>8, <2>1, <2>2 DEF DecryptThrows
<1>9. ASSUME NEW p \in Pages, TimerTick(p)
      PROVE  Types'
  <2>1. PICK elapsed \in 1..AutoHideSeconds :
               remaining' = [remaining EXCEPT ![p] = Max({0, remaining[p] - elapsed})]
    BY <1>9 DEF TimerTick
  <2>2. Max({0, remaining[p] - elapsed}) \in 0..AutoHideSeconds
    BY MaxZero DEF PlainTypes
  <2>3. remaining' \in [Pages -> 0..AutoHideSeconds]
    BY <2>1, <2>2 DEF PlainTypes
  <2>4. /\ output' \in [Pages -> {Throws, Note}]
        /\ shown' \in [Pages -> {"no", "counting", "kept", "hidden"}]
        /\ opened' \subseteq Pages
    BY <1>9 DEF TimerTick, Hide, PlainTypes
  <2>5. CardTypes'
    BY <1>9 DEF TimerTick, Hide, CardTypes, Claims
  <2>6. PlainTypes'
    BY <2>3, <2>4 DEF PlainTypes
  <2> QED
    BY <1>b, <1>9, <2>5, <2>6 DEF TimerTick
<1>10. ASSUME NEW p \in Pages, KeepVisible(p)
       PROVE  Types'
  <2>1. CardTypes'
    BY <1>10 DEF KeepVisible, CardTypes, Claims
  <2>2. PlainTypes'
    BY <1>10 DEF KeepVisible, PlainTypes
  <2> QED
    BY <1>b, <1>10, <2>1, <2>2 DEF KeepVisible
<1>c. ASSUME NEW p \in Pages
      PROVE  copy[p] \in Buttons /\ copy[p].writing <= copy[p].clicks
  BY DEF CopyTypes, CopiesCounted
<1>d. ASSUME NEW p \in Pages, NEW b \in Buttons, copy' = [copy EXCEPT ![p] = b]
      PROVE  CopyTypes'
  BY <1>d DEF CopyTypes
<1>11. ASSUME NEW p \in Pages, CopyClick(p)
       PROVE  Types'
  <2>1. CopyTypes'
    BY <1>c, <1>d, <1>11, ButtonSteps, ButtonActions
  <2> QED
    BY <1>b, <1>11, <2>1 DEF CopyClick
<1>12. ASSUME NEW p \in Pages, CopyWritten(p)
       PROVE  Types'
  <2>1. CopyTypes'
    BY <1>c, <1>d, <1>12, ButtonSteps, ButtonActions
  <2> QED
    BY <1>b, <1>12, <2>1 DEF CopyWritten
<1>13. ASSUME NEW p \in Pages, CopyFails(p)
       PROVE  Types'
  <2>1. CopyTypes'
    BY <1>c, <1>d, <1>13, ButtonSteps, ButtonActions
  <2>2. CardTypes'
    BY <1>13 DEF CopyFails, CardTypes, Claims
  <2> QED
    BY <1>b, <1>13, <2>1, <2>2 DEF CopyFails
<1>14. ASSUME NEW p \in Pages, CopyTimer(p)
       PROVE  Types'
  <2>1. CopyTypes'
    BY <1>c, <1>d, <1>14, ButtonSteps, ButtonActions
  <2> QED
    BY <1>b, <1>14, <2>1 DEF CopyTimer
<1>15. ASSUME NEW p \in Pages, Reload(p)
       PROVE  Types'
  <2>1. hash[p] \in DOMAIN links
    BY DEF LinkTypes
  <2>2. LinkTypes'
    BY <1>a, <1>15, <2>1 DEF Reload, LinkTypes
  <2>3. CardTypes'
    BY <1>a, <1>15, <2>1 DEF Reload, Shows, CardTypes
  <2>4. FetchTypes'
    BY <1>15 DEF Reload, NewLedger, FetchTypes, Replies
  <2>5. PlainTypes'
    BY <1>15 DEF Reload, PlainTypes
  <2>7. CopyTypes'
    BY <1>c, <1>d, <1>15, ButtonSteps DEF Reload
  <2> QED
    BY <1>b, <1>15, <2>2, <2>3, <2>4, <2>5, <2>7 DEF Reload
<1>16. ASSUME NEW p \in Pages, Serves(p)
       PROVE  Types'
  <2>1. FetchTypes'
    BY <1>16 DEF Serves, ServeKey, ServeNotFound, ServeError, Disconnect, Answer, FetchTypes
  <2>2. KeyTypes'
    BY <1>16 DEF Serves, ServeKey, ServeNotFound, ServeError, Disconnect, Answer, KeyTypes
  <2> QED
    BY <1>b, <1>16, <2>1, <2>2 DEF Serves, ServeKey, ServeNotFound, ServeError, Disconnect, Answer
<1>17. CASE ExpireKey
  BY <1>b, <1>17 DEF ExpireKey, KeyTypes
<1>18. CASE UNCHANGED vars
  BY <1>b, <1>18 DEF vars
<1> QED
  BY <1>1, <1>2, <1>3, <1>4, <1>5, <1>6, <1>7, <1>8, <1>9, <1>10, <1>11, <1>12, <1>13, <1>14,
     <1>15, <1>16, <1>17, <1>18
     DEF Next, UserStep, Settles, Copies

(* One reader remains one when no page gets the key or shows the note.     *)
LEMMA ReaderKept ==
  ASSUME OneReader, Holders' \subseteq Holders, opened' = opened, key = "gone" => key' = "gone"
  PROVE  OneReader'
  BY DEF OneReader

(* Every step keeps the inductive invariant.                               *)
LEMMA ShareStep == ShareInv /\ [Next]_vars => ShareInv'
<1> SUFFICES ASSUME ShareInv, [Next]_vars
             PROVE  ShareInv'
  OBVIOUS
<1> USE DEF plain, server, page
<1> DEFINE Kept == /\ LinksRead /\ OnlyTheId /\ OneReader /\ ShownIsOpened /\ AnswersAreTrue
                   /\ CopiesCounted /\ OneRequest /\ ClaimsAreTrue /\ ShowsTheNote
           Key == key = "gone" => key' = "gone"
<1>0. TypeOK'
  BY TypeStep DEF ShareInv
<1>i. Kept /\ LinkTypes /\ CardTypes /\ FetchTypes /\ PlainTypes /\ CopyTypes /\ KeyTypes
  BY TypeParts DEF ShareInv
<1> USE <1>i
<1>a. /\ UNCHANGED links => LinksRead'
      /\ UNCHANGED wire => OnlyTheId'
      /\ UNCHANGED <<fetch, opened>> /\ Key => OneReader' /\ AnswersAreTrue'
      /\ UNCHANGED <<shown, opened, state>> => ShownIsOpened'
      /\ UNCHANGED copy => CopiesCounted'
      /\ UNCHANGED <<fetch, state, fragment>> => OneRequest'
      /\ UNCHANGED <<status, ledger, shown, fetch>> /\ Key => ClaimsAreTrue'
      /\ UNCHANGED <<output, shown>> => ShowsTheNote'
      /\ UNCHANGED key => Key
  <2>1. UNCHANGED <<fetch, opened>> /\ Key => OneReader'
    BY ReaderKept DEF Holders
  <2>2. UNCHANGED <<fetch, opened>> /\ Key => AnswersAreTrue'
    BY DEF AnswersAreTrue
  <2>3. UNCHANGED <<status, ledger, shown, fetch>> /\ Key => ClaimsAreTrue'
    BY DEF ClaimsAreTrue
  <2>4. UNCHANGED <<fetch, state, fragment>> => OneRequest'
    BY DEF OneRequest
  <2>5. UNCHANGED <<output, shown>> => ShowsTheNote'
    BY DEF ShowsTheNote
  <2>6. UNCHANGED <<shown, opened, state>> => ShownIsOpened'
    BY DEF ShownIsOpened
  <2> QED
    BY <2>1, <2>2, <2>3, <2>4, <2>5, <2>6 DEF LinksRead, OnlyTheId, CopiesCounted
<1>b. \A h \in DOMAIN links : /\ Inspected(h) \in {"ready", "invalid"}
                              /\ InspectedSays(h) \in {"idle", "malformed"}
                              /\ links[h].sent = {HexId("id")}
  BY DEF Inspected, InspectedSays, LinksRead
<1>1. ASSUME NEW p \in Pages, NEW h \in DOMAIN links, HashChange(p, h)
      PROVE  Kept'
  <2>1. ShownIsOpened'
    BY <1>1 DEF HashChange, ShownIsOpened, CardTypes
  <2>2. OneRequest'
    BY <1>1 DEF HashChange, OneRequest, CardTypes, LinkTypes
  <2>3. ClaimsAreTrue'
    BY <1>b, <1>1 DEF HashChange, ClaimsAreTrue, CardTypes
  <2> QED
    BY <1>a, <1>1, <2>1, <2>2, <2>3 DEF HashChange
<1>2. ASSUME NEW p \in Pages, Click(p)
      PROVE  Kept'
  <2>1. OnlyTheId'
    BY <1>2 DEF Click, OnlyTheId
  <2>2. OneReader'
    BY <1>2, ReaderKept DEF Click, Holders, FetchTypes
  <2>3. ShownIsOpened'
    BY <1>2 DEF Click, ButtonEnabled, Shows, ShownIsOpened, CardTypes
  <2>4. AnswersAreTrue'
    BY <1>2 DEF Click, AnswersAreTrue, FetchTypes
  <2>5. OneRequest'
    BY <1>2 DEF Click, Shows, OneRequest, CardTypes, FetchTypes
  <2>6. ClaimsAreTrue'
    BY <1>2 DEF Click, Shows, ClaimsAreTrue, CardTypes, FetchTypes
  <2> QED
    BY <1>a, <1>2, <2>1, <2>2, <2>3, <2>4, <2>5, <2>6 DEF Click
<1>3. ASSUME NEW p \in Pages, FetchFails(p)
      PROVE  Kept'
  <2>1. OneReader'
    BY <1>3, ReaderKept DEF FetchFails, Holders, FetchTypes
  <2>2. ShownIsOpened'
    BY <1>3 DEF FetchFails, FetchThrows, Shows, OneRequest, ShownIsOpened, CardTypes
  <2>3. AnswersAreTrue'
    BY <1>3 DEF FetchFails, AnswersAreTrue, FetchTypes
  <2>4. OneRequest'
    BY <1>3 DEF FetchFails, FetchThrows, Settle, Shows, OneRequest, CardTypes, FetchTypes
  <2>5. ClaimsAreTrue'
    BY <1>3 DEF FetchFails, FetchThrows, Settle, Shows, ClaimsAreTrue, AnswersAreTrue, CardTypes, FetchTypes
  <2> QED
    BY <1>a, <1>3, <2>1, <2>2, <2>3, <2>4, <2>5 DEF FetchFails
<1>4. ASSUME NEW p \in Pages, FetchNull(p)
      PROVE  Kept'
  <2>1. OneReader'
    BY <1>4, ReaderKept DEF FetchNull, Holders, FetchTypes
  <2>2. ShownIsOpened'
    BY <1>4 DEF FetchNull, Shows, OneRequest, ShownIsOpened, CardTypes
  <2>3. AnswersAreTrue'
    BY <1>4 DEF FetchNull, AnswersAreTrue, FetchTypes
  <2>4. OneRequest'
    BY <1>4 DEF FetchNull, Settle, Shows, OneRequest, CardTypes, FetchTypes
  <2>5. ClaimsAreTrue'
    BY <1>4 DEF FetchNull, Settle, Shows, ClaimsAreTrue, AnswersAreTrue, CardTypes, FetchTypes
  <2> QED
    BY <1>a, <1>4, <2>1, <2>2, <2>3, <2>4, <2>5 DEF FetchNull
<1>5. ASSUME NEW p \in Pages, FetchOk(p)
      PROVE  Kept'
  <2>1. OneReader'
    BY <1>5, ReaderKept DEF FetchOk, Holders, FetchTypes
  <2>2. AnswersAreTrue'
    BY <1>5 DEF FetchOk, AnswersAreTrue, FetchTypes
  <2>3. OneRequest'
    BY <1>5 DEF FetchOk, Settle, OneRequest, CardTypes, FetchTypes
  <2>4. ClaimsAreTrue'
    BY <1>5 DEF FetchOk, Settle, ClaimsAreTrue, AnswersAreTrue, CardTypes, FetchTypes
  <2> QED
    BY <1>a, <1>5, <2>1, <2>2, <2>3, <2>4 DEF FetchOk
<1>6. ASSUME NEW p \in Pages, FetchText(p)
      PROVE  Kept'
  <2>1. OneReader'
    BY <1>6, ReaderKept DEF FetchText, Holders, FetchTypes
  <2>2. ShownIsOpened'
    BY <1>6 DEF FetchText, FetchThrows, Shows, OneRequest, ShownIsOpened, CardTypes
  <2>3. AnswersAreTrue'
    BY <1>6 DEF FetchText, AnswersAreTrue, FetchTypes
  <2>4. OneRequest'
    BY <1>6 DEF FetchText, FetchThrows, Shows, OneRequest, CardTypes, FetchTypes
  <2>5. ClaimsAreTrue'
    BY <1>6 DEF FetchText, FetchThrows, Shows, ClaimsAreTrue, AnswersAreTrue, CardTypes, FetchTypes
  <2> QED
    BY <1>a, <1>6, <2>1, <2>2, <2>3, <2>4, <2>5 DEF FetchText
<1>7. ASSUME NEW p \in Pages, Decrypts(p)
      PROVE  Kept'
  <2>1. fragment[p].text = Note
    BY <1>7 DEF Decrypts, LinkTypes, LinksRead
  <2>2. p \in Holders /\ Holders' = Holders \ {p} /\ opened' = opened \cup {p} /\ key' = key
    BY <1>7 DEF Decrypts, Reveal, Holders, FetchTypes
  <2>3. OneReader'
    BY <2>2 DEF OneReader
  <2>4. ShownIsOpened'
    BY <1>7 DEF Decrypts, Reveal, Shows, ShownIsOpened, CardTypes, PlainTypes
  <2>5. AnswersAreTrue'
    BY <1>7 DEF Decrypts, AnswersAreTrue, FetchTypes
  <2>6. OneRequest'
    BY <1>7 DEF Decrypts, Shows, OneRequest, CardTypes, FetchTypes
  <2>7. ClaimsAreTrue'
    BY <1>7 DEF Decrypts, Reveal, Shows, ClaimsAreTrue, AnswersAreTrue, CardTypes, FetchTypes, PlainTypes
  <2>8. ShowsTheNote'
    BY <1>7, <2>1, Terms DEF Decrypts, Reveal, ShowsTheNote, PlainTypes
  <2> QED
    BY <1>a, <1>7, <2>1, <2>2, <2>3, <2>4, <2>5, <2>6, <2>7, <2>8 DEF Decrypts
<1>8. ASSUME NEW p \in Pages, DecryptThrows(p)
      PROVE  Kept'
  <2>1. OneReader'
    BY <1>8, ReaderKept DEF DecryptThrows, Holders, FetchTypes
  <2>2. ShownIsOpened'
    BY <1>8 DEF DecryptThrows, Shows, OneRequest, ShownIsOpened, CardTypes
  <2>3. AnswersAreTrue'
    BY <1>8 DEF DecryptThrows, AnswersAreTrue, FetchTypes
  <2>4. OneRequest'
    BY <1>8 DEF DecryptThrows, Shows, OneRequest, CardTypes, FetchTypes
  <2>5. ClaimsAreTrue'
    BY <1>8 DEF DecryptThrows, Shows, ClaimsAreTrue, AnswersAreTrue, CardTypes, FetchTypes
  <2> QED
    BY <1>a, <1>8, <2>1, <2>2, <2>3, <2>4, <2>5 DEF DecryptThrows
<1>9. ASSUME NEW p \in Pages, TimerTick(p)
      PROVE  Kept'
  <2>1. key = "gone"
    BY <1>9 DEF TimerTick, ShownIsOpened, OneReader
  <2>2. ShownIsOpened'
    BY <1>9 DEF TimerTick, Hide, ShownIsOpened, PlainTypes
  <2>3. ClaimsAreTrue'
    BY <1>9, <2>1 DEF TimerTick, Hide, ClaimsAreTrue, CardTypes, PlainTypes
  <2>4. ShowsTheNote'
    BY <1>9, Terms DEF TimerTick, Hide, ShowsTheNote, PlainTypes
  <2> QED
    BY <1>a, <1>9, <2>1, <2>2, <2>3, <2>4 DEF TimerTick
<1>10. ASSUME NEW p \in Pages, KeepVisible(p)
       PROVE  Kept'
  <2>1. ShownIsOpened'
    BY <1>10 DEF KeepVisible, ShownIsOpened, PlainTypes
  <2>2. ClaimsAreTrue'
    BY <1>10 DEF KeepVisible, ClaimsAreTrue, CardTypes, PlainTypes
  <2>3. ShowsTheNote'
    BY <1>10 DEF KeepVisible, ShowsTheNote, PlainTypes
  <2> QED
    BY <1>a, <1>10, <2>1, <2>2, <2>3 DEF KeepVisible
<1>c. \A p \in Pages : copy[p] \in Buttons /\ copy[p].writing <= copy[p].clicks
  BY DEF CopyTypes, CopiesCounted
<1>d. ASSUME NEW p \in Pages, NEW b, b.writing <= b.clicks, copy' = [copy EXCEPT ![p] = b]
      PROVE  CopiesCounted'
  BY <1>c, <1>d DEF CopyTypes, CopiesCounted
<1>11. ASSUME NEW p \in Pages, CopyClick(p)
       PROVE  Kept'
  <2>1. CopiesCounted'
    BY <1>c, <1>d, <1>11, ButtonSteps, ButtonActions
  <2> QED
    BY <1>a, <1>11, <2>1 DEF CopyClick
<1>12. ASSUME NEW p \in Pages, CopyWritten(p)
       PROVE  Kept'
  <2>1. CopiesCounted'
    BY <1>c, <1>d, <1>12, ButtonSteps, ButtonActions
  <2> QED
    BY <1>a, <1>12, <2>1 DEF CopyWritten
<1>13. ASSUME NEW p \in Pages, CopyFails(p)
       PROVE  Kept'
  <2>1. CopiesCounted'
    BY <1>c, <1>d, <1>13, ButtonSteps, ButtonActions
  <2>2. ClaimsAreTrue'
    BY <1>13 DEF CopyFails, ClaimsAreTrue, CardTypes
  <2> QED
    BY <1>a, <1>13, <2>1, <2>2 DEF CopyFails
<1>14. ASSUME NEW p \in Pages, CopyTimer(p)
       PROVE  Kept'
  <2>1. CopiesCounted'
    BY <1>c, <1>d, <1>14, ButtonSteps, ButtonActions
  <2> QED
    BY <1>a, <1>14, <2>1 DEF CopyTimer
<1>15. ASSUME NEW p \in Pages, Reload(p)
       PROVE  Kept'
  <2>1. hash[p] \in DOMAIN links
    BY DEF LinkTypes
  <2>2. OnlyTheId'
    BY <1>b, <1>15, <2>1 DEF Reload, OnlyTheId
  <2>3. OneReader'
    BY <1>15, ReaderKept DEF Reload, Holders, FetchTypes
  <2>4. ShownIsOpened'
    BY <1>15 DEF Reload, Shows, ShownIsOpened, CardTypes, PlainTypes
  <2>5. AnswersAreTrue'
    BY <1>15 DEF Reload, AnswersAreTrue, FetchTypes
  <2>6. CopiesCounted'
    BY <1>c, <1>d, <1>15, ButtonSteps DEF Reload
  <2>7. OneRequest'
    BY <1>15 DEF Reload, Shows, OneRequest, CardTypes, FetchTypes, LinkTypes
  <2>8. ClaimsAreTrue'
    BY <1>b, <1>15, <2>1 DEF Reload, Shows, NewLedger, ClaimsAreTrue, CardTypes, FetchTypes, PlainTypes
  <2>9. ShowsTheNote'
    BY <1>15, Terms DEF Reload, ShowsTheNote, PlainTypes
  <2> QED
    BY <1>a, <1>15, <2>1, <2>2, <2>3, <2>4, <2>5, <2>6, <2>7, <2>8, <2>9 DEF Reload
<1>16. ASSUME NEW p \in Pages, ServeKey(p)
       PROVE  Kept'
  <2>1. Holders' = Holders \cup {p} /\ opened' = opened /\ key = "live" /\ key' = "gone"
    BY <1>16 DEF ServeKey, Answer, Holders, FetchTypes
  <2>2. OneReader'
    BY <2>1 DEF OneReader
  <2>3. AnswersAreTrue'
    BY <1>16 DEF ServeKey, Answer, AnswersAreTrue, FetchTypes
  <2>4. OneRequest'
    BY <1>16 DEF ServeKey, Answer, OneRequest, FetchTypes
  <2>5. ClaimsAreTrue'
    BY <1>16 DEF ServeKey, Answer, ClaimsAreTrue, FetchTypes
  <2> QED
    BY <1>a, <1>16, <2>1, <2>2, <2>3, <2>4, <2>5 DEF ServeKey, Answer
<1>17. ASSUME NEW p \in Pages, ServeNotFound(p)
       PROVE  Kept'
  <2>1. Key
    BY <1>17 DEF ServeNotFound, Answer
  <2>2. OneReader'
    BY <1>17, <2>1, ReaderKept DEF ServeNotFound, Answer, Holders, FetchTypes
  <2>3. AnswersAreTrue'
    BY <1>17, <2>1 DEF ServeNotFound, Answer, AnswersAreTrue, FetchTypes
  <2>4. OneRequest'
    BY <1>17 DEF ServeNotFound, Answer, OneRequest, FetchTypes
  <2>5. ClaimsAreTrue'
    BY <1>17, <2>1 DEF ServeNotFound, Answer, ClaimsAreTrue, FetchTypes
  <2> QED
    BY <1>a, <1>17, <2>1, <2>2, <2>3, <2>4, <2>5 DEF ServeNotFound, Answer
<1>18. ASSUME NEW p \in Pages, ServeError(p)
       PROVE  Kept'
  <2>1. Key
    BY <1>18 DEF ServeError, Answer
  <2>2. OneReader'
    BY <1>18, <2>1, ReaderKept DEF ServeError, Answer, Holders, FetchTypes
  <2>3. AnswersAreTrue'
    BY <1>18, <2>1 DEF ServeError, Answer, AnswersAreTrue, FetchTypes
  <2>4. OneRequest'
    BY <1>18 DEF ServeError, Answer, OneRequest, FetchTypes
  <2>5. ClaimsAreTrue'
    BY <1>18, <2>1 DEF ServeError, Answer, ClaimsAreTrue, FetchTypes
  <2> QED
    BY <1>a, <1>18, <2>1, <2>2, <2>3, <2>4, <2>5 DEF ServeError, Answer
<1>19. ASSUME NEW p \in Pages, Disconnect(p)
       PROVE  Kept'
  <2>1. Key
    BY <1>19 DEF Disconnect
  <2>2. OneReader'
    BY <1>19, <2>1, ReaderKept DEF Disconnect, Holders, FetchTypes
  <2>3. AnswersAreTrue'
    BY <1>19, <2>1 DEF Disconnect, AnswersAreTrue, FetchTypes
  <2>4. OneRequest'
    BY <1>19 DEF Disconnect, OneRequest, FetchTypes
  <2>5. ClaimsAreTrue'
    BY <1>19, <2>1 DEF Disconnect, ClaimsAreTrue, FetchTypes
  <2> QED
    BY <1>a, <1>19, <2>1, <2>2, <2>3, <2>4, <2>5 DEF Disconnect
<1>20. ASSUME ExpireKey
       PROVE  Kept'
  BY <1>a, <1>20 DEF ExpireKey
<1>21. ASSUME UNCHANGED vars
       PROVE  Kept'
  BY <1>a, <1>21 DEF vars
<1> HIDE DEF Kept
<1>22. Kept'
  BY <1>1, <1>2, <1>3, <1>4, <1>5, <1>6, <1>7, <1>8, <1>9, <1>10, <1>11, <1>12, <1>13, <1>14,
     <1>15, <1>16, <1>17, <1>18, <1>19, <1>20, <1>21
     DEF Next, UserStep, Settles, Copies, Serves
<1> QED
  BY <1>0, <1>22 DEF Kept, ShareInv

(* Shown for every number of pages and every length of the countdown.      *)
LEMMA ShareInvariant == Spec => []ShareInv
<1>1. ShareInv /\ [Next]_vars => ShareInv'
  BY ShareStep
<1> QED
  BY <1>1, ShareInit, PTL DEF Spec

-----------------------------------------------------------------------------
(* The variables of the share page keep their types.                       *)
THEOREM ShareTypeCorrect == Spec => []TypeOK
<1>1. ShareInv => TypeOK
  BY DEF ShareInv
<1> QED
  BY <1>1, ShareInvariant, PTL

(* mission.md:17: however many pages are opened on a link, and however     *)
(* they are clicked, reloaded, retried or cut off, one of them at most     *)
(* ever shows the plaintext.                                               *)
THEOREM OpenedOnceHolds == Spec => []OpenedOnce
<1>1. ASSUME OneReader
      PROVE  OpenedOnce
  <2>1. CASE opened = {}
    BY <2>1, FS_EmptySet DEF OpenedOnce
  <2>2. CASE opened # {}
    <3>1. PICK p : p \in opened
      BY <2>2
    <3>2. opened = {p}
      BY <1>1, <3>1 DEF OneReader
    <3>3. Cardinality({p}) = 1
      BY FS_Singleton
    <3> QED
      BY <3>2, <3>3 DEF OpenedOnce
  <2> QED
    BY <2>1, <2>2
<1>2. ShareInv => OpenedOnce
  BY <1>1 DEF ShareInv
<1> QED
  BY <1>2, ShareInvariant, PTL

(* A page shows the note its link was made for or nothing, also when the   *)
(* fragment was damaged, edited or mixed with another note's.              *)
THEOREM ShowsTheNoteHolds == Spec => []ShowsTheNote
<1>1. ShareInv => ShowsTheNote
  BY DEF ShareInv
<1> QED
  BY <1>1, ShareInvariant, PTL

(* What the status line and the ledger of a page say of the key, of the    *)
(* countdown and of the request is so.                                     *)
THEOREM ClaimsAreTrueHolds == Spec => []ClaimsAreTrue
<1>1. ShareInv => ClaimsAreTrue
  BY DEF ShareInv
<1> QED
  BY <1>1, ShareInvariant, PTL

(* While a click handler awaits something the card stays "working" and the *)
(* fragment stays, so a page has at most one request under way.            *)
THEOREM OneRequestHolds == Spec => []OneRequest
<1>1. ShareInv => OneRequest
  BY DEF ShareInv
<1> QED
  BY <1>1, ShareInvariant, PTL

(* KeyBank receives the id of the note alone, which is what the link       *)
(* anatomy says, and decryptMessage makes nothing of that even with the    *)
(* private key at hand.                                                    *)
THEOREM KeyBankCannotReadHolds == Spec => []KeyBankCannotRead
<1>1. ASSUME ShareInv
      PROVE  KeyBankCannotRead
  <2>1. \A p \in Pages : wire \subseteq links[hash[p]].anatomy
    BY <1>1 DEF ShareInv, OnlyTheId, LinksRead, TypeOK
  <2>2. ASSUME NEW w \in wire, NEW i \in wire, NEW c \in wire
        PROVE  DecryptMessage(PrivatePem("id"), [wrapped |-> w, iv |-> i, ct |-> c]) = Throws
    <3> DEFINE m == [wrapped |-> w, iv |-> i, ct |-> c]
               k == ImportRsaPrivateKey(PrivatePem("id"))
    <3>1. m.wrapped = HexId("id")
      BY <1>1 DEF ShareInv, OnlyTheId
    <3> HIDE DEF m, k
    <3>2. Base64URLToBytes(m.wrapped).is[1] # "oaep"
      BY <3>1, Decoded, Terms
    <3>3. OaepOpen(k, Base64URLToBytes(m.wrapped)) = Throws
      BY <3>2 DEF OaepOpen
    <3>4. DecryptMessage(PrivatePem("id"), m) = Throws
      BY <3>3 DEF DecryptMessage, k
    <3> QED
      BY <3>4 DEF m
  <2> QED
    BY <2>1, <2>2 DEF KeyBankCannotRead
<1> QED
  BY <1>1, ShareInvariant, PTL

(* "It cannot be shown again": a hidden plaintext does not come back.      *)
THEOREM HiddenForGoodHolds == Spec => HiddenForGood
<1>1. ASSUME ShareInv, [Next]_vars, NEW p \in Pages, shown[p] = "hidden"
      PROVE  shown'[p] \in {"hidden", "no"}
  <2>1. fetch[p] = "none"
    BY <1>1 DEF ShareInv, ShownIsOpened, OneRequest
  <2>2. shown' = shown \/ \E q \in Pages : Decrypts(q) \/ TimerTick(q) \/ KeepVisible(q) \/ Reload(q)
    BY <1>1 DEF Next, UserStep, Settles, Copies, Serves, HashChange, Click, FetchFails, FetchNull, FetchOk,
       FetchText, DecryptThrows, CopyClick, CopyWritten, CopyFails, CopyTimer, ServeKey, ServeNotFound,
       ServeError, Answer, Disconnect, ExpireKey, vars, plain, page
  <2>3. ASSUME NEW q \in Pages, Decrypts(q)
        PROVE  shown'[p] = shown[p]
    <3>1. q # p
      BY <2>1, <2>3 DEF Decrypts
    <3> QED
      BY <1>1, <2>3, <3>1 DEF Decrypts, Reveal, ShareInv, TypeOK
  <2>4. ASSUME NEW q \in Pages, TimerTick(q) \/ KeepVisible(q)
        PROVE  shown'[p] = shown[p]
    <3>1. q # p
      BY <1>1, <2>4 DEF TimerTick, KeepVisible
    <3> QED
      BY <1>1, <2>4, <3>1 DEF TimerTick, Hide, KeepVisible, ShareInv, TypeOK
  <2>5. ASSUME NEW q \in Pages, Reload(q)
        PROVE  shown'[p] \in {shown[p], "no"}
    BY <1>1, <2>5 DEF Reload, ShareInv, TypeOK
  <2> QED
    BY <1>1, <2>2, <2>3, <2>4, <2>5
<1>2. ShareInv /\ [Next]_vars => [\A p \in Pages : shown[p] = "hidden" => shown'[p] \in {"hidden", "no"}]_vars
  BY <1>1
<1> QED
  BY <1>2, ShareInvariant, PTL DEF Spec, HiddenForGood

-----------------------------------------------------------------------------
(* The link of the sender reads as the note, and no other reading bears    *)
(* its name.                                                               *)
WholeReads ==
  /\ links["whole"].fragment = [of |-> "whole", text |-> Note]
  /\ \A h \in DOMAIN links : links[h].fragment.of = "whole" => h = "whole"

(* The inductive invariant of IntactLinkWorks, relative to TypeOK.         *)
IntactInv == WholeReads /\ IntactLinkWorks

(* The whole link parses, and its key opens it: LinkRoundTrip for the note. *)
LEMMA ReadingWhole ==
  /\ Reading("whole").fragment = [of |-> "whole", text |-> Note]
  /\ \A h : Reading(h).fragment.of = "whole" => h = "whole"
<1> DEFINE e == EncryptMessage(PublicPem("id"), Note, "r")
           url == [Link EXCEPT !.hash = Content["whole"]]
<1>1. Note.size \in Nat
  BY DEF Note, Text, Bytes
<1>2. Link = BuildShareURL("id", e)
  BY DEF Link
<1>3. ParseFragment(Link.hash) # NoData
  BY <1>1, <1>2, FragmentOfLink, Zenon
<1>4. DecryptMessage(PrivatePem("id"), ParseFragment(Link.hash)) = Note
  <2>1. DecryptMessage(PrivatePem("id"), ParseFragment(BuildShareURL("id", e).hash)) = Note
    BY <1>1, LinkRoundTrip, SMT
  <2> HIDE DEF e
  <2> QED
    BY <1>2, <2>1
<1> HIDE DEF e
<1>5. url.hash = Link.hash
  <2>1. Link = [path |-> Link.path, query |-> Link.query, hash |-> Link.hash]
    BY DEF Link, BuildShareURL
  <2>2. Content["whole"] = Link.hash
    BY DEF Content
  <2> QED
    BY <2>1, <2>2
<1>6. Reading("whole").fragment = IF ParseFragment(url.hash) = NoData THEN Null
                                  ELSE [of |-> "whole", text |-> DecryptMessage(PrivatePem("id"), ParseFragment(url.hash))]
  BY DEF Reading
<1> HIDE DEF url
<1>7. Reading("whole").fragment = [of |-> "whole", text |-> Note]
  BY <1>3, <1>4, <1>5, <1>6
<1>8. ASSUME NEW h, Reading(h).fragment.of = "whole"
      PROVE  h = "whole"
  <2> DEFINE f == ParseFragment([Link EXCEPT !.hash = Content[h]].hash)
             x == DecryptMessage(PrivatePem("id"), f)
             nothing == f = NoData
  <2>1. Reading(h).fragment = IF nothing THEN Null ELSE [of |-> h, text |-> x]
    BY DEF Reading
  <2> HIDE DEF f, x, nothing
  <2>2. Null.of = "null"
    BY DEF Null
  <2> QED
    BY <1>8, <2>1, <2>2
<1> QED
  BY <1>7, <1>8

LEMMA IntactInit == Init => IntactInv
<1> SUFFICES ASSUME Init
             PROVE  IntactInv
  OBVIOUS
<1>1. "whole" \in DOMAIN Content /\ links = [h \in DOMAIN Content |-> Reading(h)]
  BY DEF Init, Content
<1>2. \A h \in DOMAIN Content : links[h] = Reading(h)
  BY <1>1
<1>3. WholeReads
  BY <1>1, <1>2, ReadingWhole DEF WholeReads
<1>4. links["whole"].fragment # Null
  BY <1>3 DEF WholeReads, Null
<1>5. IntactLinkWorks
  BY <1>4 DEF Init, IntactLinkWorks, Inspected, InspectedSays, Parsed
<1> QED
  BY <1>3, <1>5 DEF IntactInv

(* A page that finds the whole fragment is never "invalid", and a page     *)
(* that gives up on decrypting had another one when it was clicked.        *)
LEMMA IntactStep == TypeOK /\ IntactInv /\ [Next]_vars => IntactInv'
<1> SUFFICES ASSUME TypeOK, IntactInv, [Next]_vars
             PROVE  IntactInv'
  OBVIOUS
<1>1. links' = links
  BY DEF Next, UserStep, Settles, Copies, Serves, HashChange, Click, FetchFails, FetchNull, FetchOk,
     FetchText, Decrypts, DecryptThrows, TimerTick, KeepVisible, Reload, CopyClick, CopyWritten, CopyFails,
     CopyTimer, ServeKey, ServeNotFound, ServeError, Answer, Disconnect, ExpireKey, vars, page
<1>2. WholeReads'
  BY <1>1 DEF IntactInv, WholeReads
<1>3. links["whole"].fragment # Null
  BY DEF IntactInv, WholeReads, Null
<1>4. \A h : /\ Inspected(h) = "invalid" => h # "whole"
             /\ Inspected(h) \in {"invalid", "ready"} /\ InspectedSays(h) # "undecryptable"
  BY <1>3 DEF Inspected, InspectedSays, Parsed
<1>5. ASSUME NEW p \in Pages
      PROVE  /\ state'[p] = "invalid" => hash'[p] # "whole"
             /\ status'[p] = "undecryptable" => fragment'[p].of # "whole"
  <2>1. /\ state[p] = "invalid" => hash[p] # "whole"
        /\ status[p] = "undecryptable" => fragment[p].of # "whole"
    BY DEF IntactInv, IntactLinkWorks
  <2>2. /\ hash \in [Pages -> DOMAIN links] /\ fragment \in [Pages -> {links[h].fragment : h \in DOMAIN links}]
        /\ DOMAIN state = Pages /\ DOMAIN status = Pages
        /\ state = [q \in Pages |-> state[q]] /\ status = [q \in Pages |-> status[q]]
    BY DEF TypeOK
  <2>3. CASE UNCHANGED <<hash, fragment, state, status>>
    BY <2>1, <2>3
  <2>4. ASSUME NEW q \in Pages, NEW s \in {"ready", "working", "open", "spent"}, NEW c \in Claims \ {"undecryptable"},
               Shows(q, s, c), UNCHANGED <<hash, fragment>>
        PROVE  /\ state'[p] = "invalid" => hash'[p] # "whole"
               /\ status'[p] = "undecryptable" => fragment'[p].of # "whole"
    BY <2>1, <2>2, <2>4 DEF Shows
  <2>5. ASSUME NEW q \in Pages, NEW c \in Claims \ {"undecryptable"},
               status' = [status EXCEPT ![q] = c], UNCHANGED <<hash, fragment, state>>
        PROVE  /\ state'[p] = "invalid" => hash'[p] # "whole"
               /\ status'[p] = "undecryptable" => fragment'[p].of # "whole"
    BY <2>1, <2>2, <2>5
  <2>6. ASSUME NEW q \in Pages, NEW h \in DOMAIN links, HashChange(q, h)
        PROVE  /\ state'[p] = "invalid" => hash'[p] # "whole"
               /\ status'[p] = "undecryptable" => fragment'[p].of # "whole"
    BY <1>4, <2>1, <2>2, <2>6 DEF HashChange
  <2>7. ASSUME NEW q \in Pages, Reload(q)
        PROVE  /\ state'[p] = "invalid" => hash'[p] # "whole"
               /\ status'[p] = "undecryptable" => fragment'[p].of # "whole"
    BY <1>4, <2>1, <2>2, <2>7 DEF Reload, Shows
  <2>8. ASSUME NEW q \in Pages, DecryptThrows(q)
        PROVE  /\ state'[p] = "invalid" => hash'[p] # "whole"
               /\ status'[p] = "undecryptable" => fragment'[p].of # "whole"
    <3>1. fragment[q].of # "whole"
      <4>1. PICK h \in DOMAIN links : fragment[q] = links[h].fragment
        BY <2>2
      <4>2. fragment[q].text = Throws
        BY <2>8 DEF DecryptThrows
      <4>3. links["whole"].fragment.text = Note /\ (links[h].fragment.of = "whole" => h = "whole")
        BY DEF IntactInv, WholeReads
      <4> QED
        BY <4>1, <4>2, <4>3, Terms
    <3> QED
      BY <2>1, <2>2, <2>8, <3>1 DEF DecryptThrows, Shows
  <2>9. ASSUME NEW q \in Pages, Click(q) \/ FetchFails(q) \/ FetchNull(q) \/ Decrypts(q)
        PROVE  \E s \in {"ready", "working", "open", "spent"}, c \in Claims \ {"undecryptable"} :
                 Shows(q, s, c) /\ UNCHANGED <<hash, fragment>>
    BY <2>9 DEF Click, FetchFails, FetchThrows, FetchNull, Decrypts, Claims
  <2>10. ASSUME NEW q \in Pages, FetchText(q)
         PROVE  \/ Shows(q, "ready", "failed") /\ UNCHANGED <<hash, fragment>>
                \/ UNCHANGED <<hash, fragment, state, status>>
    BY <2>10 DEF FetchText, FetchThrows
  <2>11. ASSUME NEW q \in Pages, TimerTick(q) \/ KeepVisible(q) \/ CopyFails(q)
         PROVE  /\ UNCHANGED <<hash, fragment, state>>
                /\ status' = status \/ \E c \in Claims \ {"undecryptable"} : status' = [status EXCEPT ![q] = c]
    BY <2>11 DEF TimerTick, Hide, KeepVisible, CopyFails, Claims
  <2>12. ASSUME NEW q \in Pages,
                FetchOk(q) \/ CopyClick(q) \/ CopyWritten(q) \/ CopyTimer(q) \/ Serves(q)
         PROVE  UNCHANGED <<hash, fragment, state, status>>
    BY <2>12 DEF FetchOk, CopyClick, CopyWritten, CopyTimer, Serves, ServeKey, ServeNotFound, ServeError,
       Answer, Disconnect, page
  <2>13. ASSUME ExpireKey \/ UNCHANGED vars
         PROVE  UNCHANGED <<hash, fragment, state, status>>
    BY <2>13 DEF ExpireKey, page, vars
  <2>14. "failed" \in Claims \ {"undecryptable"}
    BY DEF Claims
  <2>15. CASE ExpireKey \/ UNCHANGED vars
    BY <2>3, <2>13, <2>15
  <2>16. CASE \E q \in Pages : UserStep(q) \/ Settles(q) \/ TimerTick(q) \/ Copies(q) \/ CopyTimer(q) \/ Serves(q)
    <3>1. PICK q \in Pages : UserStep(q) \/ Settles(q) \/ TimerTick(q) \/ Copies(q) \/ CopyTimer(q) \/ Serves(q)
      BY <2>16
    <3>2. CASE UserStep(q)
      BY <2>3, <2>4, <2>5, <2>6, <2>7, <2>9, <2>11, <2>12, <3>2, Zenon DEF UserStep
    <3>3. CASE Settles(q)
      <4>1. CASE FetchText(q)
        BY <2>3, <2>4, <2>10, <2>14, <4>1
      <4> QED
        BY <2>3, <2>4, <2>8, <2>9, <2>12, <3>3, <4>1, Zenon DEF Settles
    <3>4. CASE TimerTick(q) \/ Copies(q) \/ CopyTimer(q) \/ Serves(q)
      <4>1. CASE TimerTick(q) \/ CopyFails(q)
        BY <2>3, <2>5, <2>11, <4>1, Zenon
      <4>2. CASE CopyWritten(q) \/ CopyTimer(q) \/ Serves(q)
        BY <2>3, <2>12, <4>2, Zenon
      <4> QED
        BY <3>4, <4>1, <4>2 DEF Copies
    <3> QED
      BY <3>1, <3>2, <3>3, <3>4
  <2> QED
    BY <2>15, <2>16 DEF Next
<1> QED
  BY <1>2, <1>5 DEF IntactInv, IntactLinkWorks

(* The link the sender's page builds is one the recipient's page accepts   *)
(* and can decrypt, on every page and after every edit of the address and  *)
(* every reload: only a damaged one is called malformed or corrupted.      *)
THEOREM IntactLinkWorksHolds == Spec => []IntactLinkWorks
<1>1. TypeOK /\ IntactInv /\ [Next]_vars => IntactInv'
  BY IntactStep
<1>2. IntactInv => IntactLinkWorks
  BY DEF IntactInv
<1> QED
  BY <1>1, <1>2, IntactInit, ShareTypeCorrect, PTL DEF Spec

-----------------------------------------------------------------------------
(* All that a step does to the pages that have the key or showed the note: *)
(* it may take the key from a page or from the server, hand the key to one *)
(* page, or let a page that has it show the note.                          *)
LEMMA ReaderSteps ==
  ASSUME ShareInv, [Next]_vars
  PROVE  \/ opened' = opened /\ Holders' \subseteq Holders /\ key' \in {key, "gone"}
         \/ /\ key = "live" /\ key' = "gone" /\ opened' = opened
            /\ \E p \in Pages : Holders' = Holders \cup {p}
         \/ \E p \in Pages : /\ p \in Holders /\ Holders' = Holders \ {p}
                             /\ opened' = opened \cup {p} /\ key' = key
<1> DEFINE Drops == opened' = opened /\ Holders' \subseteq Holders /\ key' \in {key, "gone"}
<1>0. FetchTypes
  BY TypeParts DEF ShareInv
<1> USE DEF plain, server, page
<1>1. UNCHANGED <<fetch, opened>> /\ key' \in {key, "gone"} => Drops
  BY DEF Holders
<1>2. ASSUME NEW p \in Pages, (\E h \in DOMAIN links : HashChange(p, h)) \/ TimerTick(p) \/ KeepVisible(p)
                              \/ CopyClick(p) \/ Copies(p) \/ CopyTimer(p)
      PROVE  Drops
  BY <1>1, <1>2 DEF HashChange, TimerTick, KeepVisible, CopyClick, Copies, CopyWritten, CopyFails, CopyTimer
<1>3. ASSUME NEW p \in Pages, Click(p) \/ Reload(p)
      PROVE  Drops
  BY <1>0, <1>3 DEF Click, Reload, Holders, FetchTypes
<1>4. ASSUME NEW p \in Pages, FetchFails(p) \/ FetchNull(p) \/ FetchOk(p) \/ FetchText(p) \/ DecryptThrows(p)
      PROVE  Drops
  BY <1>0, <1>4 DEF FetchFails, FetchNull, FetchOk, FetchText, DecryptThrows, Holders, FetchTypes
<1>5. ASSUME NEW p \in Pages, ServeNotFound(p) \/ ServeError(p) \/ Disconnect(p)
      PROVE  Drops
  BY <1>0, <1>5 DEF ServeNotFound, ServeError, Disconnect, Answer, Holders, FetchTypes
<1>6. ASSUME NEW p \in Pages, ServeKey(p)
      PROVE  key = "live" /\ key' = "gone" /\ opened' = opened /\ Holders' = Holders \cup {p}
  BY <1>0, <1>6 DEF ServeKey, Answer, Holders, FetchTypes
<1>7. ASSUME NEW p \in Pages, Decrypts(p)
      PROVE  p \in Holders /\ Holders' = Holders \ {p} /\ opened' = opened \cup {p} /\ key' = key
  BY <1>0, <1>7 DEF Decrypts, Reveal, Holders, FetchTypes
<1>8. ASSUME ExpireKey \/ UNCHANGED vars
      PROVE  Drops
  BY <1>1, <1>8 DEF ExpireKey, vars
<1> HIDE DEF Drops
<1>9. Drops \/ (\E p \in Pages : ServeKey(p)) \/ (\E p \in Pages : Decrypts(p))
  BY <1>2, <1>3, <1>4, <1>5, <1>8 DEF Next, UserStep, Settles, Serves
<1> QED
  BY <1>6, <1>7, <1>9 DEF Drops

(* Every step is one of OneTimeNote or none.                               *)
LEMMA PromiseStep == ShareInv /\ ShareInv' /\ [Next]_vars => [Promise!Next]_(Promise!vars)
<1> SUFFICES ASSUME ShareInv, ShareInv', [Next]_vars
             PROVE  [Promise!Next]_(Promise!vars)
  OBVIOUS
<1>0. OneReader /\ key \in {"live", "gone"} /\ key' \in {"live", "gone"}
  BY DEF ShareInv, TypeOK
<1>a. /\ opened # {} => Fate = "read"
      /\ opened = {} /\ Holders # {} => Fate = "held"
      /\ opened = {} /\ Holders = {} => Fate = IF key = "live" THEN "sealed" ELSE "lost"
  BY DEF Fate
<1>b. /\ opened' # {} => Fate' = "read"
      /\ opened' = {} /\ Holders' # {} => Fate' = "held"
      /\ opened' = {} /\ Holders' = {} => Fate' = IF key' = "live" THEN "sealed" ELSE "lost"
  BY DEF Fate
<1>c. Promise!vars = <<Fate, opened \cup Holders>>
  BY DEF Promise!vars
<1>d. Fate' = Fate /\ opened' \cup Holders' = opened \cup Holders => UNCHANGED Promise!vars
  BY DEF Promise!vars
<1>1. CASE opened' = opened /\ Holders' \subseteq Holders /\ key' \in {key, "gone"}
  <2>1. CASE opened # {}
    <3>1. Holders = {} /\ Holders' = {}
      BY <1>0, <1>1, <2>1 DEF OneReader
    <3> QED
      BY <1>1, <1>a, <1>b, <1>d, <2>1, <3>1
  <2>2. CASE opened = {} /\ Holders' # {}
    <3>1. Holders' = Holders
      BY <1>0, <1>1, <2>2 DEF OneReader
    <3> QED
      BY <1>1, <1>a, <1>b, <1>d, <2>2, <3>1
  <2>3. CASE opened = {} /\ Holders' = {} /\ Holders # {}
    <3>1. key' = "gone"
      BY <1>0, <1>1, <2>3 DEF OneReader
    <3>2. Fate = "held" /\ Fate' = "lost" /\ opened' \cup Holders' = {}
      BY <1>1, <1>a, <1>b, <2>3, <3>1
    <3> QED
      BY <3>2 DEF Promise!Next, Promise!Lose
  <2>4. CASE opened = {} /\ Holders' = {} /\ Holders = {}
    <3>1. CASE key' = key
      BY <1>1, <1>a, <1>b, <1>d, <2>4, <3>1
    <3>2. CASE key' # key
      <4>1. Fate = "sealed" /\ Fate' = "lost" /\ opened' \cup Holders' = {}
        BY <1>0, <1>1, <1>a, <1>b, <2>4, <3>2
      <4> QED
        BY <4>1 DEF Promise!Next, Promise!Lose
    <3> QED
      BY <3>1, <3>2
  <2> QED
    BY <2>1, <2>2, <2>3, <2>4
<1>2. ASSUME NEW p \in Pages, key = "live", key' = "gone", opened' = opened, Holders' = Holders \cup {p}
      PROVE  Promise!Next
  <2>1. opened = {} /\ Holders = {} /\ opened' = {} /\ Holders' = {p}
    BY <1>0, <1>2 DEF OneReader
  <2>2. Fate = "sealed" /\ Fate' = "held" /\ opened' \cup Holders' = {p}
    BY <1>2, <1>a, <1>b, <2>1
  <2> QED
    BY <2>2 DEF Promise!Next, Promise!Hand
<1>3. ASSUME NEW p \in Pages, p \in Holders, Holders' = Holders \ {p}, opened' = opened \cup {p}
      PROVE  Promise!Next
  <2>1. Holders = {p} /\ opened = {} /\ Holders' = {} /\ opened' = {p}
    BY <1>0, <1>3 DEF OneReader
  <2>2. Fate = "held" /\ Fate' = "read" /\ opened \cup Holders = {p} /\ opened' \cup Holders' = {p}
    BY <1>a, <1>b, <2>1
  <2> QED
    BY <2>2 DEF Promise!Next, Promise!Show
<1> QED
  BY <1>1, <1>2, <1>3, ReaderSteps

(* Delete on read, end to end: over all pages, answers, reloads and broken *)
(* connections the note goes to one page at most, which shows or loses it, *)
(* and nobody comes after it.                                              *)
THEOREM ShareImplements == Spec => ImplementsOneTimeNote
<1>1. Init => Promise!Init
  <2> SUFFICES ASSUME Init
               PROVE  Promise!Init
    OBVIOUS
  <2>1. opened = {} /\ Holders = {} /\ key \in {"live", "gone"}
    BY DEF Init, Holders
  <2>2. Fate \in {"sealed", "lost"}
    BY <2>1 DEF Fate
  <2> QED
    BY <2>1, <2>2 DEF Promise!Init
<1>2. ShareInv /\ ShareInv' /\ [Next]_vars => [Promise!Next]_(Promise!vars)
  BY PromiseStep
<1> QED
  BY <1>1, <1>2, ShareInvariant, PTL DEF Spec, ImplementsOneTimeNote, Promise!Spec
=============================================================================
