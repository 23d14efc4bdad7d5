----------------------------- MODULE SharePage -----------------------------
(***************************************************************************)
(* The recipient's side: several copies of the share page of one note      *)
(* (static/share.js with send and fetchKey of static/api.js and copyText   *)
(* of static/ui.js) against the server that holds the note's private key.  *)
(*                                                                         *)
(* The link is the one NoteLink builds for the note; its fragment may be   *)
(* damaged on the way or edited.  The server is seen through its answers.  *)
(***************************************************************************)
EXTENDS NoteLink, Sequences

CONSTANTS Pages,            \* tabs, possibly of different people, on the link
          AutoHideSeconds,  \* data-autohide-seconds, in timer ticks
          MaxCopies         \* bound on the clicks of the copy button

ASSUME SharePageAssumption == AutoHideSeconds \in Nat \ {0} /\ MaxCopies \in Nat

Note  == Text("note", 5)
Link  == BuildShareURL("id", EncryptMessage(PublicPem("id"), Note, "r"))
Other == BuildShareURL("other", EncryptMessage(PublicPem("other"), Text("other", 7), "s"))

(* The last k characters of an encoded string are lost.                    *)
Cut(s, k) == [s EXCEPT !.bytes = Garbage, !.len = @ - k]

(* What a page may find behind the '#': the sender's fragment, one mixed   *)
(* with another note's, one with so many characters lost that the rest is  *)
(* no base64 any more, and one without its ciphertext.                     *)
Content ==
  [whole   |-> Link.hash,
   mixed   |-> [Link.hash EXCEPT !.c = Other.hash.c],
   torn    |-> [Link.hash EXCEPT !.c = Cut(@, 3)],
   missing |-> [Link.hash EXCEPT !.c = Absent]]

(* renderAnatomy: the part of the link that the page shows as sent.        *)
Anatomy(url) == SplitShareURL(url).sent

Null == [of |-> "null", text |-> Throws]

(* What the page makes of the link with a given hash: the part a browser   *)
(* sends, the link anatomy, and the fragment, known by its hash and by     *)
(* what decryptMessage gets from it with the note's private key (Null when *)
(* parseFragment throws).                                                  *)
Reading(h) ==
  LET url    == [Link EXCEPT !.hash = Content[h]]
      parsed == ParseFragment(url.hash)
  IN  [sent     |-> Requested(url),
       anatomy  |-> Anatomy(url),
       fragment |-> IF parsed = NoData THEN Null
                    ELSE [of |-> h, text |-> DecryptMessage(PrivatePem("id"), parsed)]]

VARIABLES links,      \* links[h]: the reading of the link with hash h, fixed
          hash,       \* hash[p]: window.location.hash
          fragment,   \* fragment[p]: the parsed fragment, or Null
          state,      \* state[p]: card.dataset.state
          status,     \* status[p]: what the status line says
          fetch,      \* fetch[p]: where the click handler's awaits are
          ledger,     \* ledger[p]: the reply in the newest entry of the ledger
          output,     \* output[p]: the plaintext on screen, Throws when none
          shown,      \* shown[p]: how long it stays there
          remaining,  \* remaining[p]: ticks until it is hidden
          copy,       \* copy[p]: the copy button
          wire,       \* everything sent to KeyBank
          key,        \* the private key on the server
          opened      \* history: the pages that ever showed a plaintext

plain  == <<output, shown, remaining, opened>>
server == <<wire, key>>
vars   == <<hash, fragment, state, status, fetch, ledger, plain, copy, server, links>>
page   == <<links, hash, fragment, state, status, ledger, plain, copy>>

Claims  == {"idle", "malformed", "working", "failed", "spent", "undecryptable",
            "decrypted", "kept", "hidden", "uncopied"}
Replies == {"page", "waiting", "200", "404", "error", "none"}

(* The button as copyText sees it; timers holds the labels to put back.    *)
NewCopy  == [clicks |-> 0, writing |-> 0, label |-> "Copy", marked |-> FALSE, timers |-> << >>]

TypeOK ==
  /\ hash \in [Pages -> DOMAIN links]
  /\ fragment \in [Pages -> {links[h].fragment : h \in DOMAIN links}]
  /\ state \in [Pages -> {"ready", "invalid", "working", "open", "spent"}]
  /\ status \in [Pages -> Claims]
  /\ fetch \in [Pages -> {"none", "sent", "200", "404", "error", "broken", "body", "cut", "decrypt"}]
  /\ ledger \in [Pages -> Replies]
  /\ output \in [Pages -> {Throws, Note}]
  /\ shown \in [Pages -> {"no", "counting", "kept", "hidden"}]
  /\ remaining \in [Pages -> 0..AutoHideSeconds]
  /\ copy \in [Pages -> [clicks : 0..MaxCopies, writing : 0..MaxCopies, label : {"Copy", "Copied"},
                         marked : BOOLEAN, timers : Seq({"Copy", "Copied"})]]
  /\ key \in {"live", "gone"}
  /\ opened \subseteq Pages

(* inspectLink: the fragment, the state of the card and the status line.                 *)
Parsed(h)        == links[h].fragment
Inspected(h)     == IF Parsed(h) = Null THEN "invalid" ELSE "ready"
InspectedSays(h) == IF Parsed(h) = Null THEN "malformed" ELSE "idle"

(* app.js: the first entry of the ledger is the request of the page itself. *)
NewLedger == "page"

(* The page is requested and app.js and initSharePage run.                 *)
Init ==
  /\ links = [h \in DOMAIN Content |-> Reading(h)]
  /\ hash \in [Pages -> DOMAIN links]
  /\ fragment = [p \in Pages |-> Parsed(hash[p])]
  /\ state = [p \in Pages |-> Inspected(hash[p])]
  /\ status = [p \in Pages |-> InspectedSays(hash[p])]
  /\ fetch = [p \in Pages |-> "none"]
  /\ ledger = [p \in Pages |-> NewLedger]
  /\ output = [p \in Pages |-> Throws]
  /\ shown = [p \in Pages |-> "no"]
  /\ remaining = [p \in Pages |-> 0]
  /\ copy = [p \in Pages |-> NewCopy]
  /\ wire = UNION {links[hash[p]].sent : p \in Pages}
  /\ key \in {"live", "gone"}
  /\ opened = {}

-----------------------------------------------------------------------------
(* Faulty variant of HashChange: the state of the card is not looked at. *)
InspectAlways(p, h) ==
  /\ hash[p] # h
  /\ hash' = [hash EXCEPT ![p] = h]
  /\ fragment' = [fragment EXCEPT ![p] = Parsed(h)]
  /\ state' = [state EXCEPT ![p] = Inspected(h)]
  /\ status' = [status EXCEPT ![p] = InspectedSays(h)]
  /\ UNCHANGED <<links, fetch, ledger, plain, copy, server>>

(* The user edits the address bar: the hashchange listener inspects the    *)
(* new link only in the states ready and invalid.                          *)
HashChange(p, h) ==
  /\ hash[p] # h
  /\ hash' = [hash EXCEPT ![p] = h]
  /\ IF state[p] \in {"ready", "invalid"}
       THEN /\ fragment' = [fragment EXCEPT ![p] = Parsed(h)]
            /\ state' = [state EXCEPT ![p] = Inspected(h)]
            /\ status' = [status EXCEPT ![p] = InspectedSays(h)]
       ELSE UNCHANGED <<fragment, state, status>>
  /\ UNCHANGED <<links, fetch, ledger, plain, copy, server>>

Shows(p, s, claim) ==
  /\ state' = [state EXCEPT ![p] = s]
  /\ status' = [status EXCEPT ![p] = claim]

(* setState disables the button in every state but ready.                  *)
ButtonEnabled(p) == state[p] = "ready"

Click(p) ==
  /\ ButtonEnabled(p)
  /\ fragment[p] # Null
  /\ Shows(p, "working", "working")
  /\ fetch' = [fetch EXCEPT ![p] = "sent"]
  /\ ledger' = [ledger EXCEPT ![p] = "waiting"]
  /\ wire' = wire \cup {HexId("id")}
  /\ UNCHANGED <<links, hash, fragment, plain, copy, key>>

(* send: the reply is written into the entry of this request.              *)
Settle(p, reply) == ledger' = [ledger EXCEPT ![p] = reply]

(* Faulty variant of FetchThrows: any failure counts as a spent note. *)
FailureIsSpent(p) == Shows(p, "spent", "spent")

(* Faulty variant of FetchThrows: the error is not caught. *)
FailureUncaught(p) == UNCHANGED <<state, status>>

(* fetchKey threw: the page offers another try.                            *)
FetchThrows(p) == Shows(p, "ready", "failed")

(* No response at all, or a status that is neither 200 nor 404.            *)
FetchFails(p) ==
  /\ fetch[p] \in {"broken", "error"}
  /\ Settle(p, IF fetch[p] = "broken" THEN "none" ELSE "error")
  /\ fetch' = [fetch EXCEPT ![p] = "none"]
  /\ FetchThrows(p)
  /\ UNCHANGED <<links, hash, fragment, plain, copy, server>>

FetchNull(p) ==
  /\ fetch[p] = "404"
  /\ Settle(p, "404")
  /\ fetch' = [fetch EXCEPT ![p] = "none"]
  /\ Shows(p, "spent", "spent")
  /\ UNCHANGED <<links, hash, fragment, plain, copy, server>>

(* The status is 200: response.text() is awaited next.                     *)
FetchOk(p) ==
  /\ fetch[p] = "200"
  /\ Settle(p, "200")
  /\ fetch' = [fetch EXCEPT ![p] = "body"]
  /\ UNCHANGED <<links, hash, fragment, state, status, plain, copy, server>>

(* It rejects when the body breaks off, or resolves to the private key.    *)
FetchText(p) ==
  /\ \/ fetch[p] = "cut" /\ fetch' = [fetch EXCEPT ![p] = "none"] /\ FetchThrows(p)
     \/ fetch[p] = "body" /\ fetch' = [fetch EXCEPT ![p] = "decrypt"] /\ UNCHANGED <<state, status>>
  /\ UNCHANGED <<links, hash, fragment, ledger, plain, copy, server>>

(* reveal puts the plaintext on screen and starts its countdown.           *)
Reveal(p, plaintext) ==
  /\ output' = [output EXCEPT ![p] = plaintext]
  /\ shown' = [shown EXCEPT ![p] = "counting"]
  /\ remaining' = [remaining EXCEPT ![p] = AutoHideSeconds]
  /\ opened' = opened \cup {p}

(* decryptMessage resolves.                                                *)
Decrypts(p) ==
  /\ fetch[p] = "decrypt"
  /\ fragment[p].text # Throws
  /\ fetch' = [fetch EXCEPT ![p] = "none"]
  /\ Shows(p, "open", "decrypted")
  /\ Reveal(p, fragment[p].text)
  /\ UNCHANGED <<links, hash, fragment, ledger, copy, server>>

DecryptThrows(p) ==
  /\ fetch[p] = "decrypt"
  /\ fragment[p].text = Throws
  /\ fetch' = [fetch EXCEPT ![p] = "none"]
  /\ Shows(p, "spent", "undecryptable")
  /\ UNCHANGED <<links, hash, fragment, ledger, plain, copy, server>>

-----------------------------------------------------------------------------
(* hide() of reveal: it clears the timer and the text.                     *)
Hide(p) ==
  /\ output' = [output EXCEPT ![p] = Throws]
  /\ shown' = [shown EXCEPT ![p] = "hidden"]
  /\ status' = [status EXCEPT ![p] = "hidden"]

(* Faulty variant of TimerTick: without Math.max zero may be skipped. *)
TickUnclamped(p) ==
  /\ shown[p] = "counting"
  /\ \E elapsed \in 1..AutoHideSeconds : remaining' = [remaining EXCEPT ![p] = @ - elapsed]
  /\ IF remaining'[p] = 0 THEN Hide(p) ELSE UNCHANGED <<output, shown, status>>
  /\ UNCHANGED <<links, hash, fragment, state, fetch, ledger, copy, server, opened>>

(* Faulty variant of TimerTick: the countdown stops at zero, text on screen. *)
TickStopsAtZero(p) ==
  /\ shown[p] = "counting" /\ remaining[p] > 0
  /\ remaining' = [remaining EXCEPT ![p] = @ - 1]
  /\ UNCHANGED <<links, hash, fragment, state, status, fetch, ledger, output, shown, copy, server, opened>>

(* The interval timer of reveal reads the clock: in a tab that was put to  *)
(* sleep any time may have passed since its last call.                     *)
TimerTick(p) ==
  /\ shown[p] = "counting"
  /\ \E elapsed \in 1..AutoHideSeconds : remaining' = [remaining EXCEPT ![p] = Max({0, @ - elapsed})]
  /\ IF remaining'[p] = 0 THEN Hide(p) ELSE UNCHANGED <<output, shown, status>>
  /\ UNCHANGED <<links, hash, fragment, state, fetch, ledger, copy, server, opened>>

(* Faulty variant of KeepVisible: it still works on a hidden plaintext. *)
KeepHidden(p) ==
  /\ shown[p] \in {"counting", "hidden"}
  /\ shown' = [shown EXCEPT ![p] = "kept"]
  /\ remaining' = [remaining EXCEPT ![p] = 0]
  /\ status' = [status EXCEPT ![p] = "kept"]
  /\ UNCHANGED <<links, hash, fragment, state, fetch, ledger, output, copy, server, opened>>

KeepVisible(p) ==
  /\ shown[p] = "counting"
  /\ shown' = [shown EXCEPT ![p] = "kept"]
  /\ remaining' = [remaining EXCEPT ![p] = 0]
  /\ status' = [status EXCEPT ![p] = "kept"]
  /\ UNCHANGED <<links, hash, fragment, state, fetch, ledger, output, copy, server, opened>>

(* The copy button of the plaintext: copyText awaits the clipboard.        *)
CopyClick(p) ==
  /\ shown[p] \in {"counting", "kept"}
  /\ copy[p].clicks < MaxCopies
  /\ copy' = [copy EXCEPT ![p].clicks = @ + 1, ![p].writing = @ + 1]
  /\ UNCHANGED <<links, hash, fragment, state, status, fetch, ledger, plain, server>>

(* Faulty variant of CopyWritten: the timer is set for the first click only. *)
CopyWrittenOnce(p) ==
  /\ copy[p].writing > 0
  /\ copy' = [copy EXCEPT ![p] = [copy[p] EXCEPT !.writing = copy[p].writing - 1, !.label = "Copied", !.marked = TRUE,
                !.timers = IF copy[p].clicks > 1 THEN copy[p].timers ELSE Append(copy[p].timers, copy[p].label)]]
  /\ UNCHANGED <<links, hash, fragment, state, status, fetch, ledger, plain, server>>

(* Its promise resolves: the button confirms and a timer will restore the  *)
(* label it has now.                                                       *)
CopyWritten(p) ==
  /\ copy[p].writing > 0
  /\ copy' = [copy EXCEPT ![p] = [copy[p] EXCEPT !.writing = copy[p].writing - 1, !.label = "Copied", !.marked = TRUE,
                !.timers = Append(copy[p].timers, copy[p].label)]]
  /\ UNCHANGED <<links, hash, fragment, state, status, fetch, ledger, plain, server>>

CopyFails(p) ==
  /\ copy[p].writing > 0
  /\ copy' = [copy EXCEPT ![p].writing = @ - 1]
  /\ status' = [status EXCEPT ![p] = "uncopied"]
  /\ UNCHANGED <<links, hash, fragment, state, fetch, ledger, plain, server>>

(* The timers all run for two seconds: the oldest fires first.             *)
CopyTimer(p) ==
  /\ copy[p].timers # << >>
  /\ copy' = [copy EXCEPT ![p] = [copy[p] EXCEPT !.label = Head(copy[p].timers), !.marked = FALSE,
                !.timers = Tail(copy[p].timers)]]
  /\ UNCHANGED <<links, hash, fragment, state, status, fetch, ledger, plain, server>>

(* The tab is reloaded: initSharePage runs again, an unread answer is lost. *)
Reload(p) ==
  /\ fragment' = [fragment EXCEPT ![p] = Parsed(hash[p])]
  /\ Shows(p, Inspected(hash[p]), InspectedSays(hash[p]))
  /\ fetch' = [fetch EXCEPT ![p] = "none"]
  /\ ledger' = [ledger EXCEPT ![p] = NewLedger]
  /\ output' = [output EXCEPT ![p] = Throws]
  /\ shown' = [shown EXCEPT ![p] = "no"]
  /\ remaining' = [remaining EXCEPT ![p] = 0]
  /\ copy' = [copy EXCEPT ![p] = NewCopy]
  /\ wire' = wire \cup links[hash[p]].sent
  /\ UNCHANGED <<links, hash, key, opened>>

-----------------------------------------------------------------------------
(* GET /api/keys/{id}, as FetchKey answers it over a key store that gives  *)
(* a record out at most once.                                              *)
Answer(p, a) == fetch[p] = "sent" /\ fetch' = [fetch EXCEPT ![p] = a] /\ UNCHANGED <<wire, page>>

(* Faulty variant of ServeKey: the key is read and not deleted. *)
ServeKeyAgain(p) == Answer(p, "200") /\ key = "live" /\ UNCHANGED key

ServeKey(p) == Answer(p, "200") /\ key = "live" /\ key' = "gone"

(* 404 when there is no key, or when the client library repeated a GETDEL  *)
(* whose first answer was lost.                                            *)
ServeNotFound(p) == Answer(p, "404") /\ key' = "gone"

(* 429 leaves the key alone; a 500 may have consumed it.                   *)
ServeError(p) == Answer(p, "error") /\ key' \in {key, "gone"}

(* The connection breaks before the request arrives, after the answer was  *)
(* sent, or while the body is read.                                        *)
Disconnect(p) ==
  /\ \/ fetch[p] \in {"sent", "200", "404", "error"} /\ fetch' = [fetch EXCEPT ![p] = "broken"]
     \/ fetch[p] = "body" /\ fetch' = [fetch EXCEPT ![p] = "cut"]
  /\ UNCHANGED <<server, page>>

ExpireKey == key = "live" /\ key' = "gone" /\ UNCHANGED <<fetch, wire, page>>

Settles(p)  == FetchFails(p) \/ FetchNull(p) \/ FetchOk(p) \/ FetchText(p) \/ Decrypts(p) \/ DecryptThrows(p)
Serves(p)   == ServeKey(p) \/ ServeNotFound(p) \/ ServeError(p) \/ Disconnect(p)
Copies(p)   == CopyWritten(p) \/ CopyFails(p)
UserStep(p) == \/ \E h \in DOMAIN links : HashChange(p, h)
               \/ Click(p) \/ KeepVisible(p) \/ CopyClick(p) \/ Reload(p)

Next ==
  \/ \E p \in Pages : UserStep(p) \/ Settles(p) \/ TimerTick(p) \/ Copies(p) \/ CopyTimer(p) \/ Serves(p)
  \/ ExpireKey

Spec == Init /\ [][Next]_vars

(* Promises settle, timers fire, and the server (WriteTimeout 15 s) or the *)
(* network ends every request.  The user owes nothing.                     *)
Fairness == \A p \in Pages : /\ WF_vars(Settles(p))
                             /\ WF_vars(TimerTick(p))
                             /\ WF_vars(Copies(p))
                             /\ WF_vars(CopyTimer(p))
                             /\ WF_vars(fetch[p] = "sent" /\ Serves(p))

FairSpec == Spec /\ Fairness

-----------------------------------------------------------------------------
(* mission.md:17: the note is read at most once.  Of all the pages opened  *)
(* on a link, however often they are reloaded, retried or raced, at most   *)
(* one ever shows the plaintext.                                           *)
OpenedOnce == Cardinality(opened) <= 1

(* The pages that have the private key and have not used it yet.           *)
Holders == {p \in Pages : fetch[p] \in {"200", "body", "decrypt"}}

(* What has become of the note.                                            *)
Fate == CASE opened # {} -> "read"
          [] opened = {} /\ Holders # {} -> "held"
          [] OTHER -> IF key = "live" THEN "sealed" ELSE "lost"

Promise == INSTANCE OneTimeNote WITH note <- Fate, readers <- opened \cup Holders

(* The promise of OneTimeNote is kept: what happens to a note over all     *)
(* pages, answers, reloads and broken connections is that one page gets    *)
(* the key and then shows the note or loses it, and nobody comes after it. *)
ImplementsOneTimeNote == Promise!Spec

(* roadmap.md:117, "tampered-fragment rejected": whatever becomes of the   *)
(* fragment, a page shows the note its link was made for or nothing.       *)
ShowsTheNote == \A p \in Pages : /\ output[p] \in {Note, Throws}
                                 /\ output[p] = Note <=> shown[p] \in {"counting", "kept"}

(* The link the sender's page builds is one the recipient's page accepts   *)
(* and can decrypt: only a damaged one is called malformed or corrupted.   *)
IntactLinkWorks ==
  \A p \in Pages : /\ state[p] = "invalid" => hash[p] # "whole"
                   /\ status[p] = "undecryptable" => fragment[p].of # "whole"

(* What the page tells its reader is so.  "Already been opened or expired", *)
(* "destroyed server-side", "cannot be shown again" and the ledger's "now  *)
(* deleted": the key is gone, so nobody gives up on a note still there.    *)
(* "Will stay visible": no timer is left to hide it.  "Waiting": a request *)
(* of this page is under way.                                              *)
ClaimsAreTrue ==
  \A p \in Pages :
    /\ status[p] \in {"spent", "undecryptable", "decrypted", "hidden"} => key = "gone"
    /\ ledger[p] \in {"200", "404"} => key = "gone"
    /\ status[p] = "kept" => shown[p] = "kept"
    /\ ledger[p] = "waiting" <=> fetch[p] \in {"sent", "200", "404", "error", "broken"}

(* A page has at most one click handler under way (so fetch[p] is one      *)
(* value): until it ends the card is "working", its button disabled and    *)
(* its fragment there to be decrypted, whatever the user does to the link. *)
OneRequest ==
  \A p \in Pages : fetch[p] # "none" => state[p] = "working" /\ fragment[p] # Null

(* link.js:2, the fragment is "never sent to a server": KeyBank receives   *)
(* what the link anatomy lists as sent, and with all of that and the       *)
(* private key in its hands it cannot compute the plaintext.               *)
KeyBankCannotRead ==
  /\ \A p \in Pages : wire \subseteq links[hash[p]].anatomy
  /\ \A w, i, c \in wire :
       DecryptMessage(PrivatePem("id"), [wrapped |-> w, iv |-> i, ct |-> c]) = Throws

(* "It cannot be shown again": once hidden, the plaintext comes back on    *)
(* that page neither by a click nor by an edited link.                     *)
HiddenForGood == [][\A p \in Pages : shown[p] = "hidden" => shown'[p] \in {"hidden", "no"}]_vars

(* The button never stays on "working": every attempt ends in a state the  *)
(* user can read (or in a reload).                                         *)
WorkingEnds == \A p \in Pages : state[p] = "working" ~> state[p] # "working"

(* The plaintext leaves the screen by itself unless the user kept it.      *)
AutoHide == \A p \in Pages : shown[p] = "counting" ~> shown[p] # "counting"

(* ui.js:24, "briefly confirms on the button itself": however clicks,      *)
(* clipboard and timers overlap, the confirmation mark goes away again.    *)
MarkClears == \A p \in Pages : copy[p].marked ~> ~copy[p].marked

(* README.md:59, "Validates the link fragment before touching the key",    *)
(* and share.js:75, "a malformed link is invalid and never touches the     *)
(* key": a page that asks for the key can at least decode its fragment.    *)
MalformedNeverTouches ==
  [][\A p \in Pages : fetch[p] = "none" /\ fetch'[p] = "sent"
       => LET h == Content[fragment[p].of]
          IN  \A s \in {h.w, h.i, h.c} : Base64URLToBytes(s) # Throws]_vars
=============================================================================
