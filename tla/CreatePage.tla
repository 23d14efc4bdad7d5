----------------------------- MODULE CreatePage -----------------------------
(***************************************************************************)
(* The sender's side: the create page (initCreatePage of static/create.js  *)
(* with createKey of static/api.js) against a server that enforces its own *)
(* expiry ceiling and may be redeployed with another one while the page is *)
(* open.  Expiries are those of KeyTTL, links those of NoteLink.           *)
(*                                                                         *)
(* A note is its size in UTF-8 bytes, 0 for an empty or blank one.         *)
(***************************************************************************)
EXTENDS KeyTTL, NoteLink

CONSTANTS MaxTTLValues,   \* values of MAX_TTL in ms, 0 when absent or unparseable
          MinuteValues,   \* what a user types as custom minutes
          RequestTTLs,    \* ttl values that any client may send
          NoteSizes       \* what a user types as the message

ASSUME CreatePageAssumption ==
  /\ MaxTTLValues # {} /\ MaxTTLValues \subseteq Nat
  /\ MinuteValues \subseteq Nat
  /\ RequestTTLs \subseteq Int
  /\ NoteSizes \subseteq Nat

(* The link encryptMessage and buildShareURL make of a note of n bytes: its *)
(* characters, and whether a recipient who has its key reads the note.     *)
LinkTo(n) ==
  LET url == BuildShareURL("id", EncryptMessage(PublicPem("id"), Text("note", n), "r"))
  IN  [length |-> LinkLength(url),
       opens  |-> DecryptMessage(PrivatePem("id"), ParseFragment(url.hash)) = Text("note", n)]

VARIABLES links,        \* links[n]: the link to a note of n bytes, fixed
          browser,      \* what this browser has: "dialog" elements, the "qr" library
          serverMax,    \* h.maxTTL of the running process
          form,         \* the expiry options: page maximum, checked, minutes
          note,         \* the message
          job,          \* the submit handler: where it is and its local variables
          net,          \* the answer to createKey in transit
          returnValue,  \* dialog.returnValue of the size warning
          result,       \* the result panel, Hidden when it is not there
          saved         \* the ttl the key of the request was saved with

vars == <<links, browser, serverMax, form, note, job, net, returnValue, result, saved>>

softPlaintextLimitBytes == 100 * 1024

(* answered is history: how the size warning of this submission was closed *)
(* when it let the note through, and accepted the size it named.           *)
Idle       == [at |-> "idle", plaintext |-> 0, ttl |-> 0, answered |-> "none"]
HiddenLink == [plaintext |-> 0, expiry |-> FormatDuration(0), length |-> 0, qr |-> FALSE, opens |-> FALSE, accepted |-> 0]

TypeOK ==
  /\ browser \subseteq {"dialog", "qr"}
  /\ serverMax \in minTTL..maxAllowedTTL
  /\ form \in [max : WholeSeconds(minTTL)..WholeSeconds(maxAllowedTTL),
               checked : Presets \cup {Custom}, minutes : Nat, typed : BOOLEAN]
  /\ note \in NoteSizes \cup {0}
  /\ job \in [at : {"idle", "asking", "requesting", "encrypting"},
              plaintext : NoteSizes \cup {0}, ttl : 0..WholeSeconds(maxAllowedTTL),
              answered : {"none", "cancel", "confirm", "escape"}]
  /\ net \in {"none", "sent", "201", "400", "error"}
  /\ returnValue \in {"", "cancel", "confirm"}
  /\ result \in [plaintext : NoteSizes \cup {0}, expiry : [count : Nat, unit : Units], length : Nat,
                 qr : BOOLEAN, opens : BOOLEAN, accepted : NoteSizes \cup {0}]
  /\ saved \in Nat

Init ==
  /\ links = [n \in NoteSizes \cup {0} |-> LinkTo(n)]
  /\ browser \in SUBSET {"dialog", "qr"}
  /\ \E v \in MaxTTLValues : serverMax = ServerMax(v)
  /\ form = ResetForm(ServedMax(serverMax))
  /\ note = 0
  /\ job = Idle
  /\ net = "none"
  /\ returnValue = ""
  /\ result = HiddenLink
  /\ saved = 0

-----------------------------------------------------------------------------
(* The size warning is modal, as window.confirm is: the page is inert.     *)
Active == job.at # "asking"

Choose(v) ==
  /\ Active
  /\ v \in Enabled(form.max) \cup {Custom}
  /\ form' = [form EXCEPT !.checked = v]
  /\ UNCHANGED <<links, browser, serverMax, note, job, net, returnValue, result, saved>>

(* The minutes field is disabled unless custom is checked; the form is     *)
(* novalidate, so any value can be submitted.                              *)
TypeMinutes(m) ==
  /\ Active
  /\ form.checked = Custom
  /\ form' = [form EXCEPT !.minutes = m, !.typed = TRUE]
  /\ UNCHANGED <<links, browser, serverMax, note, job, net, returnValue, result, saved>>

(* describeMessage: what the page says of the message under the field,     *)
(* after every change of it.                                               *)
DescribeMessage(n) == [length |-> EstimateLinkLength(n), qr |-> EstimateLinkLength(n) <= QrCapacity]

TypeNote(n) ==
  /\ Active
  /\ note # n
  /\ note' = n
  /\ UNCHANGED <<links, browser, serverMax, form, job, net, returnValue, result, saved>>

(* The page hides the last result and createKey sends its request.         *)
Request(plaintext, ttl, a) ==
  /\ job' = [at |-> "requesting", plaintext |-> plaintext, ttl |-> ttl, answered |-> a]
  /\ net' = "sent"
  /\ result' = HiddenLink
  /\ saved' = 0

(* The submit handler up to its first await.  An empty note or an expiry   *)
(* that selectedTTL rejects ends it with a message.                        *)
Submit ==
  /\ job = Idle
  /\ note # 0
  /\ SelectedTTL(form) # NoTTL
  /\ IF note > softPlaintextLimitBytes
       THEN /\ job' = [at |-> "asking", plaintext |-> note, ttl |-> SelectedTTL(form), answered |-> "none"]
            /\ UNCHANGED <<net, result, saved>>
       ELSE Request(note, SelectedTTL(form), "none")
  /\ UNCHANGED <<links, browser, serverMax, form, note, returnValue>>

(* A button of the dialog's form sets returnValue; closing the dialog with *)
(* the Escape key leaves it as it was, and so does showModal.              *)
ReturnValue(a) == IF "dialog" \notin browser \/ a = "escape" THEN returnValue ELSE a

(* confirmLargeMessage resolves when the dialog closes.  Without dialogs   *)
(* it asks with window.confirm, where Escape is a cancel.                  *)
CloseDialog(a) ==
  LET confirmed == IF "dialog" \in browser THEN ReturnValue(a) = "confirm" ELSE a = "confirm"
  IN  /\ job.at = "asking"
      /\ returnValue' = ReturnValue(a)
      /\ IF confirmed
           THEN Request(job.plaintext, job.ttl, a)
           ELSE job' = Idle /\ UNCHANGED <<net, result, saved>>
      /\ UNCHANGED <<links, browser, serverMax, form, note>>

(* Faulty variant of CreateFails: only a lost answer is caught. *)
CreateLost ==
  /\ job.at = "requesting"
  /\ net = "error"
  /\ job' = Idle
  /\ net' = "none"
  /\ UNCHANGED <<links, browser, serverMax, form, note, returnValue, result, saved>>

(* createKey threw: the answer is an error status or none arrived.         *)
CreateFails ==
  /\ job.at = "requesting"
  /\ net \in {"400", "error"}
  /\ job' = Idle
  /\ net' = "none"
  /\ UNCHANGED <<links, browser, serverMax, form, note, returnValue, result, saved>>

CreateReturns ==
  /\ job.at = "requesting"
  /\ net = "201"
  /\ job' = [job EXCEPT !.at = "encrypting"]
  /\ net' = "none"
  /\ UNCHANGED <<links, browser, serverMax, form, note, returnValue, result, saved>>

(* Faulty variant of Plaintext: the message is read again after the await. *)
PlaintextNow == note

(* const plaintext of the submit handler.                                  *)
Plaintext == job.plaintext

(* renderQRCode: the library throws on data over its capacity.             *)
RenderQRCode(length) == "qr" \in browser /\ length <= QrCapacity

(* The result panel.                                                       *)
Rendered(n) ==
  [plaintext |-> n,
   expiry    |-> FormatDuration(job.ttl),
   length    |-> links[n].length,
   qr        |-> RenderQRCode(links[n].length),
   opens     |-> links[n].opens,
   accepted  |-> IF job.answered = "none" THEN 0 ELSE job.plaintext]

(* encryptMessage resolves and the link is shown with its expiry, or it    *)
(* throws and the key that was created is left to expire.                  *)
Encrypted ==
  /\ job.at = "encrypting"
  /\ job' = Idle
  /\ \/ result' = Rendered(Plaintext)
     \/ UNCHANGED result
  /\ UNCHANGED <<links, browser, serverMax, form, note, net, returnValue, saved>>

(* "New note" is a button of the result panel.                             *)
NewNote ==
  /\ Active
  /\ result # HiddenLink
  /\ form' = ResetForm(form.max)
  /\ note' = 0
  /\ result' = HiddenLink
  /\ UNCHANGED <<links, browser, serverMax, job, net, returnValue, saved>>

-----------------------------------------------------------------------------
(* CreateKey handles the page's request under its own ceiling.             *)
Serve ==
  /\ net = "sent"
  /\ saved' = CreateKeyTTL(serverMax, job.ttl)
  /\ net' = IF saved' = NoTTL THEN "400" ELSE "201"
  /\ UNCHANGED <<links, browser, serverMax, form, note, job, returnValue, result>>

(* 413, 429, 500, or no answer: the request or the response was lost.      *)
ServeError ==
  /\ net \in {"sent", "201", "400"}
  /\ net' = "error"
  /\ UNCHANGED <<links, browser, serverMax, form, note, job, returnValue, result, saved>>

(* The operator restarts the server with another MAX_TTL.                  *)
Redeploy(v) ==
  /\ serverMax # ServerMax(v)
  /\ serverMax' = ServerMax(v)
  /\ UNCHANGED <<links, browser, form, note, job, net, returnValue, result, saved>>

UserStep ==
  \/ \E v \in Presets \cup {Custom} : Choose(v)
  \/ \E m \in MinuteValues : TypeMinutes(m)
  \/ \E n \in NoteSizes \cup {0} : TypeNote(n)
  \/ \E a \in {"cancel", "confirm", "escape"} : CloseDialog(a)
  \/ Submit \/ NewNote

PageStep   == CreateFails \/ CreateReturns \/ Encrypted
ServerStep == Serve \/ ServeError

Next ==
  \/ UserStep \/ PageStep \/ ServerStep
  \/ \E v \in MaxTTLValues : Redeploy(v)

Spec == Init /\ [][Next]_vars

(* Promises settle and the server or the network ends every request.       *)
FairSpec == Spec /\ WF_vars(PageStep) /\ WF_vars(net = "sent" /\ ServerStep)

-----------------------------------------------------------------------------
(* The page validates with the server's own rules: a ttl the form let      *)
(* through is rejected only if the server was restarted with a lower       *)
(* maximum after the page was loaded.                                      *)
FreshFormAccepted ==
  [][net # "400" /\ net' = "400" => form.max > ServedMax(serverMax)]_vars

(* Whatever MAX_TTL and the sender choose, a form nobody typed minutes     *)
(* into can be submitted, also after "New note" restored its defaults.     *)
FormUsable == ~form.typed => SelectedTTL(form) # NoTTL

(* "expires in ... if nobody opens it": the duration shown beside a link,  *)
(* in days, hours or minutes, is the one its key was saved with.           *)
ShownIsStored ==
  result # HiddenLink => saved = result.expiry.count * result.expiry.unit * Second

(* mission.md:18-19, "a sender-chosen expiry (at most 7 days)": whatever   *)
(* ttl a client sends, no key is saved for less than a minute or for       *)
(* longer than the limit the operator set, the default included.           *)
SavedWithinPolicy ==
  \A s \in {CreateKeyTTL(serverMax, t) : t \in RequestTTLs} \ {NoTTL} :
    minTTL <= s /\ s <= serverMax /\ serverMax <= maxAllowedTTL

(* describeMessage tells the sender the length of the link and whether it  *)
(* fits in a QR code while the note is still being typed.  The link made   *)
(* later is as long as that, and the QR code is there if it was to fit.    *)
HintIsExact ==
  result # HiddenLink =>
    LET hint == DescribeMessage(result.plaintext)
    IN  /\ result.length = hint.length
        /\ result.qr <=> "qr" \in browser /\ hint.qr

(* A link the page shows is one the share page can parse and decrypt to    *)
(* the note, whatever the size of the note: with its key it is never lost. *)
LinkOpens == result # HiddenLink => result.opens

(* The note in a link is the note that was submitted: editing the message  *)
(* while the key is requested puts no note over 100 KiB into a link that   *)
(* the sender was not warned of.                                           *)
LargeWasAccepted ==
  result.plaintext > softPlaintextLimitBytes => result.accepted = result.plaintext

(* The submit button comes back: every request ends in a link or a message. *)
SubmitEnds == job.at \in {"requesting", "encrypting"} ~> job = Idle

(* roadmap.md:113 asks for a warning beyond 100 KB, and create.js:218      *)
(* reports "Link generation cancelled.": a large note is sent only when    *)
(* the user confirmed this very warning.                                   *)
LargeNeedsConfirm == [][job.at = "asking" /\ job'.at = "requesting" => job'.answered = "confirm"]_vars
=============================================================================
