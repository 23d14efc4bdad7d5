-------------------------- MODULE CreatePageProofs --------------------------
(***************************************************************************)
(* Proofs about CreatePage for any values of MAX_TTL, any minutes typed,   *)
(* any ttl sent and any sizes of notes.                                    *)
(***************************************************************************)
EXTENDS CreatePage, NoteLinkProofs

(* What a page may be told of the maximum, in seconds.                     *)
PageMaxima == {n \in Nat : n >= 60 /\ n <= 604800}

Forms == [max : PageMaxima, checked : Presets \cup {Custom}, minutes : Nat, typed : BOOLEAN]

Jobs == [at : {"idle", "asking", "requesting", "encrypting"},
         plaintext : NoteSizes \cup {0}, ttl : Nat,
         answered : {"none", "cancel", "confirm", "escape"}]

(* The types of the variables the proofs look into.                        *)
PageTypes ==
  /\ serverMax \in Nat /\ minTTL <= serverMax /\ serverMax <= maxAllowedTTL
  /\ form \in Forms
  /\ note \in NoteSizes \cup {0}
  /\ job \in Jobs
  /\ net \in {"none", "sent", "201", "400", "error"}

(* The checked button is enabled, and minutes nobody typed are in range.   *)
FormInRange ==
  /\ form.checked \in Enabled(form.max) \cup {Custom}
  /\ ~form.typed => form.minutes >= 1 /\ form.minutes * 60 <= form.max

(* A submission has a ttl that the page's maximum allows, and a large note *)
(* on its way is one the size warning let through.                         *)
JobInRange ==
  /\ job.at # "idle" => job.ttl \in 60..form.max
  /\ job.at \in {"requesting", "encrypting"} /\ job.plaintext > softPlaintextLimitBytes
       => job.answered # "none"

(* While a key is requested no link is shown, and a key that was created   *)
(* was saved with the ttl of this submission.                              *)
RequestHidesLink ==
  /\ net # "none" => job.at = "requesting"
  /\ job.at \in {"requesting", "encrypting"} => result = HiddenLink
  /\ net = "201" \/ job.at = "encrypting" => saved = job.ttl * Second

(* The inductive invariant.                                                *)
CreateInv ==
  /\ PageTypes /\ FormInRange /\ JobInRange /\ RequestHidesLink
  /\ ShownIsStored /\ LargeWasAccepted

-----------------------------------------------------------------------------
(* The arithmetic of expiries.                                             *)

(* Max returns the largest of a set of numbers.                            *)
LEMMA MaxOf ==
  ASSUME NEW S, S \subseteq Int, NEW m \in S, \A y \in S : m >= y
  PROVE  Max(S) = m
<1>1. \A x \in S : (\A y \in S : x >= y) => x = m
  OBVIOUS
<1> QED
  BY <1>1 DEF Max

(* Whatever MAX_TTL says, the ceiling is from one minute to seven days.    *)
LEMMA ServerMaxInRange ==
  ASSUME NEW v \in Nat
  PROVE  ServerMax(v) \in Nat /\ minTTL <= ServerMax(v) /\ ServerMax(v) <= maxAllowedTTL
  BY SMT DEF ServerMax, SetMaxTTL, EnvDuration, minTTL, maxAllowedTTL, Second

(* A page gets the ceiling of the server in whole seconds.                 *)
LEMMA ServedMaxIs ==
  ASSUME NEW max \in Nat, minTTL <= max, max <= maxAllowedTTL
  PROVE  /\ ServedMax(max) = WholeSeconds(max) /\ ServedMax(max) \in PageMaxima
         /\ WholeSeconds(max) * Second <= max
  BY SMT DEF ServedMax, PageMax, Lesser, WholeSeconds, minTTL, maxAllowedTTL, Second, PageMaxima

(* CreateKey saves a key within the policy or rejects the request.         *)
LEMMA SavedInRange ==
  ASSUME NEW max \in Nat, minTTL <= max, max <= maxAllowedTTL, NEW ttl \in Int
  PROVE  /\ CreateKeyTTL(max, ttl) # NoTTL
              => minTTL <= CreateKeyTTL(max, ttl) /\ CreateKeyTTL(max, ttl) <= max
         /\ ttl # 0 => CreateKeyTTL(max, ttl) \in {ttl * Second, NoTTL}
         /\ ttl >= 60 /\ CreateKeyTTL(max, ttl) = NoTTL => ttl > WholeSeconds(max)
<1>1. CASE ttl = 0
  BY <1>1, SMT DEF CreateKeyTTL, Lesser, defaultTTL, minTTL, maxAllowedTTL, Second
<1>2. CASE ttl # 0 /\ (ttl < WholeSeconds(minTTL) \/ ttl > WholeSeconds(max))
  <2>1. CreateKeyTTL(max, ttl) = NoTTL
    BY <1>2, SMT DEF CreateKeyTTL
  <2>2. WholeSeconds(minTTL) = 60
    BY SMT DEF WholeSeconds, minTTL, Second
  <2> QED
    BY <1>2, <2>1, <2>2, SMT
<1>3. CASE ttl # 0 /\ ttl >= WholeSeconds(minTTL) /\ ttl <= WholeSeconds(max)
  <2>1. WholeSeconds(minTTL) = 60 /\ WholeSeconds(max) \in Int
    BY SMT DEF WholeSeconds, minTTL, maxAllowedTTL, Second
  <2>2. CreateKeyTTL(max, ttl) = ttl * Second
    BY <1>3, <2>1, SMT DEF CreateKeyTTL
  <2>3. ttl * Second >= minTTL /\ ttl * Second <= max
    BY <1>3, <2>1, ServedMaxIs, SMT DEF minTTL, maxAllowedTTL, Second
  <2> QED
    BY <2>2, <2>3, <1>3, <2>1, SMT DEF NoTTL, minTTL, maxAllowedTTL, Second
<1> QED
  <2>1. WholeSeconds(minTTL) \in Int /\ WholeSeconds(max) \in Int
    BY SMT DEF WholeSeconds, minTTL, maxAllowedTTL, Second
  <2> QED
    BY <1>1, <1>2, <1>3, <2>1, SMT

(* The unit formatDuration chooses divides the duration.                   *)
LEMMA FormatUnit ==
  ASSUME NEW seconds \in Nat
  PROVE  LET size == Max({u \in Units : seconds % u = 0})
         IN  size \in Units /\ seconds % size = 0
<1> USE DEF Units
<1> DEFINE S == {u \in Units : seconds % u = 0}
<1>1. 1 \in S /\ S \subseteq Int
  BY SMT
<1>2. \E m \in S : \A y \in S : m >= y
  <2>1. CASE 86400 \in S
    BY <2>1, SMT
  <2>2. CASE 86400 \notin S /\ 3600 \in S
    BY <2>2, SMT
  <2>3. CASE 86400 \notin S /\ 3600 \notin S /\ 60 \in S
    BY <2>3, SMT
  <2>4. CASE 86400 \notin S /\ 3600 \notin S /\ 60 \notin S
    BY <1>1, <2>4, SMT
  <2> QED
    BY <2>1, <2>2, <2>3, <2>4, SMT
<1>3. Max(S) \in S
  <2> HIDE DEF S
  <2>1. PICK m \in S : \A y \in S : m >= y
    BY <1>2, SMT
  <2>2. Max(S) = m
    BY <1>1, <2>1, MaxOf
  <2> QED
    BY <2>2, SMT
<1> QED
  BY <1>3, SMT

(* formatDuration loses nothing: the count of the unit is the duration.    *)
LEMMA FormatIsExact ==
  ASSUME NEW seconds \in Nat
  PROVE  FormatDuration(seconds).count * FormatDuration(seconds).unit = seconds
<1> DEFINE S == {u \in Units : seconds % u = 0}
<1>1. FormatDuration(seconds) = [count |-> seconds \div Max(S), unit |-> Max(S)]
  BY SMT DEF FormatDuration
<1>2. Max(S) \in {86400, 3600, 60, 1} /\ seconds % Max(S) = 0
  BY FormatUnit, SMT DEF Units
<1> DEFINE size == Max(S)
<1> HIDE DEF S, size
<1>3. size \in {86400, 3600, 60, 1} /\ seconds % size = 0
  BY <1>2, SMT DEF size
<1>4. (seconds \div size) * size = seconds
  <2>1. CASE size = 86400
    BY <1>3, <2>1, SMT
  <2>2. CASE size = 3600
    BY <1>3, <2>2, SMT
  <2>3. CASE size = 60
    BY <1>3, <2>3, SMT
  <2>4. CASE size = 1
    BY <2>4, SMT
  <2> QED
    BY <1>3, <2>1, <2>2, <2>3, <2>4, SMT
<1> QED
  BY <1>1, <1>4, SMT DEF size

(* A form that selectedTTL accepts gives a ttl that the page's maximum     *)
(* allows, and one nobody typed into is accepted.                          *)
LEMMA SelectedInRange ==
  ASSUME NEW f \in Forms, f.checked \in Enabled(f.max) \cup {Custom}
  PROVE  /\ SelectedTTL(f) # NoTTL => SelectedTTL(f) \in 60..f.max
         /\ f.minutes >= 1 /\ f.minutes * 60 <= f.max => SelectedTTL(f) # NoTTL
<1>1. f.max \in Nat /\ f.max >= 60 /\ f.minutes \in Nat
  BY SMT DEF Forms, PageMaxima
<1>2. CASE f.checked \in Enabled(f.max)
  <2>1. f.checked \in Presets /\ f.checked <= f.max
    BY <1>2, SMT DEF Enabled
  <2>2. f.checked \in {3600, 86400, 604800}
    BY <2>1, SMT DEF Presets
  <2>3. SelectedTTL(f) = f.checked
    BY <1>1, <2>1, <2>2, SMT DEF SelectedTTL, Unchecked
  <2> QED
    BY <1>1, <2>1, <2>2, <2>3, SMT DEF NoTTL
<1>3. CASE f.checked = Custom
  <2>1. f.checked # Unchecked /\ f.checked \notin Presets
    BY <1>3, SMT DEF Custom, Unchecked, Presets
  <2>2. SelectedTTL(f) = IF f.minutes < 1 \/ f.minutes * 60 > f.max THEN NoTTL ELSE f.minutes * 60
    BY <2>1, SMT DEF SelectedTTL
  <2> QED
    BY <1>1, <2>2, SMT DEF NoTTL
<1> QED
  BY <1>2, <1>3, SMT

(* configureExpiryOptions leaves a form that can be submitted.             *)
LEMMA ResetInRange ==
  ASSUME NEW max \in PageMaxima
  PROVE  LET f == ResetForm(max)
         IN  /\ f \in Forms /\ f.max = max
             /\ f.checked \in Enabled(max) \cup {Custom}
             /\ f.minutes >= 1 /\ f.minutes * 60 <= max
<1> DEFINE no == FALSE
           kept == KeepChecked(86400, max)
           c == IF kept = Unchecked THEN Longest(max) ELSE kept
           m == CapMinutes(60, max)
<1>0. max \in Nat /\ max >= 60 /\ max <= 604800
  BY SMT DEF PageMaxima
<1>1. c \in Enabled(max) \cup {Custom}
  <2>1. Longest(max) \in Enabled(max) \cup {Custom}
    <3>1. CASE Enabled(max) = {}
      BY <3>1, SMT DEF Longest
    <3>2. CASE Enabled(max) # {}
      <4>1. Enabled(max) \subseteq Int
        BY SMT DEF Enabled, Presets
      <4>2. PICK x \in Enabled(max) : \A y \in Enabled(max) : x >= y
        <5>1. Enabled(max) = {v \in {3600, 86400, 604800} : v <= max}
          BY SMT DEF Enabled, Presets
        <5>2. CASE max >= 604800
          BY <1>0, <5>1, <5>2, SMT
        <5>3. CASE max < 604800 /\ max >= 86400
          BY <1>0, <5>1, <5>3, SMT
        <5>4. CASE max < 86400
          BY <1>0, <5>1, <5>4, <3>2, SMT
        <5> QED
          BY <1>0, <5>2, <5>3, <5>4, SMT
      <4>3. Max(Enabled(max)) = x
        BY <4>1, <4>2, MaxOf, SMT
      <4> QED
        BY <3>2, <4>3, SMT DEF Longest
    <3> QED
      BY <3>1, <3>2, SMT
  <2>2. kept = Unchecked \/ (kept = 86400 /\ 86400 \in Enabled(max))
    BY SMT DEF KeepChecked, Presets
  <2> QED
    BY <2>1, <2>2, SMT
<1>2. m \in Nat /\ m >= 1 /\ m * 60 <= max
  <2>1. max \div 60 \in Int /\ max \div 60 >= 1 /\ (max \div 60) * 60 <= max
    BY <1>0, SMT
  <2>2. Max({1, max \div 60}) = max \div 60
    BY <2>1, MaxOf, SMT
  <2> QED
    BY <1>0, <2>1, <2>2, SMT DEF CapMinutes, Lesser
<1>3. ResetForm(max) = [max |-> max, checked |-> c, minutes |-> m, typed |-> no]
  <2> DEFINE f == [max |-> max, checked |-> 86400, minutes |-> 60, typed |-> no]
             g == [f EXCEPT !.checked = c]
  <2>1. ResetForm(max) = Configure(f)
    BY SMT DEF ResetForm
  <2>2. f.max = max /\ f.checked = 86400 /\ f.minutes = 60
    BY SMT
  <2> HIDE DEF no, f
  <2>3. Configure(f) = [g EXCEPT !.minutes = m]
    BY <2>2, SMT DEF Configure
  <2> HIDE DEF c, m, kept
  <2>4. g = [max |-> max, checked |-> c, minutes |-> 60, typed |-> no]
    BY SMT DEF f
  <2> HIDE DEF g
  <2> QED
    BY <2>1, <2>3, <2>4, SMT
<1>4. c \in Presets \cup {Custom} /\ no \in BOOLEAN
  BY <1>1, SMT DEF Enabled
<1> HIDE DEF c, m, kept, no
<1>5. /\ ResetForm(max).max = max /\ ResetForm(max).checked = c
      /\ ResetForm(max).minutes = m /\ ResetForm(max) \in Forms
  BY <1>2, <1>3, <1>4, SMT DEF Forms
<1> QED
  BY <1>1, <1>2, <1>5, SMT

-----------------------------------------------------------------------------
(* Choosing a button and typing minutes change one answer of the form.     *)
LEMMA FormSteps ==
  ASSUME NEW f \in Forms
  PROVE  /\ \A v \in Presets \cup {Custom} :
              LET g == [f EXCEPT !.checked = v]
              IN  /\ g \in Forms /\ g.max = f.max /\ g.checked = v
                  /\ g.minutes = f.minutes /\ g.typed = f.typed
         /\ \A m \in Nat :
              LET g == [f EXCEPT !.minutes = m, !.typed = TRUE]
              IN  g \in Forms /\ g.max = f.max /\ g.checked = f.checked /\ g.typed = TRUE
<1> DEFINE x == f.max
           c == f.checked
           o == f.minutes
           d == f.typed
           yes == TRUE
<1>1. /\ f = [max |-> x, checked |-> c, minutes |-> o, typed |-> d]
      /\ x \in PageMaxima /\ c \in Presets \cup {Custom} /\ o \in Nat /\ d \in BOOLEAN
  BY SMT DEF Forms
<1>2. yes \in BOOLEAN /\ yes = TRUE
  OBVIOUS
<1> HIDE DEF x, c, o, d, yes
<1>3. ASSUME NEW v \in Presets \cup {Custom}
      PROVE  LET g == [f EXCEPT !.checked = v]
             IN  g \in Forms /\ g.max = x /\ g.checked = v /\ g.minutes = o /\ g.typed = d
  <2>1. [f EXCEPT !.checked = v] = [max |-> x, checked |-> v, minutes |-> o, typed |-> d]
    BY <1>1, SMT
  <2> QED
    BY <1>1, <2>1, SMT DEF Forms
<1>4. ASSUME NEW m \in Nat
      PROVE  LET g == [f EXCEPT !.minutes = m, !.typed = yes]
             IN  g \in Forms /\ g.max = x /\ g.checked = c /\ g.typed = yes
  <2> DEFINE h == [f EXCEPT !.minutes = m]
             k == [h EXCEPT !.typed = yes]
  <2>1. h = [max |-> x, checked |-> c, minutes |-> m, typed |-> d]
    BY <1>1, SMT
  <2> HIDE DEF h
  <2>2. k = [max |-> x, checked |-> c, minutes |-> m, typed |-> yes]
    BY <2>1, SMT
  <2> HIDE DEF k
  <2>3. k \in Forms /\ k.max = x /\ k.checked = c /\ k.typed = yes
    BY <1>1, <1>2, <2>2, SMT DEF Forms
  <2> QED
    BY <2>3, Zenon DEF k, h
<1>5. ASSUME NEW m \in Nat
      PROVE  LET g == [f EXCEPT !.minutes = m, !.typed = TRUE]
             IN  g \in Forms /\ g.max = x /\ g.checked = c /\ g.typed = TRUE
  BY <1>4, Zenon DEF yes
<1> QED
  BY <1>3, <1>5, Zenon DEF x, c, o, d

(* What the result panel says.                                             *)
LEMMA RenderedSays ==
  ASSUME NEW n
  PROVE  /\ Rendered(n).plaintext = n
         /\ Rendered(n).expiry = FormatDuration(job.ttl)
         /\ Rendered(n).accepted = IF job.answered = "none" THEN 0 ELSE job.plaintext
<1> DEFINE e == FormatDuration(job.ttl)
           l == links[n].length
           q == RenderQRCode(links[n].length)
           o == links[n].opens
           a == IF job.answered = "none" THEN 0 ELSE job.plaintext
<1>1. Rendered(n) = [plaintext |-> n, expiry |-> e, length |-> l, qr |-> q, opens |-> o, accepted |-> a]
  BY SMT DEF Rendered
<1> HIDE DEF e, l, q, o, a
<1>2. Rendered(n).plaintext = n /\ Rendered(n).expiry = e /\ Rendered(n).accepted = a
  BY <1>1, SMT
<1> QED
  BY <1>2 DEF e, a

(* No panel: no large note is in it.                                       *)
LEMMA HiddenSays == HiddenLink.plaintext = 0
<1> DEFINE e == FormatDuration(0)
           no == FALSE
<1>1. HiddenLink = [plaintext |-> 0, expiry |-> e, length |-> 0, qr |-> no, opens |-> no, accepted |-> 0]
  BY DEF HiddenLink
<1> HIDE DEF e, no
<1> QED
  BY <1>1

(* A page that has just been loaded.                                       *)
LEMMA CreateInit == Init => CreateInv
<1> SUFFICES ASSUME Init
             PROVE  CreateInv
  OBVIOUS
<1>1. PICK v \in MaxTTLValues : serverMax = ServerMax(v)
  BY DEF Init
<1>2. serverMax \in Nat /\ minTTL <= serverMax /\ serverMax <= maxAllowedTTL
  BY <1>1, ServerMaxInRange, CreatePageAssumption
<1>3. ServedMax(serverMax) \in PageMaxima
  BY <1>2, ServedMaxIs
<1>4. form = ResetForm(ServedMax(serverMax))
  BY DEF Init
<1>5. form \in Forms /\ FormInRange
  BY <1>3, <1>4, ResetInRange DEF FormInRange
<1>6. Idle \in Jobs /\ Idle.at = "idle"
  BY DEF Idle, Jobs
<1>7. job = Idle /\ net = "none" /\ result = HiddenLink /\ note = 0
  BY DEF Init
<1>8. PageTypes
  BY <1>2, <1>5, <1>6, <1>7 DEF PageTypes
<1>9. JobInRange /\ RequestHidesLink /\ ShownIsStored
  BY <1>6, <1>7 DEF JobInRange, RequestHidesLink, ShownIsStored
<1>10. LargeWasAccepted
  BY <1>7, HiddenSays DEF LargeWasAccepted, softPlaintextLimitBytes
<1> QED
  BY <1>5, <1>8, <1>9, <1>10 DEF CreateInv

(* Sending the request with a ttl in range keeps the invariant: the result *)
(* is hidden before the key is asked for.                                  *)
LEMMA RequestStep ==
  ASSUME CreateInv, NEW n \in NoteSizes \cup {0}, NEW ttl \in 60..form.max,
         NEW a \in {"none", "cancel", "confirm", "escape"},
         n > softPlaintextLimitBytes => a # "none",
         Request(n, ttl, a), UNCHANGED <<serverMax, form, note>>
  PROVE  CreateInv'
<1>1. form \in Forms /\ FormInRange /\ PageTypes
  BY DEF CreateInv, PageTypes
<1>2. form.max \in Nat /\ ttl \in Nat
  BY <1>1 DEF Forms, PageMaxima
<1>3. /\ job' = [at |-> "requesting", plaintext |-> n, ttl |-> ttl, answered |-> a]
      /\ net' = "sent" /\ result' = HiddenLink /\ saved' = 0
  BY DEF Request
<1>4. /\ job' \in Jobs /\ job'.at = "requesting" /\ job'.plaintext = n
      /\ job'.ttl = ttl /\ job'.answered = a
  BY <1>2, <1>3 DEF Jobs
<1>5. PageTypes'
  BY <1>1, <1>3, <1>4 DEF PageTypes
<1>6. FormInRange'
  BY <1>1 DEF FormInRange
<1>7. JobInRange'
  BY <1>4 DEF JobInRange, softPlaintextLimitBytes
<1>8. RequestHidesLink'
  BY <1>3, <1>4 DEF RequestHidesLink
<1>9. ShownIsStored'
  BY <1>3 DEF ShownIsStored
<1>10. LargeWasAccepted'
  BY <1>3, HiddenSays DEF LargeWasAccepted, softPlaintextLimitBytes
<1> QED
  BY <1>5, <1>6, <1>7, <1>8, <1>9, <1>10 DEF CreateInv

(* Every step keeps the inductive invariant.                               *)
LEMMA CreateStep == CreateInv /\ [Next]_vars => CreateInv'
<1> SUFFICES ASSUME CreateInv, [Next]_vars
             PROVE  CreateInv'
  OBVIOUS
<1>0. PageTypes /\ FormInRange /\ JobInRange /\ RequestHidesLink /\ ShownIsStored /\ LargeWasAccepted
  BY DEF CreateInv
<1>a. form \in Forms /\ job \in Jobs /\ form.max \in PageMaxima
  BY <1>0 DEF PageTypes, Forms
<1>b. Idle \in Jobs /\ Idle.at = "idle"
  BY DEF Idle, Jobs
<1>c. /\ UNCHANGED form => FormInRange'
      /\ UNCHANGED <<form, job>> => JobInRange'
      /\ UNCHANGED <<net, job, result, saved>> => RequestHidesLink'
      /\ UNCHANGED <<result, saved>> => ShownIsStored'
      /\ UNCHANGED result => LargeWasAccepted'
  BY <1>0 DEF FormInRange, JobInRange, RequestHidesLink, ShownIsStored, LargeWasAccepted
<1>1. ASSUME NEW v \in Presets \cup {Custom}, Choose(v)
      PROVE  CreateInv'
  <2>1. /\ form' \in Forms /\ form'.max = form.max /\ form'.checked = v
        /\ form'.minutes = form.minutes /\ form'.typed = form.typed
        /\ v \in Enabled(form.max) \cup {Custom}
    BY <1>1, <1>a, FormSteps, Zenon DEF Choose
  <2>2. UNCHANGED <<serverMax, note, job, net, result, saved>>
    BY <1>1 DEF Choose
  <2>3. FormInRange' /\ JobInRange'
    BY <1>0, <2>1, <2>2 DEF FormInRange, JobInRange
  <2>4. PageTypes'
    BY <1>0, <2>1, <2>2 DEF PageTypes
  <2> QED
    BY <1>c, <2>2, <2>3, <2>4 DEF CreateInv
<1>2. ASSUME NEW m \in MinuteValues, TypeMinutes(m)
      PROVE  CreateInv'
  <2>0. m \in Nat /\ form' = [form EXCEPT !.minutes = m, !.typed = TRUE]
    BY <1>2, CreatePageAssumption DEF TypeMinutes
  <2>1. form' \in Forms /\ form'.max = form.max /\ form'.checked = form.checked /\ form'.typed = TRUE
    BY <1>a, <2>0, FormSteps, Zenon
  <2>2. UNCHANGED <<serverMax, note, job, net, result, saved>>
    BY <1>2 DEF TypeMinutes
  <2>3. FormInRange' /\ JobInRange'
    BY <1>0, <2>1, <2>2 DEF FormInRange, JobInRange
  <2>4. PageTypes'
    BY <1>0, <2>1, <2>2 DEF PageTypes
  <2> QED
    BY <1>c, <2>2, <2>3, <2>4 DEF CreateInv
<1>3. ASSUME NEW n \in NoteSizes \cup {0}, TypeNote(n)
      PROVE  CreateInv'
  <2>1. note' = n /\ UNCHANGED <<serverMax, form, job, net, result, saved>>
    BY <1>3 DEF TypeNote
  <2>2. PageTypes'
    BY <1>0, <2>1 DEF PageTypes
  <2> QED
    BY <1>c, <2>1, <2>2 DEF CreateInv
<1>4. ASSUME Submit
      PROVE  CreateInv'
  <2> DEFINE ttl == SelectedTTL(form)
  <2>1. ttl \in 60..form.max
    BY <1>0, <1>4, <1>a, SelectedInRange DEF Submit, FormInRange
  <2>2. note \in NoteSizes \cup {0} /\ form.max \in Nat
    BY <1>0, <1>a DEF PageTypes, PageMaxima
  <2>3. UNCHANGED <<serverMax, form, note>>
    BY <1>4 DEF Submit
  <2> HIDE DEF ttl
  <2>4. CASE note > softPlaintextLimitBytes
    <3>1. /\ job' = [at |-> "asking", plaintext |-> note, ttl |-> ttl, answered |-> "none"]
          /\ UNCHANGED <<net, result, saved>> /\ job = Idle
      BY <1>4, <2>4 DEF Submit, ttl
    <3>2. job' \in Jobs /\ job'.at = "asking" /\ job'.ttl = ttl
      BY <2>1, <2>2, <3>1 DEF Jobs
    <3>3. net = "none"
      BY <1>0, <1>b, <3>1 DEF RequestHidesLink
    <3>4. PageTypes' /\ JobInRange' /\ RequestHidesLink'
      BY <1>0, <2>1, <2>3, <3>1, <3>2, <3>3 DEF PageTypes, JobInRange, RequestHidesLink
    <3> QED
      BY <1>c, <2>3, <3>1, <3>4 DEF CreateInv
  <2>5. CASE ~(note > softPlaintextLimitBytes)
    <3>1. Request(note, ttl, "none")
      BY <1>4, <2>5 DEF Submit, ttl
    <3> QED
      BY <2>1, <2>2, <2>3, <2>5, <3>1, RequestStep
  <2> QED
    BY <2>4, <2>5
<1>5. ASSUME NEW a \in {"cancel", "confirm", "escape"}, CloseDialog(a)
      PROVE  CreateInv'
  <2>1. job.at = "asking" /\ UNCHANGED <<serverMax, form, note>>
    BY <1>5 DEF CloseDialog
  <2>2. Request(job.plaintext, job.ttl, a) \/ (job' = Idle /\ UNCHANGED <<net, result, saved>>)
    BY <1>5 DEF CloseDialog
  <2>3. CASE Request(job.plaintext, job.ttl, a)
    <3>1. job.plaintext \in NoteSizes \cup {0} /\ job.ttl \in 60..form.max
      BY <1>0, <1>a, <2>1 DEF Jobs, JobInRange
    <3> QED
      BY <2>1, <2>3, <3>1, RequestStep
  <2>4. CASE job' = Idle /\ UNCHANGED <<net, result, saved>>
    <3>1. net = "none"
      BY <1>0, <2>1 DEF RequestHidesLink
    <3>2. PageTypes' /\ JobInRange' /\ RequestHidesLink'
      BY <1>0, <1>b, <2>1, <2>4, <3>1 DEF PageTypes, JobInRange, RequestHidesLink
    <3> QED
      BY <1>c, <2>1, <2>4, <3>2 DEF CreateInv
  <2> QED
    BY <2>2, <2>3, <2>4
<1>6. ASSUME CreateFails
      PROVE  CreateInv'
  <2>1. job' = Idle /\ net' = "none" /\ UNCHANGED <<serverMax, form, note, result, saved>>
    BY <1>6 DEF CreateFails
  <2>2. PageTypes' /\ JobInRange' /\ RequestHidesLink'
    BY <1>0, <1>b, <2>1 DEF PageTypes, JobInRange, RequestHidesLink
  <2> QED
    BY <1>c, <2>1, <2>2 DEF CreateInv
<1>7. ASSUME CreateReturns
      PROVE  CreateInv'
  <2>1. /\ job' = [job EXCEPT !.at = "encrypting"] /\ job.at = "requesting" /\ net = "201"
        /\ net' = "none" /\ UNCHANGED <<serverMax, form, note, result, saved>>
    BY <1>7 DEF CreateReturns
  <2>2. /\ job' \in Jobs /\ job'.at = "encrypting" /\ job'.plaintext = job.plaintext
        /\ job'.ttl = job.ttl /\ job'.answered = job.answered
    BY <1>a, <2>1 DEF Jobs
  <2>3. PageTypes'
    BY <1>0, <2>1, <2>2 DEF PageTypes
  <2>4. JobInRange'
    BY <1>0, <2>1, <2>2 DEF JobInRange
  <2>5. RequestHidesLink'
    BY <1>0, <2>1, <2>2 DEF RequestHidesLink
  <2> QED
    BY <1>c, <2>1, <2>3, <2>4, <2>5 DEF CreateInv
<1>8. ASSUME Encrypted
      PROVE  CreateInv'
  <2>1. /\ job.at = "encrypting" /\ job' = Idle /\ result' \in {Rendered(job.plaintext), result}
        /\ UNCHANGED <<serverMax, form, note, net, saved>>
    BY <1>8 DEF Encrypted, Plaintext
  <2>2. net = "none"
    BY <1>0, <2>1 DEF RequestHidesLink
  <2>3. PageTypes' /\ JobInRange' /\ RequestHidesLink'
    BY <1>0, <1>b, <2>1, <2>2 DEF PageTypes, JobInRange, RequestHidesLink
  <2>4. CASE result' = result
    BY <1>c, <2>1, <2>3, <2>4 DEF CreateInv
  <2>5. CASE result' = Rendered(job.plaintext)
    <3>1. /\ result'.plaintext = job.plaintext /\ result'.expiry = FormatDuration(job.ttl)
          /\ result'.accepted = IF job.answered = "none" THEN 0 ELSE job.plaintext
      BY <2>5, RenderedSays
    <3>2. saved = job.ttl * Second /\ job.ttl \in Nat
      BY <1>0, <1>a, <2>1 DEF RequestHidesLink, Jobs
    <3>3. result'.expiry.count * result'.expiry.unit = job.ttl
      BY <3>1, <3>2, FormatIsExact
    <3>4. ShownIsStored'
      BY <2>1, <3>2, <3>3 DEF ShownIsStored
    <3>5. LargeWasAccepted'
      BY <1>0, <2>1, <3>1 DEF LargeWasAccepted, JobInRange
    <3> QED
      BY <1>c, <2>1, <2>3, <3>4, <3>5 DEF CreateInv
  <2> QED
    BY <2>1, <2>4, <2>5
<1>9. ASSUME NewNote
      PROVE  CreateInv'
  <2>1. /\ form' = ResetForm(form.max) /\ note' = 0 /\ result' = HiddenLink
        /\ UNCHANGED <<serverMax, job, net, saved>>
    BY <1>9 DEF NewNote
  <2>2. /\ form' \in Forms /\ form'.max = form.max
        /\ form'.checked \in Enabled(form.max) \cup {Custom}
        /\ form'.minutes >= 1 /\ form'.minutes * 60 <= form.max
    BY <1>a, <2>1, ResetInRange
  <2>3. PageTypes'
    BY <1>0, <2>1, <2>2 DEF PageTypes
  <2>4. FormInRange' /\ JobInRange'
    BY <1>0, <2>1, <2>2 DEF FormInRange, JobInRange
  <2>5. RequestHidesLink' /\ ShownIsStored'
    BY <1>0, <2>1 DEF RequestHidesLink, ShownIsStored
  <2>6. LargeWasAccepted'
    BY <2>1, HiddenSays DEF LargeWasAccepted, softPlaintextLimitBytes
  <2> QED
    BY <2>3, <2>4, <2>5, <2>6 DEF CreateInv
<1>10. ASSUME Serve
       PROVE  CreateInv'
  <2>1. /\ net = "sent" /\ saved' = CreateKeyTTL(serverMax, job.ttl)
        /\ net' = (IF saved' = NoTTL THEN "400" ELSE "201")
        /\ UNCHANGED <<serverMax, form, note, job, result>>
    BY <1>10 DEF Serve
  <2>2. job.at = "requesting" /\ result = HiddenLink
    BY <1>0, <2>1 DEF RequestHidesLink
  <2>3. job.ttl \in Nat /\ job.ttl # 0
    BY <1>0, <1>a, <2>2 DEF Jobs, JobInRange
  <2>4. saved' \in {job.ttl * Second, NoTTL}
    BY <1>0, <2>1, <2>3, SavedInRange DEF PageTypes
  <2>5. PageTypes' /\ ShownIsStored' /\ RequestHidesLink'
    BY <1>0, <2>1, <2>2, <2>4 DEF PageTypes, ShownIsStored, RequestHidesLink
  <2> QED
    BY <1>c, <2>1, <2>5 DEF CreateInv
<1>11. ASSUME ServeError
       PROVE  CreateInv'
  <2>1. net # "none" /\ net' = "error" /\ UNCHANGED <<serverMax, form, note, job, result, saved>>
    BY <1>11 DEF ServeError
  <2>2. PageTypes' /\ RequestHidesLink'
    BY <1>0, <2>1 DEF PageTypes, RequestHidesLink
  <2> QED
    BY <1>c, <2>1, <2>2 DEF CreateInv
<1>12. ASSUME NEW v \in MaxTTLValues, Redeploy(v)
       PROVE  CreateInv'
  <2>1. serverMax' = ServerMax(v) /\ UNCHANGED <<form, note, job, net, result, saved>>
    BY <1>12 DEF Redeploy
  <2>2. v \in Nat
    BY CreatePageAssumption
  <2>3. serverMax' \in Nat /\ minTTL <= serverMax' /\ serverMax' <= maxAllowedTTL
    BY <2>1, <2>2, ServerMaxInRange
  <2>4. PageTypes'
    BY <1>0, <2>1, <2>3 DEF PageTypes
  <2> QED
    BY <1>c, <2>1, <2>4 DEF CreateInv
<1>13. ASSUME UNCHANGED vars
       PROVE  CreateInv'
  <2>1. UNCHANGED <<serverMax, form, note, job, net, result, saved>>
    BY <1>13 DEF vars
  <2>2. PageTypes'
    BY <1>0, <2>1 DEF PageTypes
  <2> QED
    BY <1>c, <2>1, <2>2 DEF CreateInv
<1> QED
  BY <1>1, <1>2, <1>3, <1>4, <1>5, <1>6, <1>7, <1>8, <1>9, <1>10, <1>11, <1>12, <1>13
     DEF Next, UserStep, PageStep, ServerStep

(* Shown for every MAX_TTL, however often the server is redeployed.        *)
LEMMA CreateInvariant == Spec => []CreateInv
  BY CreateInit, CreateStep, PTL DEF Spec

-----------------------------------------------------------------------------
(* mission.md:18-19: CreateKey saves no key for less than a minute or for  *)
(* longer than the operator's limit and seven days, whatever ttl is sent.  *)
THEOREM SavedWithinPolicyHolds == Spec => []SavedWithinPolicy
<1>1. ASSUME PageTypes
      PROVE  SavedWithinPolicy
  <2>1. serverMax \in Nat /\ minTTL <= serverMax /\ serverMax <= maxAllowedTTL
    BY <1>1 DEF PageTypes
  <2>2. ASSUME NEW t \in RequestTTLs, CreateKeyTTL(serverMax, t) # NoTTL
        PROVE  minTTL <= CreateKeyTTL(serverMax, t) /\ CreateKeyTTL(serverMax, t) <= serverMax
    <3>1. t \in Int
      BY CreatePageAssumption
    <3> QED
      BY <2>1, <2>2, <3>1, SavedInRange
  <2> QED
    BY <2>1, <2>2 DEF SavedWithinPolicy
<1>2. CreateInv => SavedWithinPolicy
  BY <1>1 DEF CreateInv
<1> QED
  BY <1>2, CreateInvariant, PTL

(* A form that nobody typed minutes into can always be submitted.          *)
THEOREM FormUsableHolds == Spec => []FormUsable
<1>1. CreateInv => FormUsable
  BY SelectedInRange DEF CreateInv, PageTypes, FormInRange, FormUsable
<1> QED
  BY <1>1, CreateInvariant, PTL

(* The expiry shown beside a link is the one its key was saved with.       *)
THEOREM ShownIsStoredHolds == Spec => []ShownIsStored
<1>1. CreateInv => ShownIsStored
  BY DEF CreateInv
<1> QED
  BY <1>1, CreateInvariant, PTL

(* No note over 100 KiB is in a link unless the size warning was shown for *)
(* this very note and let it through.                                      *)
THEOREM LargeWasAcceptedHolds == Spec => []LargeWasAccepted
<1>1. CreateInv => LargeWasAccepted
  BY DEF CreateInv
<1> QED
  BY <1>1, CreateInvariant, PTL

(* Page and server agree on the rules: a ttl from the form is rejected     *)
(* only by a server whose maximum went below the one the page was told.    *)
THEOREM FreshFormAcceptedHolds == Spec => FreshFormAccepted
<1>1. ASSUME CreateInv, [Next]_vars, net # "400", net' = "400"
      PROVE  form.max > ServedMax(serverMax)
  <2>1. Serve
    BY <1>1 DEF Next, UserStep, PageStep, ServerStep, Choose, TypeMinutes, TypeNote, Submit, CloseDialog,
       Request, NewNote, CreateFails, CreateReturns, Encrypted, ServeError, Redeploy, vars
  <2>2. net = "sent" /\ CreateKeyTTL(serverMax, job.ttl) = NoTTL
    BY <1>1, <2>1 DEF Serve
  <2>3. job.at = "requesting"
    BY <1>1, <2>2 DEF CreateInv, RequestHidesLink
  <2>4. job.ttl \in 60..form.max /\ form.max \in Nat
    BY <1>1, <2>3 DEF CreateInv, JobInRange, PageTypes, Forms, PageMaxima
  <2>5. serverMax \in Nat /\ minTTL <= serverMax /\ serverMax <= maxAllowedTTL
    BY <1>1 DEF CreateInv, PageTypes
  <2>6. job.ttl > WholeSeconds(serverMax)
    BY <2>2, <2>4, <2>5, SavedInRange
  <2>7. ServedMax(serverMax) = WholeSeconds(serverMax) /\ ServedMax(serverMax) \in Nat
    BY <2>5, ServedMaxIs DEF PageMaxima
  <2> QED
    BY <2>4, <2>6, <2>7
<1>2. CreateInv /\ [Next]_vars
        => [net # "400" /\ net' = "400" => form.max > ServedMax(serverMax)]_vars
  BY <1>1
<1> QED
  BY <1>2, CreateInvariant, PTL DEF Spec, FreshFormAccepted
-----------------------------------------------------------------------------
(* What the result panel may say.                                          *)
Panels == [plaintext : NoteSizes \cup {0}, expiry : [count : Nat, unit : Units], length : Nat,
           qr : BOOLEAN, opens : BOOLEAN, accepted : NoteSizes \cup {0}]

(* The link to a note of every size opens and has the length predicted.    *)
LinksAreExact ==
  \A n \in NoteSizes \cup {0} : links[n].length = EstimateLinkLength(n) /\ links[n].opens = TRUE

(* The second inductive invariant, relative to CreateInv: what is shown is *)
(* a link, and the rest of the types.                                      *)
PanelInv ==
  /\ LinksAreExact /\ HintIsExact /\ LinkOpens
  /\ browser \subseteq {"dialog", "qr"} /\ returnValue \in {"", "cancel", "confirm"}
  /\ result \in Panels /\ saved \in Nat
  /\ job.at = "idle" => job = Idle

(* LinkRoundTrip and LinkLengthExact for the link of a submission.         *)
LEMMA LinkToSays ==
  ASSUME NEW n \in Nat
  PROVE  LinkTo(n).length = EstimateLinkLength(n) /\ LinkTo(n).opens = TRUE
<1> DEFINE text == Text("note", n)
           url == BuildShareURL("id", EncryptMessage(PublicPem("id"), text, "r"))
           o == DecryptMessage(PrivatePem("id"), ParseFragment(url.hash)) = text
<1>1. text.size = n
  BY DEF Text, Bytes
<1>2. text.size \in Nat
  BY <1>1
<1> HIDE DEF text
<1>3. DecryptMessage(PrivatePem("id"), ParseFragment(url.hash)) = text
  BY <1>2, LinkRoundTrip, SMT
<1>4. LinkLength(url) = EstimateLinkLength(text.size)
  BY <1>2, LinkLengthExact, SMT
<1>5. o = TRUE
  BY <1>3
<1>6. LinkTo(n) = [length |-> LinkLength(url), opens |-> o]
  BY Zenon DEF LinkTo, text
<1> HIDE DEF url, o
<1> QED
  BY <1>1, <1>4, <1>5, <1>6

LEMMA EstimateIsNat ==
  ASSUME NEW n \in Nat
  PROVE  EstimateLinkLength(n) \in Nat
<1>1. Base64URLLength(n + 16) \in Nat
  BY SMT DEF Base64URLLength
<1> QED
  BY <1>1, OriginAssumption, SMT DEF EstimateLinkLength

(* formatDuration counts in days, hours, minutes or seconds.               *)
LEMMA FormatType ==
  ASSUME NEW seconds \in Nat
  PROVE  FormatDuration(seconds) \in [count : Nat, unit : Units]
<1> DEFINE S == {u \in Units : seconds % u = 0}
           size == Max(S)
<1>1. FormatDuration(seconds) = [count |-> seconds \div size, unit |-> size]
  BY SMT DEF FormatDuration
<1> HIDE DEF size
<1>2. size \in Units
  BY FormatUnit, SMT DEF size
<1>3. seconds \div size \in Nat
  BY <1>2, SMT DEF Units
<1> QED
  BY <1>1, <1>2, <1>3, SMT

(* The panel Encrypted renders: the link of the note submitted.            *)
LEMMA RenderedLink ==
  ASSUME LinksAreExact, job \in Jobs, NEW n \in NoteSizes \cup {0}
  PROVE  /\ Rendered(n) \in Panels /\ Rendered(n).plaintext = n
         /\ Rendered(n).length = EstimateLinkLength(n) /\ Rendered(n).opens = TRUE
         /\ Rendered(n).qr = ("qr" \in browser /\ EstimateLinkLength(n) <= QrCapacity)
<1> DEFINE e == FormatDuration(job.ttl)
           l == EstimateLinkLength(n)
           q == "qr" \in browser /\ EstimateLinkLength(n) <= QrCapacity
           o == TRUE
           a == IF job.answered = "none" THEN 0 ELSE job.plaintext
           E == [count : Nat, unit : Units]
           B == BOOLEAN
<1>1. links[n].length = l /\ links[n].opens = o
  BY DEF LinksAreExact
<1>2. RenderQRCode(links[n].length) = q
  BY <1>1 DEF RenderQRCode
<1>3. Rendered(n) = [plaintext |-> n, expiry |-> e, length |-> l, qr |-> q, opens |-> o, accepted |-> a]
  <2> HIDE DEF l, q, o
  <2> QED
    BY <1>1, <1>2, Zenon DEF Rendered
<1>4. e \in E
  BY FormatType DEF Jobs
<1>5. l \in Nat
  BY EstimateIsNat, CreatePageAssumption
<1>6. a \in NoteSizes \cup {0}
  BY DEF Jobs
<1>7. q \in B /\ o \in B
  BY Zenon
<1>8. Panels = [plaintext : NoteSizes \cup {0}, expiry : E, length : Nat, qr : B, opens : B, accepted : NoteSizes \cup {0}]
  BY SMT DEF Panels
<1> HIDE DEF e, l, q, o, a, E, B
<1>9. Rendered(n) \in Panels
  BY <1>3, <1>4, <1>5, <1>6, <1>7, <1>8
<1>10. Rendered(n).plaintext = n /\ Rendered(n).length = l /\ Rendered(n).opens = o /\ Rendered(n).qr = q
  BY <1>3
<1> QED
  BY <1>9, <1>10, Zenon DEF l, q, o

LEMMA HiddenPanel == HiddenLink \in Panels
<1> DEFINE e == FormatDuration(0)
           no == FALSE
           E == [count : Nat, unit : Units]
           B == BOOLEAN
<1>1. HiddenLink = [plaintext |-> 0, expiry |-> e, length |-> 0, qr |-> no, opens |-> no, accepted |-> 0]
  BY DEF HiddenLink
<1>2. e \in E
  BY FormatType
<1>3. no \in B
  BY Zenon
<1>4. Panels = [plaintext : NoteSizes \cup {0}, expiry : E, length : Nat, qr : B, opens : B, accepted : NoteSizes \cup {0}]
  BY SMT DEF Panels
<1> HIDE DEF e, no, E, B
<1> QED
  BY <1>1, <1>2, <1>3, <1>4

LEMMA PanelInit == Init => PanelInv
<1> SUFFICES ASSUME Init
             PROVE  PanelInv
  OBVIOUS
<1>1. LinksAreExact
  <2>1. \A n \in NoteSizes \cup {0} : links[n] = LinkTo(n) /\ n \in Nat
    <3>1. links = [n \in NoteSizes \cup {0} |-> LinkTo(n)]
      BY Zenon DEF Init
    <3> QED
      BY <3>1, CreatePageAssumption
  <2> QED
    BY <2>1, LinkToSays DEF LinksAreExact
<1>2. result = HiddenLink /\ job = Idle /\ saved = 0 /\ returnValue = "" /\ browser \subseteq {"dialog", "qr"}
  BY DEF Init
<1>3. HintIsExact /\ LinkOpens
  BY <1>2 DEF HintIsExact, LinkOpens
<1> QED
  BY <1>1, <1>2, <1>3, HiddenPanel DEF PanelInv

(* All that a step does to the panel: it stays, it is hidden, or the link  *)
(* of the note submitted is put there.                                     *)
LEMMA PanelSteps ==
  ASSUME job \in Jobs, [Next]_vars
  PROVE  /\ UNCHANGED <<links, browser>>
         /\ result' \in {result, HiddenLink} \/ result' = Rendered(job.plaintext)
         /\ saved' \in {saved, 0, CreateKeyTTL(serverMax, job.ttl)}
         /\ returnValue' \in {returnValue, "cancel", "confirm"}
         /\ job' \in {job, Idle} \/ job'.at # "idle"
<1>1. ASSUME Submit \/ \E a \in {"cancel", "confirm", "escape"} : CloseDialog(a)
      PROVE  /\ UNCHANGED <<links, browser>> /\ result' \in {result, HiddenLink} /\ saved' \in {saved, 0}
             /\ returnValue' \in {returnValue, "cancel", "confirm"}
             /\ job' = Idle \/ job'.at # "idle"
  <2>1. ASSUME NEW n, NEW t, NEW a, Request(n, t, a)
        PROVE  result' = HiddenLink /\ saved' = 0 /\ job'.at # "idle"
    BY <2>1 DEF Request
  <2>2. CASE Submit
    <3>1. UNCHANGED <<links, browser, returnValue>>
      BY <2>2 DEF Submit
    <3>2. \/ Request(note, SelectedTTL(form), "none")
          \/ /\ job' = [at |-> "asking", plaintext |-> note, ttl |-> SelectedTTL(form), answered |-> "none"]
             /\ UNCHANGED <<net, result, saved>>
      BY <2>2, Zenon DEF Submit
    <3> DEFINE t == SelectedTTL(form)
    <3> HIDE DEF t
    <3>3. [at |-> "asking", plaintext |-> note, ttl |-> t, answered |-> "none"].at # "idle"
      OBVIOUS
    <3> QED
      BY <2>1, <3>1, <3>2, <3>3 DEF t
  <2>3. ASSUME NEW a \in {"cancel", "confirm", "escape"}, CloseDialog(a)
        PROVE  /\ UNCHANGED <<links, browser>> /\ returnValue' \in {returnValue, "cancel", "confirm"}
               /\ Request(job.plaintext, job.ttl, a) \/ (job' = Idle /\ UNCHANGED <<result, saved>>)
    BY <2>3 DEF CloseDialog, ReturnValue
  <2> QED
    BY <1>1, <2>1, <2>2, <2>3
<1>2. ASSUME CreateReturns
      PROVE  job'.at # "idle" /\ UNCHANGED <<links, browser, result, saved, returnValue>>
  BY <1>2 DEF CreateReturns, Jobs
<1>3. ASSUME Encrypted
      PROVE  job' = Idle /\ result' \in {result, Rendered(job.plaintext)} /\ UNCHANGED <<links, browser, saved, returnValue>>
  BY <1>3 DEF Encrypted, Plaintext
<1>4. ASSUME CreateFails \/ NewNote
      PROVE  job' \in {job, Idle} /\ result' \in {result, HiddenLink} /\ UNCHANGED <<links, browser, saved, returnValue>>
  BY <1>4 DEF CreateFails, NewNote
<1>5. ASSUME Serve
      PROVE  saved' = CreateKeyTTL(serverMax, job.ttl) /\ UNCHANGED <<links, browser, job, result, returnValue>>
  BY <1>5 DEF Serve
<1>6. ASSUME \/ \E v \in Presets \cup {Custom} : Choose(v)
             \/ \E m \in MinuteValues : TypeMinutes(m)
             \/ \E n \in NoteSizes \cup {0} : TypeNote(n)
             \/ ServeError
             \/ \E v \in MaxTTLValues : Redeploy(v)
             \/ UNCHANGED vars
      PROVE  UNCHANGED <<links, browser, job, result, saved, returnValue>>
  <2>1. ASSUME NEW v, Choose(v) \/ TypeMinutes(v) \/ TypeNote(v) \/ Redeploy(v)
        PROVE  UNCHANGED <<links, browser, job, result, saved, returnValue>>
    BY <2>1, Zenon DEF Choose, TypeMinutes, TypeNote, Redeploy
  <2> QED
    BY <1>6, <2>1, Zenon DEF ServeError, vars
<1>7. \/ Submit \/ \E a \in {"cancel", "confirm", "escape"} : CloseDialog(a)
      \/ CreateReturns \/ Encrypted \/ CreateFails \/ NewNote \/ Serve
      \/ \E v \in Presets \cup {Custom} : Choose(v)
      \/ \E m \in MinuteValues : TypeMinutes(m)
      \/ \E n \in NoteSizes \cup {0} : TypeNote(n)
      \/ ServeError
      \/ \E v \in MaxTTLValues : Redeploy(v)
      \/ UNCHANGED vars
  BY Zenon DEF Next, UserStep, PageStep, ServerStep
<1>8. CASE Submit \/ \E a \in {"cancel", "confirm", "escape"} : CloseDialog(a)
  BY <1>1, <1>8
<1>9. CASE CreateReturns \/ Encrypted \/ CreateFails \/ NewNote \/ Serve
  BY <1>2, <1>3, <1>4, <1>5, <1>9
<1> QED
  BY <1>6, <1>7, <1>8, <1>9, Zenon

(* The prover writes a range of numerals out, number by number: ranges are *)
(* met through their bounds.                                               *)
LEMMA Between ==
  ASSUME NEW a \in Int, NEW b \in Int, NEW x \in Int, a <= x, x <= b
  PROVE  x \in a..b
OBVIOUS

(* The form and the submission are in the ranges of the policy.            *)
LEMMA RangesAreTypes ==
  ASSUME CreateInv, PanelInv
  PROVE  TypeOK
<1> DEFINE lo == WholeSeconds(minTTL)
           hi == WholeSeconds(maxAllowedTTL)
           B == BOOLEAN
           R == lo..hi
           T == 0..hi
<1>1. lo \in Nat /\ hi \in Nat /\ lo <= 60 /\ 604800 <= hi
  BY SMT DEF WholeSeconds, minTTL, maxAllowedTTL, Second
<1>2. PageTypes /\ JobInRange
  BY DEF CreateInv
<1> HIDE DEF lo, hi
<1>3. \A n \in PageMaxima : n \in R
  <2>1. ASSUME NEW n \in PageMaxima
        PROVE  n \in Int /\ lo <= n /\ n <= hi
    BY <1>1, <2>1, SMT DEF PageMaxima
  <2> QED
    BY <1>1, <2>1, Between
<1>4. /\ form \in [max : PageMaxima, checked : Presets \cup {Custom}, minutes : Nat, typed : B]
      /\ form.max \in Nat /\ form.max <= 604800
  BY <1>2, SMT DEF PageTypes, Forms, PageMaxima
<1>5. job.ttl \in T
  <2>1. CASE job.at = "idle"
    <3>1. job = Idle
      BY <2>1, Zenon DEF PanelInv
    <3>2. job.ttl = 0
      BY <3>1 DEF Idle
    <3> QED
      BY <1>1, <3>2, Between
  <2>2. CASE job.at # "idle"
    <3>1. job.ttl \in 60..form.max
      BY <1>2, <2>2 DEF JobInRange
    <3>2. job.ttl \in Int /\ 0 <= job.ttl /\ job.ttl <= hi
      BY <1>1, <1>4, <3>1, SMT
    <3> QED
      BY <1>1, <3>2, Between
  <2> QED
    BY <2>1, <2>2
<1>6. /\ serverMax \in Nat /\ minTTL <= serverMax /\ serverMax <= maxAllowedTTL
      /\ note \in NoteSizes \cup {0} /\ job \in Jobs
      /\ net \in {"none", "sent", "201", "400", "error"}
  BY <1>2 DEF PageTypes
<1>7. serverMax \in minTTL..maxAllowedTTL
  <2>1. minTTL \in Int /\ maxAllowedTTL \in Int
    BY SMT DEF minTTL, maxAllowedTTL, Second
  <2> QED
    BY <1>6, <2>1, Between
<1> HIDE DEF B, R, T
<1>8. form \in [max : R, checked : Presets \cup {Custom}, minutes : Nat, typed : B]
  BY <1>3, <1>4
<1>9. job \in [at : {"idle", "asking", "requesting", "encrypting"}, plaintext : NoteSizes \cup {0}, ttl : T,
               answered : {"none", "cancel", "confirm", "escape"}]
  BY <1>5, <1>6 DEF Jobs
<1>10. /\ browser \subseteq {"dialog", "qr"} /\ returnValue \in {"", "cancel", "confirm"} /\ saved \in Nat
       /\ result \in Panels
  BY Zenon DEF PanelInv
<1> QED
  BY <1>6, <1>7, <1>8, <1>9, <1>10, Zenon DEF TypeOK, Panels, B, R, T, lo, hi

(* Every step keeps what the panel says true.                              *)
LEMMA PanelStep == CreateInv /\ PanelInv /\ [Next]_vars => PanelInv'
<1> SUFFICES ASSUME CreateInv, PanelInv, [Next]_vars
             PROVE  PanelInv'
  OBVIOUS
<1>1. job \in Jobs /\ serverMax \in Nat /\ minTTL <= serverMax /\ serverMax <= maxAllowedTTL
  BY DEF CreateInv, PageTypes
<1>2. /\ UNCHANGED <<links, browser>>
      /\ result' \in {result, HiddenLink} \/ result' = Rendered(job.plaintext)
      /\ saved' \in {saved, 0, CreateKeyTTL(serverMax, job.ttl)}
      /\ returnValue' \in {returnValue, "cancel", "confirm"}
      /\ job' \in {job, Idle} \/ job'.at # "idle"
  BY <1>1, PanelSteps, Zenon
<1>3. /\ LinksAreExact /\ HintIsExact /\ LinkOpens
      /\ browser \subseteq {"dialog", "qr"} /\ returnValue \in {"", "cancel", "confirm"}
      /\ result \in Panels /\ saved \in Nat
      /\ job.at = "idle" => job = Idle
  BY Zenon DEF PanelInv
<1>4. LinksAreExact' /\ browser' \subseteq {"dialog", "qr"}
  BY <1>2, <1>3, Zenon DEF LinksAreExact
<1>5. returnValue' \in {"", "cancel", "confirm"}
  BY <1>2, <1>3, Zenon
<1>6. job'.at = "idle" => job' = Idle
  BY <1>2, <1>3, Zenon
<1>7. saved' \in Nat
  <2>1. job.ttl \in Int
    BY <1>1 DEF Jobs
  <2>2. CreateKeyTTL(serverMax, job.ttl) \in Nat
    BY <1>1, <2>1, SMT DEF CreateKeyTTL, WholeSeconds, minTTL, maxAllowedTTL, defaultTTL, Second, Lesser, NoTTL
  <2>3. 0 \in Nat
    OBVIOUS
  <2> QED
    BY <1>2, <1>3, <2>2, <2>3, Zenon
<1>8. result' \in Panels /\ HintIsExact' /\ LinkOpens'
  <2>1. CASE result' = result
    BY <1>2, <1>3, <2>1, Zenon DEF HintIsExact, LinkOpens
  <2>2. CASE result' = HiddenLink
    BY <2>2, HiddenPanel, Zenon DEF HintIsExact, LinkOpens
  <2>3. CASE result' = Rendered(job.plaintext)
    <3> DEFINE n == job.plaintext
               hint == DescribeMessage(n)
    <3>1. n \in NoteSizes \cup {0}
      BY <1>1 DEF Jobs
    <3>2. /\ result' \in Panels /\ result'.plaintext = n
          /\ result'.length = EstimateLinkLength(n) /\ result'.opens = TRUE
          /\ result'.qr = ("qr" \in browser /\ EstimateLinkLength(n) <= QrCapacity)
      BY <1>1, <1>3, <2>3, <3>1, RenderedLink, Zenon
    <3>3. hint.length = EstimateLinkLength(n) /\ hint.qr = (EstimateLinkLength(n) <= QrCapacity)
      <4> DEFINE l == EstimateLinkLength(n)
                 fits == EstimateLinkLength(n) <= QrCapacity
      <4>1. hint = [length |-> l, qr |-> fits]
        BY Zenon DEF DescribeMessage
      <4> HIDE DEF l, fits, hint
      <4>2. hint.length = l /\ hint.qr = fits
        BY <4>1
      <4> QED
        BY <4>2, Zenon DEF l, fits
    <3>4. DescribeMessage(result'.plaintext) = hint
      BY <3>2, Zenon
    <3> HIDE DEF hint
    <3>5. /\ result'.length = DescribeMessage(result'.plaintext).length
          /\ result'.qr <=> "qr" \in browser' /\ DescribeMessage(result'.plaintext).qr
      BY <1>2, <3>2, <3>3, <3>4, Zenon
    <3> QED
      BY <3>2, <3>5, Zenon DEF HintIsExact, LinkOpens
  <2> QED
    BY <1>2, <2>1, <2>2, <2>3, Zenon
<1> QED
  BY <1>4, <1>5, <1>6, <1>7, <1>8, Zenon DEF PanelInv

LEMMA PanelInvariant == Spec => []PanelInv
  BY PanelInit, PanelStep, CreateInvariant, PTL DEF Spec

(* A link the page shows can be parsed and decrypted to the note with the  *)
(* key it was made for, for notes of every size.                           *)
THEOREM LinkOpensHolds == Spec => []LinkOpens
<1>1. PanelInv => LinkOpens
  BY Zenon DEF PanelInv
<1> QED
  BY <1>1, PanelInvariant, PTL

(* A link is as long as the page said while the note was typed, and has a  *)
(* QR code when the page said so and the library was loaded.               *)
THEOREM HintIsExactHolds == Spec => []HintIsExact
<1>1. PanelInv => HintIsExact
  BY Zenon DEF PanelInv
<1> QED
  BY <1>1, PanelInvariant, PTL

(* The variables of the create page keep their types: the ttl of the form  *)
(* and of the submission are from one minute to seven days.                *)
THEOREM CreateTypeCorrect == Spec => []TypeOK
<1>1. CreateInv /\ PanelInv => TypeOK
  BY RangesAreTypes
<1> QED
  BY <1>1, CreateInvariant, PanelInvariant, PTL
=============================================================================
