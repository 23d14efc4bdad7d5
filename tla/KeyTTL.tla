------------------------------- MODULE KeyTTL -------------------------------
(***************************************************************************)
(* How long a key may live: the ttl arithmetic of the server (config.go,   *)
(* handlers/handlers.go) and of the create page's expiry form              *)
(* (static/create.js) as operators.  Server durations are milliseconds,    *)
(* because MAX_TTL may hold fractions of a second; requests and the page   *)
(* use whole seconds.                                                      *)
(***************************************************************************)
EXTENDS Integers, FiniteSetsExt

Second        == 1000
minTTL        == 60 * Second
maxAllowedTTL == 604800 * Second
defaultTTL    == 86400 * Second

NoTTL == 0   \* a ttl of 0 stands for a rejected request or a thrown error

Lesser(a, b) == IF a < b THEN a ELSE b

-----------------------------------------------------------------------------
(* envDuration("MAX_TTL", 7 days): NoTTL stands for an absent or           *)
(* unparseable variable.                                                   *)
EnvDuration(v) == IF v < minTTL THEN maxAllowedTTL ELSE v

(* Faulty variant of SetMaxTTL: no upper bound. *)
SetAnyMaxTTL(ttl) == IF ttl >= minTTL THEN ttl ELSE maxAllowedTTL

(* SetMaxTTL on a fresh Handlers, whose maxTTL is maxAllowedTTL.           *)
SetMaxTTL(ttl) == IF ttl >= minTTL /\ ttl <= maxAllowedTTL THEN ttl ELSE maxAllowedTTL

(* The expiry ceiling a process started with MAX_TTL=v enforces.           *)
ServerMax(v) == SetMaxTTL(EnvDuration(v))

(* int64(h.maxTTL / time.Second)                                           *)
WholeSeconds(d) == d \div Second

(* Faulty variant of CreateKeyTTL: a ttl over the maximum is capped. *)
CappedTTL(max, ttl) ==
  CASE ttl = 0 -> Lesser(defaultTTL, max)
    [] ttl # 0 /\ ttl < WholeSeconds(minTTL) -> NoTTL
    [] OTHER -> Lesser(ttl * Second, max)

(* Faulty variant of CreateKeyTTL: the default ignores the maximum. *)
UncappedDefaultTTL(max, ttl) ==
  CASE ttl = 0 -> defaultTTL
    [] ttl # 0 /\ (ttl < WholeSeconds(minTTL) \/ ttl > WholeSeconds(max)) -> NoTTL
    [] OTHER -> ttl * Second

(* The ttl CreateKey saves a key with when the request says ttl seconds.   *)
CreateKeyTTL(max, ttl) ==
  CASE ttl = 0 -> Lesser(defaultTTL, max)
    [] ttl # 0 /\ (ttl < WholeSeconds(minTTL) \/ ttl > WholeSeconds(max)) -> NoTTL
    [] OTHER -> ttl * Second

-----------------------------------------------------------------------------
(* The radio buttons of templates/create.html, in seconds.                 *)
Presets   == {3600, 86400, 604800}
Custom    == 1    \* the button "custom"
Unchecked == 0    \* no button is checked

(* maxTTL of initCreatePage, from data-max-ttl-seconds.                    *)
PageMax(n) == IF n >= 60 THEN Lesser(n, 604800) ELSE 604800

(* The page that a server with ceiling max delivers.                       *)
ServedMax(max) == PageMax(WholeSeconds(max))

Enabled(max) == {v \in Presets : v <= max}

(* Faulty variant of CapMinutes: the minutes field keeps its default. *)
KeepMinutes(m, max) == m

(* configureExpiryOptions: presets over the maximum are unchecked, the     *)
(* custom minutes capped, and some enabled button is checked.              *)
CapMinutes(m, max) == Lesser(m, Max({1, max \div 60}))

KeepChecked(checked, max) ==
  IF checked \in Presets \ Enabled(max) THEN Unchecked ELSE checked

Longest(max) == IF Enabled(max) = {} THEN Custom ELSE Max(Enabled(max))

Configure(f) ==
  LET kept == KeepChecked(f.checked, f.max)
  IN  [f EXCEPT !.checked = IF kept = Unchecked THEN Longest(f.max) ELSE kept,
                !.minutes = CapMinutes(f.minutes, f.max)]

(* The form as the template delivers it and form.reset() restores it.      *)
ResetForm(max) == Configure([max |-> max, checked |-> 86400, minutes |-> 60, typed |-> FALSE])

(* Faulty variant of SelectedTTL: custom minutes are not compared with the *)
(* maximum.                                                                *)
SelectedAnyTTL(f) ==
  CASE f.checked = Unchecked -> Lesser(86400, f.max)
    [] f.checked \in Presets -> IF f.checked > f.max THEN NoTTL ELSE f.checked
    [] OTHER -> IF f.minutes < 1 THEN NoTTL ELSE f.minutes * 60

(* selectedTTL: NoTTL stands for the error it throws.  Minutes that are    *)
(* not a whole number are 0 here.                                          *)
SelectedTTL(f) ==
  CASE f.checked = Unchecked -> Lesser(86400, f.max)
    [] f.checked \in Presets -> IF f.checked > f.max THEN NoTTL ELSE f.checked
    [] OTHER -> IF f.minutes < 1 \/ f.minutes * 60 > f.max THEN NoTTL ELSE f.minutes * 60

(* The units formatDuration counts in: days, hours, minutes and seconds.   *)
Units == {86400, 3600, 60, 1}

(* formatDuration: the largest unit, in seconds, that divides evenly.      *)
FormatDuration(seconds) ==
  LET size == Max({u \in Units : seconds % u = 0})
  IN  [count |-> seconds \div size, unit |-> size]
=============================================================================
