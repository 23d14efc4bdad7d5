---------------------------- MODULE OneTimeNote ----------------------------
(***************************************************************************)
(* What KeyBank promises of one note, over all pages ever opened on its    *)
(* link (mission.md:17 and principle 2, delete on read): the key goes to   *)
(* one page at most, only the page that got it can show the note, and a    *)
(* note that was shown or lost is shown by nobody else.                    *)
(*                                                                         *)
(* SharePage is shown to implement this module.                            *)
(***************************************************************************)
CONSTANT Pages

VARIABLES note,     \* sealed, held by a page, read, or lost
          readers   \* the page that holds or has read it

vars == <<note, readers>>

Init == note \in {"sealed", "lost"} /\ readers = {}

(* The server gives the key to page p and keeps nothing. *)
Hand(p) == note = "sealed" /\ note' = "held" /\ readers' = {p}

(* The page that holds the key shows the note. *)
Show(p) == note = "held" /\ readers = {p} /\ note' = "read" /\ UNCHANGED readers

(* The key expires or is lost, in the store, on the way, or in the page    *)
(* that holds it; a note that cannot be decrypted is lost, too.            *)
Lose == note \in {"sealed", "held"} /\ note' = "lost" /\ readers' = {}

Next == Lose \/ \E p \in Pages : Hand(p) \/ Show(p)

Spec == Init /\ [][Next]_vars
=============================================================================
