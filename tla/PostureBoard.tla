----------------------------- MODULE PostureBoard -----------------------------
(***************************************************************************)
(* What service mode promises its clients: a board with one posture report *)
(* and a bounded log of the latest reports, where                          *)
(*   - a report goes up on the board and into the log in one step;         *)
(*   - it describes a different artifact than the report it replaces;      *)
(*   - its diff is against exactly the report it replaces;                 *)
(*   - the only other change is the loss of everything with the process.      *)
(***************************************************************************)
EXTENDS Naturals, Sequences

CONSTANTS
  Report,    \* the reports that may be posted
  MaxItems,  \* the length of the log
  None

VARIABLES posture, log

boardVars == <<posture, log>>

Init == posture = None /\ log = << >>

\* The newest MaxItems entries of h.
Newest(h) == IF Len(h) > MaxItems THEN SubSeq(h, Len(h) - MaxItems + 1, Len(h)) ELSE h

Follows(r, old) ==
  IF old = None THEN r.prev = None
  ELSE /\ r.prev = old.gen /\ r.gen = old.gen + 1
       /\ r.content # old.content \/ r.path # old.path

Post ==
  /\ posture' \in Report /\ Follows(posture', posture)
  /\ log' = Newest(Append(log, posture'))

Lose == posture' = None /\ log' = << >>

Next == Post \/ Lose

Spec == Init /\ [][Next]_boardVars
=============================================================================
