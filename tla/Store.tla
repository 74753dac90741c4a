------------------------------- MODULE Store -------------------------------
(***************************************************************************)
(* What a store promises its callers, whatever it keeps its spans in: a    *)
(* span whose Write returned nil is served until it leaves the retention   *)
(* window, and again after every restart; nothing is served that was not   *)
(* written; the spans of one Write appear together.  Of a Write that       *)
(* failed, or that a crash cut short, nothing is served until a restart,   *)
(* after which any of its spans may be.                                    *)
(***************************************************************************)
EXTENDS Integers

CONSTANTS Span, EndOf, Retention

VARIABLES
  clock,
  open,      \* the store takes calls
  inWrite,   \* the spans of the Write in progress
  promised,  \* the spans of the Writes that returned nil
  doubtful,  \* those of Writes that returned an error, or did not return
  served     \* the spans searches and reads can find

vars == <<clock, open, inWrite, promised, doubtful, served>>

Fresh(s) == Retention = 0 \/ EndOf[s] >= clock - Retention

Init ==
  /\ clock = 0 /\ open = TRUE
  /\ inWrite = {} /\ promised = {} /\ doubtful = {} /\ served = {}

Begin ==
  /\ open /\ inWrite = {}
  /\ inWrite' \in SUBSET (Span \ promised)
  /\ UNCHANGED <<clock, open, promised, doubtful, served>>

Commit ==
  /\ promised' = promised \cup inWrite
  /\ served' = served \cup inWrite
  /\ inWrite' = {}
  /\ UNCHANGED <<clock, open, doubtful>>

Fail ==
  /\ doubtful' = doubtful \cup inWrite
  /\ inWrite' = {}
  /\ UNCHANGED <<clock, open, promised, served>>

Expire ==
  /\ open
  /\ served' \subseteq served /\ \A s \in served \ served' : ~Fresh(s)
  /\ UNCHANGED <<clock, open, inWrite, promised, doubtful>>

Stop ==
  /\ open /\ open' = FALSE
  /\ served' = {}
  /\ doubtful' = doubtful \cup inWrite
  /\ inWrite' = {}
  /\ UNCHANGED <<clock, promised>>

Restart ==
  /\ ~open /\ open' = TRUE
  /\ served' \subseteq promised \cup doubtful
  /\ \A s \in promised : Fresh(s) => s \in served'
  /\ UNCHANGED <<clock, inWrite, promised, doubtful>>

Pass ==
  /\ clock' > clock
  /\ UNCHANGED <<open, inWrite, promised, doubtful, served>>

Next == Begin \/ Commit \/ Fail \/ Expire \/ Stop \/ Restart \/ Pass

Spec == Init /\ [][Next]_vars
=============================================================================
