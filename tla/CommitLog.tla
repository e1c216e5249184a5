----------------------------- MODULE CommitLog -----------------------------
(***************************************************************************)
(* What a social chain promises to whoever follows its commits: a log of   *)
(* epochs without gaps that only grows, one entry per committed block, in  *)
(* which every entry holds actions that are valid on the state that the    *)
(* entries before it produce.                                              *)
(***************************************************************************)
EXTENDS Integers, Sequences

CONSTANTS Action, Conflict, Genesis, StartEpoch

VARIABLES
  log,    \* the committed blocks: epoch and valid actions
  state   \* the actions incorporated so far

logVars == <<log, state>>

LogInit ==
  /\ log = << >>
  /\ state = Genesis

(* The valid actions of a new entry exclude neither one another nor        *)
(* anything in the state.                                                  *)
Extend(valid) ==
  /\ \A a \in valid : \A b \in state : <<a, b>> \notin Conflict
  /\ \A a, b \in valid : a # b => <<a, b>> \notin Conflict
  /\ log' = Append(log, [epoch |-> StartEpoch + Len(log) + 1, valid |-> valid])
  /\ state' = state \cup valid

LogNext == \E valid \in SUBSET Action : Extend(valid)

LogSpec == LogInit /\ [][LogNext]_logVars
=============================================================================
