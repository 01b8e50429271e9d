------------------------------ MODULE TableFeed -----------------------------
(***************************************************************************)
(* What the section parser promises to the application behind it, without  *)
(* sections: each sub-table is on air in one generation at a time, and the *)
(* application is shown the generations whole, never an older one after a  *)
(* newer one, and in the end the one that stays on air.                    *)
(***************************************************************************)
EXTENDS Integers

CONSTANT SubTables

VARIABLES
  aired,   \* the generation of each sub-table now on air; 0: not broadcast
  shown    \* the generation the application was shown last; 0: none yet

feedVars == <<aired, shown>>

FeedInit ==
  /\ aired \in [SubTables -> 0..1]
  /\ shown = [st \in SubTables |-> 0]

\* The broadcaster replaces the table.
Replace(st) ==
  /\ aired[st] > 0
  /\ aired' = [aired EXCEPT ![st] = @ + 1]
  /\ UNCHANGED shown

\* The application is shown the table on air.
Show(st) ==
  /\ shown[st] # aired[st]
  /\ shown' = [shown EXCEPT ![st] = aired[st]]
  /\ UNCHANGED aired

FeedNext == \E st \in SubTables : Replace(st) \/ Show(st)

FeedSpec == FeedInit /\ [][FeedNext]_feedVars

FairFeedSpec == FeedSpec /\ \A st \in SubTables : WF_feedVars(Show(st))

=============================================================================
