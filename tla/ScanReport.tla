----------------------------- MODULE ScanReport -----------------------------
(***************************************************************************)
(* What the scan status (TDvbScanStatus) promises to an application that   *)
(* polls it, without transport streams, tuners and tables: a state and a   *)
(* report that grows while a scan is in progress and then stays.           *)
(***************************************************************************)
EXTENDS Sequences

CONSTANT Entries   \* what a report may say of one frequency

VARIABLES
  ScanState,
  TsList

reportVars == <<ScanState, TsList>>

InProgress == {"SCAN_IN_PROGRESS_FAST", "SCAN_IN_PROGRESS_BKGD"}

ReportInit == ScanState = "SCAN_STOPPED" /\ TsList = << >>

\* A scan begins; a background scan may follow a fast one directly, and a
\* fast scan may be asked for again just when one has succeeded.
Begin ==
  /\ ScanState' \in InProgress
  /\ ScanState # "SCAN_IN_PROGRESS_BKGD"
  /\ UNCHANGED TsList

\* The report of the scan before is thrown away, never an entry of it.
Discard ==
  /\ ScanState \in InProgress
  /\ TsList' = << >>
  /\ UNCHANGED ScanState

Add(e) ==
  /\ ScanState \in InProgress
  /\ TsList' = Append(TsList, e)
  /\ UNCHANGED ScanState

\* Only a background scan completes, and it has at least one entry.
Complete ==
  /\ ScanState = "SCAN_IN_PROGRESS_BKGD"
  /\ TsList # << >>
  /\ ScanState' = "SCAN_COMPLETED"
  /\ UNCHANGED TsList

Fail ==
  /\ ScanState \in InProgress
  /\ ScanState' = "SCAN_FAILED"
  /\ UNCHANGED TsList

Stop ==
  /\ ScanState \in {"SCAN_COMPLETED", "SCAN_FAILED"}
  /\ ScanState' = "SCAN_STOPPED"
  /\ UNCHANGED TsList

ReportNext ==
  \/ Begin \/ Discard \/ Complete \/ Fail \/ Stop
  \/ \E e \in Entries : Add(e)

ReportSpec == ReportInit /\ [][ReportNext]_reportVars

\* A scan in progress ends.
ReportEnds ==
  ScanState \in InProgress ~> ScanState \notin InProgress

=============================================================================
