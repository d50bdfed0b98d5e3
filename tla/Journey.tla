------------------------------ MODULE Journey -------------------------------
(***************************************************************************)
(* The four stages at which a job and its runs change their form, checked  *)
(* in one state machine that takes one of them:                            *)
(*                                                                         *)
(*   Authoring  from the script's source to a stored job and an executed   *)
(*              run, in the process or over HTTP;                          *)
(*   Rows       from a model to a row of the SQL store and back;           *)
(*   Reporting  from what a script logs and how it fails to the run's      *)
(*              report and its retry;                                      *)
(*   Browse     from the rows of the store to the pages a client reads.    *)
(*                                                                         *)
(* The stages share no state: each leaves the variables of the others as   *)
(* they are.                                                               *)
(***************************************************************************)
EXTENDS Authoring, Rows, Reporting, Browse

journeyVars == <<authorVars, rowVars, reportVars, browseVars>>

Init ==
    \/ AuthorInit /\ RowsIdle /\ ReportIdle /\ BrowseIdle
    \/ RowsInit /\ AuthorIdle /\ ReportIdle /\ BrowseIdle
    \/ ReportInit /\ AuthorIdle /\ RowsIdle /\ BrowseIdle
    \/ BrowseInit /\ AuthorIdle /\ RowsIdle /\ ReportIdle

Next ==
    \/ AuthorNext /\ UNCHANGED <<rowVars, reportVars, browseVars>>
    \/ RowsNext /\ UNCHANGED <<authorVars, reportVars, browseVars>>
    \/ ReportNext /\ UNCHANGED <<authorVars, rowVars, browseVars>>
    \/ BrowseNext /\ UNCHANGED <<authorVars, rowVars, reportVars>>

Spec == Init /\ [][Next]_journeyVars
=============================================================================
