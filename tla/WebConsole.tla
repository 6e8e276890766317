----------------------------- MODULE WebConsole -----------------------------
(***************************************************************************)
(* The web console as one program: a browser opens one of its pages, which *)
(* is the connection with its two loops (WebApi), a component with polling *)
(* loops (WebPolls), a list (WebSearch), a dialog (WebDialogs), a table    *)
(* whose cells are edited (WebRows), or the installation (WebInstall).     *)
(*                                                                         *)
(* The pages meet only in the connection, which answers the requests of a  *)
(* page in the order they were sent (request.js, WebServer.HandleWs), and  *)
(* that is how each module takes them; so one page at a time is enough.    *)
(***************************************************************************)
EXTENDS WebApi, WebPolls, WebSearch, WebDialogs, WebRows, WebInstall

consoleVars == <<apiVars, pollVars, searchVars, dialogVars, rowVars, installVars>>

Init == ApiInit /\ PollsInit /\ SearchInit /\ DialogsInit /\ RowsInit /\ InstallInit

\* Which pages have not been opened.
NoApi == ApiInit
NoPolls == part = NoPart
NoSearch == list = NoList
NoDialogs == dlg = NoDialog
NoTables == grid = NoGrid
NoInstall == setup = NoPage

Next ==
    \/ /\ NoPolls /\ NoSearch /\ NoDialogs /\ NoTables /\ NoInstall
       /\ ApiNext /\ UNCHANGED <<pollVars, searchVars, dialogVars, rowVars, installVars>>
    \/ /\ NoSearch /\ NoDialogs /\ NoTables /\ NoInstall /\ NoApi
       /\ PollsNext /\ UNCHANGED <<apiVars, searchVars, dialogVars, rowVars, installVars>>
    \/ /\ NoPolls /\ NoDialogs /\ NoTables /\ NoInstall /\ NoApi
       /\ SearchNext /\ UNCHANGED <<apiVars, pollVars, dialogVars, rowVars, installVars>>
    \/ /\ NoPolls /\ NoSearch /\ NoTables /\ NoInstall /\ NoApi
       /\ DialogsNext /\ UNCHANGED <<apiVars, pollVars, searchVars, rowVars, installVars>>
    \/ /\ NoPolls /\ NoSearch /\ NoDialogs /\ NoInstall /\ NoApi
       /\ RowsNext /\ UNCHANGED <<apiVars, pollVars, searchVars, dialogVars, installVars>>
    \/ /\ NoPolls /\ NoSearch /\ NoDialogs /\ NoTables /\ NoApi
       /\ InstallNext /\ UNCHANGED <<apiVars, pollVars, searchVars, dialogVars, rowVars>>

\* Lists, dialogs and the installation promise nothing that takes time.
Spec == Init /\ [][Next]_consoleVars /\ ApiFairness /\ PollsFairness /\ RowsFairness

-----------------------------------------------------------------------------

\* Types of the variables of all pages.
TypeOK == ApiTypeOK /\ PollsTypeOK /\ SearchTypeOK /\ DialogsTypeOK /\ RowsTypeOK /\ InstallTypeOK
=============================================================================
