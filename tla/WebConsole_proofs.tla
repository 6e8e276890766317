-------------------------- MODULE WebConsole_proofs ---------------------------
(***************************************************************************)
(* Proofs about the web console as one program, for any instance of its    *)
(* pages.  WebConsole composes them: whatever page is open, the program    *)
(* behaves as that page does and leaves the others unopened, so each page  *)
(* behaves as its module says, and what is proved of a page on its own is  *)
(* true of the program.                                                    *)
(***************************************************************************)
EXTENDS WebConsole, WebApi_proofs, WebLists_proofs, WebForms_proofs

(* A step of the program is a step of each page, or leaves the page alone. *)
LEMMA PagesStep ==
    ASSUME [Next]_consoleVars
    PROVE  /\ [ApiNext]_apiVars /\ [PollsNext]_pollVars /\ [SearchNext]_searchVars
           /\ [DialogsNext]_dialogVars /\ [RowsNext]_rowVars /\ [InstallNext]_installVars
<1>1. CASE UNCHANGED consoleVars
  BY <1>1 DEF consoleVars
<1>2. CASE ApiNext /\ UNCHANGED <<pollVars, searchVars, dialogVars, rowVars, installVars>>
  BY <1>2
<1>3. CASE PollsNext /\ UNCHANGED <<apiVars, searchVars, dialogVars, rowVars, installVars>>
  BY <1>3
<1>4. CASE SearchNext /\ UNCHANGED <<apiVars, pollVars, dialogVars, rowVars, installVars>>
  BY <1>4
<1>5. CASE DialogsNext /\ UNCHANGED <<apiVars, pollVars, searchVars, rowVars, installVars>>
  BY <1>5
<1>6. CASE RowsNext /\ UNCHANGED <<apiVars, pollVars, searchVars, dialogVars, installVars>>
  BY <1>6
<1>7. CASE InstallNext /\ UNCHANGED <<apiVars, pollVars, searchVars, dialogVars, rowVars>>
  BY <1>7
<1> QED BY <1>1, <1>2, <1>3, <1>4, <1>5, <1>6, <1>7 DEF Next

(* The program implements each of its pages (fairness included: it schedules
   the timers and the answers of a page as the page alone does). *)
THEOREM ConsoleIsItsPages ==
    Spec => ApiSpec /\ PollsSpec /\ SearchSpec /\ DialogsSpec /\ RowsSpec /\ InstallSpec
<1>1. Init => /\ ApiInit /\ PollsInit /\ SearchInit /\ DialogsInit /\ RowsInit /\ InstallInit
  BY DEF Init
<1>2. [Next]_consoleVars =>
         /\ [ApiNext]_apiVars /\ [PollsNext]_pollVars /\ [SearchNext]_searchVars
         /\ [DialogsNext]_dialogVars /\ [RowsNext]_rowVars /\ [InstallNext]_installVars
  BY PagesStep
<1> QED BY <1>1, <1>2, PTL
        DEF Spec, ApiSpec, PollsSpec, SearchSpec, DialogsSpec, RowsSpec, InstallSpec

(* The variables of all pages keep their types. *)
THEOREM ConsoleTypeCorrect == Spec => []TypeOK
<1>1. ApiTypeOK /\ PollsTypeOK /\ SearchTypeOK /\ DialogsTypeOK /\ RowsTypeOK /\ InstallTypeOK
         => TypeOK
  BY DEF TypeOK
<1> QED BY <1>1, ConsoleIsItsPages, TypeCorrect, PollsTypeCorrect, ListsTypeCorrect,
           DialogsTypeCorrect, RowsTypeCorrect, InstallTypeCorrect, PTL

(* What the pages promise one by one, the program promises. *)
THEOREM ConsoleKeepsItsPromises ==
    Spec => /\ [](/\ OneSocket /\ ConnectedIsAccepted /\ NeverGivesUp /\ LoopsKept
                  /\ SameVersionSameConfig
                  /\ ChainsKept /\ HashTellsView /\ RowsAsAsked /\ ChoiceKept /\ SpinnerEnds
                  /\ SavesAsMeant /\ TypedStays /\ WaitsForSave
                  /\ InputStays /\ SavedAsTyped /\ SpinsForAnswer /\ InstallsAsRead)
            /\ Replicates /\ ClosesWhenSaved
BY ConsoleIsItsPages, OneSocketLives, ConnectedMeansAccepted, AlwaysComesBack, LoopsKeepRunning,
   VersionMeansConfig,
   ConfigurationIsReplica, LoopsGoOn, HashcodesTell, ListsShowWhatWasAsked, ListsKeepTheChoice,
   ListsStopSpinning, DialogsSaveAsMeant, DialogsKeepText, DialogsComeBack, DialogsCloseWhenSaved,
   CellsKeepText, RowsSaveAsTyped, RowsSpinForAnswer, WizardInstallsAsRead, PTL
===============================================================================
