------------------------------ MODULE WebRows ------------------------------
(***************************************************************************)
(* The tables of the web console whose cells become inputs when they are   *)
(* clicked and are saved when the input loses the focus, while the same    *)
(* table is polled (views/components/forward/ForwardEdit.vue,              *)
(* SForwardEdit.vue, groups, transport).                                   *)
(*                                                                         *)
(* One cell of one row is followed, and whether its row is started.        *)
(* Requests and answers travel in order (WebApi).                          *)
(***************************************************************************)
EXTENDS Naturals, Sequences, FiniteSets

CONSTANTS
    Grids,          \* the tables that are followed, of DOMAIN GridOf
    MaxMoves,       \* what the user does
    MaxTrouble      \* changes made elsewhere, and requests that fail

VARIABLES
    grid,           \* the table that is open, NoGrid before
    row,            \* the row the page shows: what the cell says, the port and the
                    \* domain that a save would send, started, edit: is it an input
    editing,        \* state.editing
    spinning,       \* state.loading
    calls,          \* requests under way and their answers
    ticking,        \* is there a timer that state.timer1 names
    loose,          \* timers it does not name any more
    seen,           \* the version of the configuration the page has
    store,          \* the machine's row: port, domain, started; and its version
    hand,           \* what the user is doing, see Idle
    moves           \* how often the bounded things happened

rowVars == <<grid, row, editing, spinning, calls, ticking, loose, seen, store, hand, moves>>

NoGrid == "none"
Ports == {"80", "81"}
Texts == Ports \union {"web", ""}

-----------------------------------------------------------------------------
(* The tables.  polls: again and again, or with the configuration, whose   *)
(* lists come when its version changes, or never.  skips: is a poll left   *)
(* out while a cell is edited, or its list put aside.  reloads: the rows   *)
(* are asked for after a save.  names: the cell is a port or a domain.     *)
(* starts: of a row, with the row or by itself.  menu: choosing saves.     *)

Grid(polls) ==
    [polls |-> polls, skips |-> "answer", reloads |-> FALSE, names |-> FALSE,
     starts |-> "never", menu |-> FALSE]

ForwardEdit == [Grid("always") EXCEPT !.skips = "request", !.reloads = TRUE, !.starts = "row"]
SForwardEdit == [Grid("always") EXCEPT !.skips = "request", !.reloads = TRUE, !.names = TRUE,
                                       !.starts = "itself"]
Groups == Grid("config")
GroupMenu == [Grid("config") EXCEPT !.menu = TRUE]
Transport == [Grid("never") EXCEPT !.menu = TRUE]

GridOf == [ForwardEdit |-> ForwardEdit, SForwardEdit |-> SForwardEdit, Groups |-> Groups,
           GroupMenu |-> GroupMenu, Transport |-> Transport]
This == GridOf[grid]

ASSUME WebRowsAssumption == /\ Grids \subseteq DOMAIN GridOf
                            /\ MaxMoves \in Nat /\ MaxTrouble \in Nat

-----------------------------------------------------------------------------
(* Rows *)

Shown(r) == IF r.domain # "" THEN r.domain ELSE r.port

\* Mutant: the domain is left in the row.
LoadedRowKept(r) == [text |-> Shown(r), port |-> "", domain |-> r.domain,
                     started |-> r.started, edit |-> FALSE]

\* A row as it is polled.  Temp is the domain or the port, and takes their place.
LoadedRow(r) == [text |-> Shown(r), port |-> "", domain |-> "",
                 started |-> r.started, edit |-> FALSE]

\* Temp is a port if it is a number.
SavedRow(r) == IF This.names /\ r.text \notin Ports THEN [r EXCEPT !.domain = r.text]
                                                     ELSE [r EXCEPT !.port = r.text]

\* at: is a cell edited; raced: a poll was under way when that began;
\* saved: the row was sent and not loaded since; failed: a save failed.
Idle == [at |-> FALSE, text |-> "", raced |-> FALSE, saved |-> FALSE, failed |-> FALSE]

-----------------------------------------------------------------------------
(* Requests *)

NoRow == [port |-> "", domain |-> "", started |-> FALSE, version |-> 0]
NoText == [text |-> "", port |-> "", domain |-> "", started |-> FALSE, edit |-> FALSE]
Call(kind) == [kind |-> kind, row |-> NoText, meant |-> "", excused |-> FALSE,
               answer |-> "none", of |-> NoRow, asked |-> seen]

Polling == {i \in DOMAIN calls : calls[i].kind = "get"}

\* Mutant: the poll is not left out.
GetInfoAlways(rest) ==
    /\ calls' = Append(rest, Call("get"))
    /\ ticking' = FALSE

\* _getForwardInfo, _getSForwardInfo: the timer is cleared; while a cell is
\* edited it is only set again.
GetInfo(rest) ==
    /\ IF editing /\ This.skips = "request"
       THEN calls' = rest /\ ticking' = TRUE
       ELSE calls' = Append(rest, Call("get")) /\ ticking' = FALSE

ArmRow == ticking' = TRUE /\ loose' = IF ticking THEN loose + 1 ELSE loose

Timer ==
    /\ This.polls # "never"
    /\ \/ ticking /\ UNCHANGED loose
       \/ loose > 0 /\ loose' = loose - 1
    /\ GetInfo(calls)
    /\ UNCHANGED <<grid, row, editing, spinning, seen, store, hand, moves>>

Trouble == moves.trouble < MaxTrouble /\ moves' = [moves EXCEPT !.trouble = @ + 1]

\* The version is the configuration's.
Stored(r) == store' = [port |-> r.port, domain |-> r.domain, started |-> r.started,
                       version |-> IF This.polls = "config" THEN store.version + 1 ELSE 1]

\* A save that would give two rows one port or name is answered, with false.
Failures(m) == IF This.names /\ m.kind = "save" THEN {"error", "refused"} ELSE {"error"}

\* The machine takes one request after the other.
ServeRow ==
    \E i \in DOMAIN calls :
        /\ calls[i].answer = "none"
        /\ \A j \in 1 .. (i - 1) : calls[j].answer # "none"
        /\ \/ /\ CASE calls[i].kind = "save" -> Stored(calls[i].row)
                   [] calls[i].kind = "start" -> Stored([store EXCEPT !.started = ~@])
                   [] calls[i].kind \in {"get", "add", "del"} -> UNCHANGED store
              /\ calls' = [calls EXCEPT ![i].answer = "ok",
                                ![i].of = IF calls[i].kind = "get" THEN store ELSE NoRow]
              /\ UNCHANGED moves
           \/ /\ Trouble
              /\ \E failure \in Failures(calls[i]) :
                    calls' = [calls EXCEPT ![i].answer = failure]
              /\ UNCHANGED store
        /\ UNCHANGED <<grid, row, editing, spinning, ticking, loose, seen, hand>>

\* Mutant: a poll that fails is the last one.
GotInfoOnce(m, rest) ==
    /\ calls' = rest
    /\ IF m.answer = "ok" THEN /\ row' = LoadedRow(m.of)
                               /\ hand' = [hand EXCEPT !.saved = FALSE]
                               /\ ArmRow
                          ELSE UNCHANGED <<row, hand, ticking, loose>>
    /\ UNCHANGED <<seen, editing>>

\* The rows that were asked for, whatever is edited by now.
GotInfo(m, rest) ==
    /\ calls' = rest
    /\ IF m.answer = "ok" THEN /\ row' = LoadedRow(m.of)
                               /\ hand' = [hand EXCEPT !.saved = FALSE]
                          ELSE UNCHANGED <<row, hand>>
    /\ IF This.polls = "never" THEN UNCHANGED <<ticking, loose>> ELSE ArmRow
    /\ UNCHANGED <<seen, editing>>

\* The configuration: watch puts a new list aside while a row of the old one is edited.
GotConfig(m, rest) ==
    /\ calls' = rest
    /\ IF m.answer = "ok" /\ m.of.version # m.asked
       THEN /\ seen' = m.of.version
            /\ IF row.edit THEN UNCHANGED <<row, hand>>
               ELSE /\ row' = LoadedRow(m.of)
                    /\ hand' = [hand EXCEPT !.saved = FALSE]
       ELSE UNCHANGED <<seen, row, hand>>
    /\ ArmRow
    /\ UNCHANGED editing

\* Mutant: a save that failed spins on.
SavedSpinning(m, rest) ==
    /\ spinning' = (spinning /\ m.answer # "ok")
    /\ hand' = [hand EXCEPT !.failed = @ \/ m.answer # "ok"]
    /\ UNCHANGED <<row, editing, seen, loose>>
    /\ IF m.answer = "ok" /\ This.reloads THEN GetInfo(rest) ELSE calls' = rest /\ UNCHANGED ticking

\* A save, a start or stop, or a row that was added or deleted; ForwardEdit
\* deletes without a spinner.
SaveDone(m, rest) ==
    /\ spinning' = (spinning /\ m.kind = "del" /\ grid = "ForwardEdit")
    /\ hand' = [hand EXCEPT !.failed = @ \/ m.answer # "ok"]
    /\ UNCHANGED <<row, editing, seen, loose>>
    /\ IF m.answer # "error" /\ This.reloads THEN GetInfo(rest) ELSE calls' = rest /\ UNCHANGED ticking

\* groups/Index: the page is loaded again.
GroupChanged(m, rest) ==
    /\ row' = LoadedRow(store) /\ seen' = store.version
    /\ calls' = <<>> /\ ticking' = TRUE /\ loose' = 0
    /\ spinning' = FALSE /\ editing' = FALSE
    /\ hand' = Idle

AnsweredRow ==
    /\ calls # <<>> /\ Head(calls).answer # "none"
    /\ LET m == Head(calls) IN
       CASE m.kind = "get" /\ This.polls # "config" -> GotInfo(m, Tail(calls)) /\ UNCHANGED spinning
         [] m.kind = "get" /\ This.polls = "config" -> GotConfig(m, Tail(calls)) /\ UNCHANGED spinning
         [] m.kind # "get" /\ grid = "GroupMenu" /\ m.answer = "ok" -> GroupChanged(m, Tail(calls))
         [] m.kind # "get" /\ ~(grid = "GroupMenu" /\ m.answer = "ok") -> SaveDone(m, Tail(calls))
    /\ UNCHANGED <<grid, store, moves>>

-----------------------------------------------------------------------------
(* The user *)

Move == grid # NoGrid /\ moves.user < MaxMoves /\ moves' = [moves EXCEPT !.user = @ + 1]

MountGrid(g) ==
    /\ grid = NoGrid /\ grid' = g
    /\ store' = [port |-> IF GridOf[g].names THEN "" ELSE "80",
                 domain |-> IF GridOf[g].names THEN "web" ELSE "",
                 started |-> FALSE, version |-> 1]
    /\ row' = LoadedRow(store') /\ seen' = 1
    /\ calls' = IF GridOf[g].polls = "always" THEN <<[Call("get") EXCEPT !.asked = 1]>> ELSE <<>>
    /\ ticking' = (GridOf[g].polls = "config")
    /\ UNCHANGED <<editing, spinning, loose, hand, moves>>

handleEdit ==
    /\ Move /\ ~This.menu /\ ~row.started
    /\ row' = [row EXCEPT !.edit = TRUE]
    /\ editing' = TRUE
    /\ hand' = [hand EXCEPT !.at = TRUE, !.text = row.text,
                            !.raced = (@ /\ hand.at) \/ (This.polls = "always" /\ Polling # {})]
    /\ UNCHANGED <<grid, spinning, calls, ticking, loose, seen, store>>

TypeText(t) ==
    /\ Move /\ row.edit /\ t \in (IF This.names THEN {"80", "web", ""} ELSE Ports)
    /\ row' = [row EXCEPT !.text = t]
    /\ hand' = [hand EXCEPT !.text = t]
    /\ UNCHANGED <<grid, editing, spinning, calls, ticking, loose, seen, store>>

Sending(kind, text) ==
    [Call(kind) EXCEPT !.row = row', !.meant = text, !.excused = hand.saved]

\* saveRow, handleSave: the row itself is what is sent.
saveRow(r, text) ==
    /\ row' = SavedRow(r)
    /\ calls' = Append(calls, Sending("save", text))
    /\ spinning' = (grid \in {"ForwardEdit", "SForwardEdit", "GroupMenu"})

\* An empty name is not sent.
handleEditBlur ==
    /\ Move /\ row.edit /\ ~row.started
    /\ editing' = FALSE
    /\ LET r == [row EXCEPT !.edit = FALSE] IN
       \/ /\ This.names /\ row.text = ""
          /\ row' = r
          /\ hand' = [hand EXCEPT !.at = FALSE]
          /\ UNCHANGED <<calls, spinning>>
       \/ /\ This.names => row.text # ""
          /\ saveRow(r, row.text)
          /\ hand' = [hand EXCEPT !.at = FALSE, !.saved = TRUE]
    /\ UNCHANGED <<grid, ticking, loose, seen, store>>

\* A switch or a menu: what is chosen is shown and sent.
handleGroupChange(t) ==
    /\ Move /\ This.menu /\ t \in Ports
    /\ saveRow([row EXCEPT !.text = t], t)
    /\ hand' = [hand EXCEPT !.saved = TRUE]
    /\ UNCHANGED <<grid, editing, ticking, loose, seen, store>>

\* The switch of a row turns and the row is sent, or start or stop is.
handleStartChange ==
    /\ Move
    /\ \/ /\ This.starts = "row"
          /\ saveRow([row EXCEPT !.started = ~@], row.text)
          /\ hand' = [hand EXCEPT !.saved = TRUE]
       \/ /\ This.starts = "itself"
          /\ UNCHANGED <<row, hand>>
          /\ calls' = Append(calls, Call("start"))
          /\ spinning' = TRUE
    /\ UNCHANGED <<grid, editing, ticking, loose, seen, store>>

\* Of other rows.
handleAdd ==
    /\ Move /\ This.polls = "always"
    /\ calls' = Append(calls, Call("add"))
    /\ spinning' = TRUE
    /\ UNCHANGED <<grid, row, editing, ticking, loose, seen, store, hand>>

handleDel ==
    /\ Move /\ This.polls = "always"
    /\ calls' = Append(calls, Call("del"))
    /\ UNCHANGED <<grid, row, editing, spinning, ticking, loose, seen, store, hand>>

handleRefresh ==
    /\ Move /\ This.polls = "always"
    /\ GetInfo(calls)
    /\ UNCHANGED <<grid, row, editing, spinning, loose, seen, store, hand>>

\* Another console, a plan that starts or stops a row.
ChangedElsewhere ==
    /\ grid # NoGrid /\ Trouble
    /\ \/ \E p \in IF This.names THEN {"80"} ELSE Ports : Stored([store EXCEPT !.port = p, !.domain = ""])
       \/ This.starts # "never" /\ Stored([store EXCEPT !.started = ~@])
    /\ UNCHANGED <<grid, row, editing, spinning, calls, ticking, loose, seen, hand>>

-----------------------------------------------------------------------------

RowsInit ==
    /\ grid = NoGrid /\ editing = FALSE /\ spinning = FALSE /\ calls = <<>>
    /\ ticking = FALSE /\ loose = 0 /\ seen = 0 /\ hand = Idle
    /\ store = NoRow /\ row = NoText
    /\ moves = [user |-> 0, trouble |-> 0]

RowsNext ==
    \/ \E g \in Grids : MountGrid(g)
    \/ ServeRow \/ AnsweredRow \/ ChangedElsewhere
    \/ handleEdit \/ handleEditBlur \/ handleStartChange \/ handleRefresh
    \/ handleAdd \/ handleDel
    \/ \E t \in Texts : TypeText(t) \/ handleGroupChange(t)
    \/ grid # NoGrid /\ Timer

\* Timers fire, the machine reads, and answers arrive.
RowsFairness ==
    /\ WF_rowVars(ServeRow) /\ WF_rowVars(AnsweredRow) /\ WF_rowVars(grid # NoGrid /\ Timer)

RowsSpec == RowsInit /\ [][RowsNext]_rowVars /\ RowsFairness

-----------------------------------------------------------------------------
(* Properties *)

\* Types of the variables.
RowsTypeOK ==
    /\ grid \in Grids \union {NoGrid} /\ editing \in BOOLEAN /\ spinning \in BOOLEAN
    /\ row \in [text : Texts, port : Texts, domain : Texts, started : BOOLEAN, edit : BOOLEAN]
    /\ ticking \in BOOLEAN /\ loose \in Nat /\ seen \in Nat
    /\ store \in [port : Texts, domain : Texts, started : BOOLEAN, version : Nat]

\* What the user types into a cell stays there until he leaves it, whatever is
\* polled, saved, added or deleted meanwhile; but for the answer to a poll that
\* was under way when he began, which takes the input away.
InputStays == hand.at /\ ~hand.raced => row.edit /\ row.text = hand.text

\* A row is saved as it was typed: what is sent is shown as the same text again,
\* a port as a port and a name as a name; but for a row that was saved, and typed
\* into once more before it was loaded.
SavedAsTyped ==
    \A i \in DOMAIN calls :
        calls[i].kind = "save" /\ ~calls[i].excused => Shown(calls[i].row) = calls[i].meant

\* The button spins only while an answer is to come.
SpinsForAnswer == spinning => \E i \in DOMAIN calls : calls[i].kind \notin {"get", "del"}

\* What is not promised: tables that are loaded once; a list of the configuration
\* after a save that failed, until something else changes it; and a table whose
\* input was taken away, until another cell is edited and left.
NotPromised == \/ grid = NoGrid \/ editing \/ This.polls = "never"
               \/ This.polls = "config" /\ hand.failed

\* A table ends up showing what the machine has.
EndsUpShowing ==
    []<>(NotPromised \/ (row.text = Shown(store) /\ row.started = store.started))
=============================================================================
