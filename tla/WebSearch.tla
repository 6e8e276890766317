----------------------------- MODULE WebSearch -----------------------------
(***************************************************************************)
(* The lists of the web console that are loaded when they are opened and   *)
(* when the user asks for something else: another page, order or filter,   *)
(* or after an edit of a row (views/layout/full/logger, firewall, wakeup,  *)
(* wlist, cdkey, device/devices.js with layout/full/list).                 *)
(*                                                                         *)
(* Requests and answers travel in order (WebApi).  One list is followed.   *)
(***************************************************************************)
EXTENDS Naturals, Sequences, FiniteSets

CONSTANTS
    Lists,          \* the lists that are followed, of DOMAIN Tables
    MaxActs,        \* what the user does with a list
    MaxErrors       \* requests that fail

VARIABLES
    list,           \* the list that is open, NoList before
    sent,           \* requests under way and their answers
    query,          \* what the controls of the list show, and loadData sends
    rows,           \* what the rows are: of which query, with how many edits,
                    \* stale |-> older than a row that was changed in place,
                    \* failed |-> the last request failed
    loading,        \* state.loading
    wanted,         \* what the controls showed after the user's last choice
    lost,           \* the rows were loaded again for a choice that had been set back
    edits,          \* edits of the rows the machine has made
    acts            \* how often the bounded things happened

searchVars == <<list, sent, query, rows, loading, wanted, lost, edits, acts>>

NoList == "none"
Fields == {"text", "page", "sort"}

-----------------------------------------------------------------------------
(* The lists.  asks: what the user can choose.  echoes: what the answer    *)
(* sets again.  loads: requests when it is mounted.  spins: is there a     *)
(* spinner, which disables Refresh.  orders: the order is sent by a        *)
(* request of its own.                                                     *)
(*                                                                         *)
(* The edits.  inPlace: the row shows the change before it is sent.        *)
(* reloads: the rows are loaded again when it succeeds.  drops: the        *)
(* spinner is turned off after that load has started.  waits: disabled by  *)
(* the spinner.                                                            *)

Reloading == [inPlace |-> FALSE, reloads |-> TRUE, drops |-> FALSE, waits |-> FALSE]
Dropping == [Reloading EXCEPT !.drops = TRUE]
InPlace == [Dropping EXCEPT !.inPlace = TRUE]

Table(asks, changes) ==
    [asks |-> asks, echoes |-> {}, loads |-> 1, spins |-> FALSE, orders |-> FALSE,
     changes |-> changes]

clearData == [Reloading EXCEPT !.waits = TRUE]
Logger == [Table({"text", "page"}, {clearData}) EXCEPT !.echoes = {"page"}, !.spins = TRUE]

handleSetState == [InPlace EXCEPT !.reloads = FALSE, !.drops = FALSE]
_checkFirewall == handleSetState
handleDsiabled == InPlace
FirewallDel == Dropping
Firewall == [Table({"text"}, {handleSetState, _checkFirewall, handleDsiabled, FirewallDel})
                EXCEPT !.spins = TRUE]

Wakeup == [Table({"text"}, {Dropping}) EXCEPT !.spins = TRUE]

WlistManager == Table({"text", "page"}, {Reloading})

\* Flags, a child of both, reports its choice when it is mounted.
Flags == 1
CdkeyManager == [Table(Fields, {Reloading}) EXCEPT !.loads = 1 + Flags]
CdkeyMy == [Table(Fields, {Reloading}) EXCEPT !.loads = 1 + Flags]

\* Of the columns of the list of machines, those of tunnels, networks and
\* proxies are ordered by the page, which sends the order.
Devices == [Table(Fields, {Reloading}) EXCEPT
              !.echoes = Fields, !.loads = 2, !.orders = TRUE]

Tables == [Logger |-> Logger, Firewall |-> Firewall, Wakeup |-> Wakeup,
           WlistManager |-> WlistManager, CdkeyManager |-> CdkeyManager,
           CdkeyMy |-> CdkeyMy, Devices |-> Devices]

Listed == Tables[list]

ASSUME WebSearchAssumption == /\ Lists \subseteq DOMAIN Tables
                              /\ MaxActs \in Nat /\ MaxErrors \in Nat

-----------------------------------------------------------------------------
(* Requests *)

NoReply == [code |-> "none"]
Loading(q) == [kind |-> "load", of |-> q, change |-> Reloading, answer |-> NoReply]
Changing(c) == [kind |-> "edit", of |-> query, change |-> c, answer |-> NoReply]
Ordering == [kind |-> "order", of |-> query, change |-> Reloading, answer |-> NoReply]

\* The machine takes one request after the other.
Handle ==
    \E i \in DOMAIN sent :
        /\ sent[i].answer = NoReply
        /\ \A j \in 1 .. (i - 1) : sent[j].answer # NoReply
        /\ \/ /\ edits' = IF sent[i].kind = "edit" THEN edits + 1 ELSE edits
              /\ sent' = [sent EXCEPT ![i].answer = [code |-> "ok", edits |-> edits']]
              /\ UNCHANGED acts
           \/ /\ acts.errors < MaxErrors
              /\ acts' = [acts EXCEPT !.errors = @ + 1]
              /\ sent' = [sent EXCEPT ![i].answer = [code |-> "error"]]
              /\ UNCHANGED edits
        /\ UNCHANGED <<list, query, rows, loading, wanted, lost>>

\* loadData, handleSearch, _getSignList: what the controls show is asked for.
loadData(before) ==
    /\ sent' = Append(before, Loading(query'))
    /\ loading' = Listed.spins

\* Rows that were asked for before a row was changed in place are not what
\* the user sees the row to be.
Stale(rest) == \E i \in DOMAIN rest : rest[i].change.inPlace

\* Mutant: the answer does not say what it is an answer to.
GotRowsAsShown(m, rest) ==
    /\ rows' = [of |-> m.of, edits |-> m.answer.edits, stale |-> Stale(rest), failed |-> FALSE]
    /\ query' = [f \in Fields |-> IF f \in Listed.echoes THEN 1 ELSE query[f]]
    /\ loading' = FALSE
    /\ sent' = rest
    /\ UNCHANGED lost

GotRows(m, rest) ==
    /\ rows' = [of |-> m.of, edits |-> m.answer.edits, stale |-> Stale(rest), failed |-> FALSE]
    /\ query' = [f \in Fields |-> IF f \in Listed.echoes THEN m.of[f] ELSE query[f]]
    /\ loading' = FALSE
    /\ sent' = rest
    /\ UNCHANGED lost

\* Mutant: the rows are not loaded again.
ChangedOnly(m, rest) ==
    /\ loading' = FALSE
    /\ sent' = rest
    /\ UNCHANGED <<query, rows, lost>>

\* An edit or an order that was made.
Changed(m, rest) ==
    /\ IF m.change.reloads
       THEN /\ sent' = Append(rest, Loading(query))
            /\ loading' = (Listed.spins /\ ~m.change.drops)
            /\ lost' = (lost \/ query # wanted)
       ELSE /\ sent' = rest
            /\ loading' = FALSE
            /\ UNCHANGED lost
    /\ UNCHANGED <<query, rows>>

\* Mutant: the spinner is left on.
FailedSpinning(rest) ==
    /\ rows' = [rows EXCEPT !.failed = TRUE]
    /\ sent' = rest
    /\ UNCHANGED <<query, loading, lost>>

Failed(rest) ==
    /\ rows' = [rows EXCEPT !.failed = TRUE]
    /\ loading' = FALSE
    /\ sent' = rest
    /\ UNCHANGED <<query, lost>>

\* The answer to the request that is under way the longest.
AnsweredList ==
    /\ sent # <<>> /\ Head(sent).answer # NoReply
    /\ LET m == Head(sent) IN
       CASE m.answer.code = "error" -> Failed(Tail(sent))
         [] m.answer.code = "ok" /\ m.kind = "load" -> GotRows(m, Tail(sent))
         [] m.answer.code = "ok" /\ m.kind # "load" -> Changed(m, Tail(sent))
    /\ UNCHANGED <<list, wanted, edits, acts>>

-----------------------------------------------------------------------------
(* The user *)

Acts == /\ list # NoList /\ acts.user < MaxActs
        /\ acts' = [acts EXCEPT !.user = @ + 1]

FirstQuery == [f \in Fields |-> 1]
NoRows == [of |-> FirstQuery, edits |-> 0, stale |-> FALSE, failed |-> FALSE]

Mount(l) ==
    /\ list = NoList /\ list' = l
    /\ query' = FirstQuery /\ wanted' = FirstQuery
    /\ sent' = [i \in 1 .. Tables[l].loads |-> Loading(FirstQuery)]
    /\ loading' = Tables[l].spins
    /\ UNCHANGED <<rows, lost, edits, acts>>

Set(field) ==
    /\ query' = [query EXCEPT ![field] = 3 - @]
    /\ wanted' = query'

\* Another page, filter or order.
handlePageChange(field) ==
    /\ Acts /\ field \in Listed.asks
    /\ Set(field)
    /\ loadData(sent)
    /\ UNCHANGED <<list, rows, lost, edits>>

\* The order is sent first, and the rows are loaded when it has been taken.
handleSortChange ==
    /\ Acts /\ Listed.orders
    /\ Set("sort")
    /\ sent' = Append(sent, Ordering)
    /\ UNCHANGED <<list, rows, loading, lost, edits>>

Refresh ==
    /\ Acts /\ (Listed.spins => ~loading)
    /\ UNCHANGED query
    /\ wanted' = query
    /\ loadData(sent)
    /\ UNCHANGED <<list, rows, lost, edits>>

EditRow(c) ==
    /\ Acts /\ c \in Listed.changes /\ (c.waits => ~loading)
    /\ sent' = Append(sent, Changing(c))
    /\ rows' = IF c.inPlace THEN [rows EXCEPT !.edits = @ + 1] ELSE rows
    /\ loading' = Listed.spins
    /\ UNCHANGED <<list, query, wanted, lost, edits>>

-----------------------------------------------------------------------------

SearchInit ==
    /\ list = NoList /\ sent = <<>> /\ loading = FALSE /\ lost = FALSE /\ edits = 0
    /\ query = FirstQuery /\ wanted = FirstQuery /\ rows = NoRows
    /\ acts = [user |-> 0, errors |-> 0]

SearchNext ==
    \/ \E l \in Lists : Mount(l)
    \/ Handle \/ AnsweredList \/ handleSortChange \/ Refresh
    \/ \E f \in Fields : handlePageChange(f)
    \/ list # NoList /\ \E c \in Listed.changes : EditRow(c)

SearchSpec == SearchInit /\ [][SearchNext]_searchVars

-----------------------------------------------------------------------------
(* Properties *)

\* Types of the variables.
SearchTypeOK ==
    /\ list \in Lists \union {NoList} /\ loading \in BOOLEAN /\ lost \in BOOLEAN
    /\ query \in [Fields -> {1, 2}] /\ wanted \in [Fields -> {1, 2}]
    /\ rows \in [of : [Fields -> {1, 2}], edits : Nat, stale : BOOLEAN, failed : BOOLEAN]
    /\ \A i \in DOMAIN sent : sent[i].kind \in {"load", "edit", "order"}

Settled == list # NoList /\ sent = <<>> /\ ~rows.failed

\* Once nothing is under way and nothing failed, the rows are those of the page,
\* order and filter the controls show, with the user's own edits, whichever
\* order choices, edits and answers came in; but for a row that was changed in
\* place while the rows were being loaded and is not loaded again.
RowsAsAsked ==
    Settled => rows.of = query /\ (rows.stale \/ rows.edits = edits)

\* The answers leave the controls where the user put them, whatever older answers
\* set them back to for a while; but for rows that an edit or an order loads again
\* in that while.
ChoiceKept == Settled => query = wanted \/ lost

\* A spinner always has an answer to come that turns it off.
SpinnerEnds == loading => sent # <<>>
=============================================================================
