----------------------------- MODULE WebDialogs -----------------------------
(***************************************************************************)
(* The dialogs and forms of the web console: what a list says of a machine *)
(* is copied into a form when the dialog opens, the user changes it, and   *)
(* it is sent back as one object (views/components/tuntap, socks5, tunnel, *)
(* device, accesss, relay, forward, firewall, wakeup, wlist, cdkey, plan,  *)
(* action, updater, and layout/full/logger).                               *)
(*                                                                         *)
(* One or two fields of one dialog are followed, which may be opened again *)
(* and again.  Meanwhile the lists are polled, which replaces the objects  *)
(* of the rows, and others change the machine.                             *)
(***************************************************************************)
EXTENDS Naturals, Sequences, FiniteSets

CONSTANTS
    Dialogs,        \* [of |-> a dialog, fields |-> the ones that are followed]
    MaxTurns,       \* what the user does with it, while it is open once or twice
    MaxMishaps      \* changes made elsewhere, and requests that fail

VARIABLES
    dlg,            \* of Dialogs, NoDialog before the first is opened
    shown,          \* is it open
    form,           \* of each field: what the form holds
    held,           \* of each field: the row object the dialog was opened for
    linked,         \* is that object the one of the list still
    items,          \* of each field: what the list shows
    machine,        \* of each field: its value
    post,           \* requests under way and their answers
    busy,           \* state.loading
    user,           \* what is known of each field, see NewUser
    turns           \* how often the bounded things happened

dialogVars == <<dlg, shown, form, held, linked, items, machine, post, busy, user, turns>>

NoDialog == [of |-> "none", fields |-> {}]

-----------------------------------------------------------------------------
(* Conversions between a value and what a form holds for it *)

Protocols == {1, 2}
\* Mutant: the form does not know of the second bit.
AllowTcp(v) == {p \in {1} : (v \div p) % 2 = 1}

AllowProtocol(v) == {p \in Protocols : (v \div p) % 2 = 1}
FromProtocols(checks) == (IF 1 \in checks THEN 1 ELSE 0) + (IF 2 \in checks THEN 2 ELSE 0)

portRange(v) == [start |-> v[1], end |-> v[2]]

\* A length that is none becomes 24.
handlePrefixLengthChange(v) == IF v \in 16 .. 32 THEN v ELSE 24

\* One input for each type of device; road goes back to its default with the type.
Types == {1, 2, 4}
WakeupForm(v) == [type |-> v.type, slot |-> [t \in Types |-> IF t = v.type THEN v.value ELSE ""],
                  road |-> v.road]
WakeupTyped(fm, v) == [type |-> v.type, slot |-> [fm.slot EXCEPT ![v.type] = v.value],
                       road |-> v.road]
WakeupJson(fm) == [type |-> fm.type, value |-> fm.slot[fm.type],
                   road |-> IF fm.type = 1 THEN "" ELSE fm.road]

\* Nodes and, with a prefix, ports are members of one list.  Without a prefix
\* all of them are both, and are put in again when some are taken out.
NodesForm(v, prefix) == [nodes |-> v, ports |-> IF prefix THEN v \ {"node"} ELSE v]
formatNodes(fm, v, prefix) ==
    [nodes |-> (IF prefix THEN v \intersect {"node"} ELSE v) \union
               (IF prefix THEN v \ {"node"} ELSE fm.ports),
     ports |-> IF prefix THEN v \ {"node"} ELSE fm.ports]

\* The parts of a point in time that are "any", from the type, and back.
decodeRule(any) == IF "min" \in any THEN 5 ELSE IF "hour" \in any THEN 4
                   ELSE IF "day" \in any THEN 3 ELSE 2
buildRule(type) == {"month"} \union (IF type > 2 THEN {"day"} ELSE {})
                      \union (IF type > 3 THEN {"hour"} ELSE {})
                      \union (IF type > 4 THEN {"min"} ELSE {})

\* Enough of them to tell a form that is read back wrong.
Values(codec) ==
    CASE codec = "plain" -> {1, 2}
      [] codec = "bits" -> {2, 3}
      [] codec = "range" -> {<<1, 1>>, <<1, 2>>, <<2, 2>>}
      [] codec = "prefix" -> {20, 24}
      [] codec = "slots" -> {[type |-> 1, value |-> "a", road |-> ""],
                             [type |-> 2, value |-> "a", road |-> "1"]}
      [] codec \in {"nodes", "relayNodes"} -> (SUBSET {"node", "port"}) \ {{}}
      [] codec = "rule" -> {buildRule(t) : t \in 2 .. 5}

Shows1st(codec, v) ==
    CASE codec = "bits" -> AllowProtocol(v)
      [] codec = "range" -> portRange(v)
      [] codec = "slots" -> WakeupForm(v)
      [] codec \in {"nodes", "relayNodes"} -> NodesForm(v, codec = "nodes")
      [] codec = "rule" -> decodeRule(v)
      [] OTHER -> v

\* The form after v was typed into it.
Typed(codec, fm, v) ==
    CASE codec = "slots" -> WakeupTyped(fm, v)
      [] codec \in {"nodes", "relayNodes"} -> formatNodes(fm, v, codec = "nodes")
      [] codec = "prefix" -> handlePrefixLengthChange(v)
      [] OTHER -> Shows1st(codec, v)

ToJson(codec, fm) ==
    CASE codec = "bits" -> FromProtocols(fm)
      [] codec = "range" -> <<fm.start, fm.end>>
      [] codec = "slots" -> WakeupJson(fm)
      [] codec \in {"nodes", "relayNodes"} -> fm.nodes
      [] codec = "rule" -> buildRule(fm)
      [] OTHER -> fm

-----------------------------------------------------------------------------
(* The dialogs.  A field comes from the form, from the object of the row   *)
(* that the dialog shares with the list ("row"), from that object without  *)
(* being shown ("rest"), or is asked from the machine ("fetched").  Others *)
(* start "blank" whatever they were, are "filled" if they are empty, or    *)
(* "dropped": sent as nothing.                                             *)

Field(from, codec) == [from |-> from, codec |-> codec]
Form == Field("form", "plain")
Row == Field("row", "plain")
Rest == Field("rest", "plain")
Fetched == Field("fetched", "plain")

\* waits: the button waits for the answer.  fetch: what is asked when it is
\* mounted is put in "all" the fields or in the "empty" ones.  refuses: the
\* answer may be false.  instant: a change is sent at once.  ifChanged: only a
\* change is sent.  checks: an empty form is not sent.  stays: it is no dialog
\* and does not close.
Dialog(fields) ==
    [fields |-> fields, waits |-> FALSE, fetch |-> "none", refuses |-> FALSE,
     instant |-> FALSE, ifChanged |-> FALSE, checks |-> FALSE, stays |-> FALSE]

\* The fields of two parts of a dialog.
And(a, b) == [f \in DOMAIN a \union DOMAIN b |-> IF f \in DOMAIN a THEN a[f] ELSE b[f]]

\* Routes and forwards are copied as a list, of rows the list shares.
TuntapIP == [IP |-> Form, PrefixLength |-> Field("form", "prefix"), Running |-> Rest]
TuntapLan == [Lans |-> Form, LanRow |-> Row]
TuntapForward == [Forwards |-> Form, ForwardRow |-> Row]
TuntapEdit == [Dialog(And(TuntapIP, And(TuntapLan, TuntapForward))) EXCEPT !.waits = TRUE]
TuntapLease == [Dialog([Name |-> Fetched]) EXCEPT !.fetch = "all"]
Socks5Lan == [Lans |-> Form, LanRow |-> Row]
Socks5Edit == Dialog(And([Port |-> Form, Status |-> Rest], Socks5Lan))
TunnelEdit == Dialog([RouteLevelPlus |-> Form, Running |-> Rest])
DeviceEdit == [Dialog([MachineName |-> Form]) EXCEPT !.ifChanged = TRUE]

\* Rights the manager does not have are not shown.
Access == [checked |-> Form, hidden |-> Field("dropped", "plain"),
           full |-> Field("blank", "plain")]
AccessEdit == [Dialog(Access) EXCEPT !.waits = TRUE]

RelayEditNode == [Dialog([Name |-> Form, AllowProtocol |-> Field("form", "bits")])
                     EXCEPT !.refuses = TRUE]
ForwardEditNode == [Dialog([Name |-> Form, PortRange |-> Field("form", "range")])
                       EXCEPT !.refuses = TRUE]
handleSync2Server == [Dialog([Sync2Server |-> Row]) EXCEPT !.instant = TRUE, !.stays = TRUE]
RelayNodes == handleSync2Server
ForwardNodes == handleSync2Server
syncDefault == [Dialog([Default |-> Fetched]) EXCEPT !.fetch = "all", !.stays = TRUE]
UpdaterConfig == [Dialog([Sync2Server |-> Form]) EXCEPT !.instant = TRUE, !.stays = TRUE]

FirewallAdd == Dialog([Protocol |-> Field("form", "bits"), DstPort |-> Form])
WakeupAdd == [Dialog([Value |-> Field("form", "slots")]) EXCEPT !.fetch = "empty"]
WlistAdd == Dialog([Name |-> Form, Nodes |-> Field("form", "nodes"),
                    RelayNodes |-> Field("form", "relayNodes")])
CdkeyAdd == Dialog([Values |-> Field("blank", "plain")])
PlanEdit == [Dialog([Rule |-> Field("form", "rule"), TriggerHandle |-> Field("filled", "plain")])
                EXCEPT !.waits = TRUE]
Action == [Dialog([data |-> Fetched]) EXCEPT !.fetch = "all", !.stays = TRUE]
LoggerSetting == [Dialog([Size |-> Fetched]) EXCEPT
                     !.fetch = "all", !.waits = TRUE, !.refuses = TRUE, !.checks = TRUE,
                     !.stays = TRUE]

DialogOf ==
    [TuntapEdit |-> TuntapEdit, TuntapLease |-> TuntapLease, Socks5Edit |-> Socks5Edit,
     TunnelEdit |-> TunnelEdit, DeviceEdit |-> DeviceEdit, AccessEdit |-> AccessEdit,
     RelayEditNode |-> RelayEditNode, ForwardEditNode |-> ForwardEditNode,
     RelayNodes |-> RelayNodes, ForwardNodes |-> ForwardNodes, syncDefault |-> syncDefault,
     UpdaterConfig |-> UpdaterConfig, FirewallAdd |-> FirewallAdd, WakeupAdd |-> WakeupAdd,
     WlistAdd |-> WlistAdd, CdkeyAdd |-> CdkeyAdd, PlanEdit |-> PlanEdit, Action |-> Action,
     LoggerSetting |-> LoggerSetting]

Kind == DialogOf[dlg.of]
Of(f) == Kind.fields[f]

ASSUME WebDialogsAssumption ==
    /\ \A d \in Dialogs : d.of \in DOMAIN DialogOf /\ d.fields \subseteq DOMAIN DialogOf[d.of].fields
    /\ MaxTurns \in Nat /\ MaxMishaps \in Nat

-----------------------------------------------------------------------------
(* Opening and closing *)

Lowest(codec) == CHOOSE v \in Values(codec) : TRUE

FirstForm(field, v) ==
    CASE field.from \in {"blank", "fetched"} -> Shows1st(field.codec, Lowest(field.codec))
      [] field.from = "filled" -> IF v = 1 THEN 2 ELSE v
      [] OTHER -> Shows1st(field.codec, v)

\* meant: what the user wants it to be, which is what the machine was known to
\* have unless he types.  early: typed before what was asked for is there.
\* stale: the row of the list was changed, taken: and so was it when the dialog
\* was opened for it.
NewUser(known, stale) ==
    [meant |-> known, typed |-> {}, early |-> {}, got |-> FALSE, known |-> known,
     stale |-> stale, taken |-> stale]

Asking == [kind |-> "fetch", mine |-> TRUE, data |-> <<>>, meant |-> <<>>, excused |-> {},
           answer |-> "none"]

Turn == turns.user < MaxTurns /\ turns' = [turns EXCEPT !.user = @ + 1]

Open(d) ==
    /\ ~shown /\ dlg \in {d, NoDialog}
    /\ turns.opens < 2 /\ turns' = [turns EXCEPT !.opens = @ + 1]
    /\ dlg' = d /\ shown' = TRUE /\ linked' = TRUE /\ busy' = FALSE
    /\ \E now \in [d.fields -> UNION {Values(DialogOf[d.of].fields[f].codec) : f \in d.fields}] :
          /\ IF dlg = d THEN now = items
             ELSE \A f \in d.fields : now[f] \in Values(DialogOf[d.of].fields[f].codec)
          /\ held' = now /\ items' = now
          /\ machine' = IF dlg = d THEN machine ELSE now
          /\ form' = [f \in d.fields |-> FirstForm(DialogOf[d.of].fields[f], now[f])]
          /\ user' = IF dlg = d THEN NewUser(user.known, user.stale) ELSE NewUser(now, {})
    /\ post' = IF DialogOf[d.of].fetch = "none" THEN post ELSE Append(post, Asking)

\* What is under way for the dialog finds nobody when it comes back.
Closed(rest) == [i \in DOMAIN rest |-> [rest[i] EXCEPT !.mine = FALSE]]

Cancel ==
    /\ shown
    /\ shown' = FALSE /\ busy' = FALSE
    /\ post' = Closed(post)
    /\ UNCHANGED <<dlg, form, held, linked, items, machine, user, turns>>

-----------------------------------------------------------------------------
(* Typing and saving *)

Fetching == \E i \in DOMAIN post : post[i].mine /\ post[i].kind \in {"fetch", "clear"}

\* Fields of which it is known that the dialog does not keep them.
NotKept(u, fm) ==
    {f \in dlg.fields :
        \/ Of(f).from \in {"dropped", "filled"}
        \/ Of(f).from = "blank" /\ f \notin u.typed
        \/ Of(f).from = "row" /\ f \in u.taken /\ f \notin u.typed
        \/ Of(f).from = "fetched" /\ ~u.got
        \/ Of(f).codec = "relayNodes" /\ f \in u.typed
        \/ f \in u.early}

\* getData
Json(fm, object) ==
    [f \in dlg.fields |-> CASE Of(f).from = "rest" -> object[f]
                            [] Of(f).from = "dropped" -> 1
                            [] OTHER -> ToJson(Of(f).codec, fm[f])]

Saving(fm, object, u) ==
    [kind |-> "save", mine |-> TRUE, data |-> Json(fm, object), meant |-> u.meant,
     excused |-> NotKept(u, fm), answer |-> "none"]

Typing(f, v) ==
    /\ form' = [form EXCEPT ![f] = Typed(Of(f).codec, @, v)]
    /\ held' = IF Of(f).from = "row" THEN [held EXCEPT ![f] = v] ELSE held
    /\ items' = IF Of(f).from = "row" /\ linked THEN [items EXCEPT ![f] = v] ELSE items
    /\ user' = [user EXCEPT
                  !.meant[f] = v, !.typed = @ \union {f},
                  !.early = IF Fetching /\ Kind.fetch = "all" THEN @ \union {f} ELSE @ \ {f},
                  !.stale = IF Of(f).from = "row" /\ linked THEN @ \union {f} ELSE @]
    /\ UNCHANGED <<dlg, shown, linked, machine>>

Typable(f) == shown /\ f \in dlg.fields /\ Of(f).from \notin {"rest", "dropped"}

Type(f, v) ==
    /\ Typable(f) /\ ~Kind.instant /\ Turn
    /\ Typing(f, v)
    /\ UNCHANGED <<post, busy>>

\* A switch or a checkbox that is sent as soon as it is changed.
EditAtOnce(f, v) ==
    /\ Typable(f) /\ Kind.instant /\ Turn
    /\ Typing(f, v)
    /\ post' = Append(post, Saving(form', held', user'))
    /\ UNCHANGED busy

handleSave ==
    /\ shown /\ ~Kind.instant /\ ~busy /\ Turn
    /\ Kind.ifChanged => Json(form, held) # held
    /\ Kind.checks => user.got \/ user.typed # {}
    /\ post' = Append(post, Saving(form, held, user))
    /\ busy' = Kind.waits
    /\ UNCHANGED <<dlg, shown, form, held, linked, items, machine, user>>

\* TuntapLease: the network is set back, and asked for again.
handleClear ==
    /\ shown /\ dlg.of = "TuntapLease" /\ Turn
    /\ post' = Append(post, [Asking EXCEPT !.kind = "clear"])
    /\ user' = [user EXCEPT !.early = @ \union user.typed]
    /\ UNCHANGED <<dlg, shown, form, held, linked, items, machine, busy>>

-----------------------------------------------------------------------------
(* The machine, and the answers *)

Mishap == turns.mishaps < MaxMishaps /\ turns' = [turns EXCEPT !.mishaps = @ + 1]

Served(m) ==
    machine' = CASE m.kind = "save" -> m.data
                 [] m.kind = "clear" -> [f \in dlg.fields |-> 1]
                 [] m.kind = "fetch" -> machine

ServeDialog ==
    \E i \in DOMAIN post :
        /\ post[i].answer = "none"
        /\ \A j \in 1 .. (i - 1) : post[j].answer # "none"
        /\ \/ /\ Served(post[i])
              /\ post' = [post EXCEPT ![i].answer = "ok",
                                      ![i].data = IF post[i].kind = "fetch" THEN machine ELSE @]
              /\ UNCHANGED turns
           \/ /\ Mishap
              /\ post' = [post EXCEPT ![i].answer =
                             IF Kind.refuses /\ post[i].kind = "save" THEN "refused" ELSE "error"]
              /\ UNCHANGED machine
        /\ UNCHANGED <<dlg, shown, form, held, linked, items, busy, user>>

\* Mutant: the first device is chosen whatever there is.
FillEmptyAlways(fm, codec) == [fm EXCEPT !.slot[2] = "b"]

\* The first device the machine has, if there is none yet.
FillEmpty(fm, codec) == IF fm.slot[2] = "" THEN [fm EXCEPT !.slot[2] = "b"] ELSE fm

Fill(m) ==
    /\ form' = [f \in dlg.fields |->
                  CASE Kind.fetch = "all" -> Shows1st(Of(f).codec, m.data[f])
                    [] Kind.fetch = "empty" -> FillEmpty(form[f], Of(f).codec)]
    /\ user' = [user EXCEPT !.got = TRUE,
                  !.meant = IF Kind.fetch = "all"
                            THEN [f \in dlg.fields |-> IF f \in user.typed THEN @[f] ELSE m.data[f]]
                            ELSE @]

\* Mutants: the dialog closes whatever the answer is; the button waits on.
SavedAnyway(m) == shown' = Kind.stays /\ busy' = FALSE
SavedWaiting(m) ==
    /\ shown' = (m.answer # "ok" \/ Kind.stays)
    /\ busy' = (busy /\ m.answer # "ok")

\* then and catch of a save
Saved(m) ==
    /\ shown' = (m.answer # "ok" \/ Kind.stays)
    /\ busy' = FALSE

DeliverDialog ==
    /\ post # <<>> /\ Head(post).answer # "none"
    /\ LET m == Head(post)
           rest == Tail(post)
       IN CASE ~m.mine -> post' = rest /\ UNCHANGED <<form, user, shown, busy>>
            [] m.mine /\ m.kind = "save" ->
                  /\ Saved(m)
                  /\ post' = IF shown' THEN rest ELSE Closed(rest)
                  /\ UNCHANGED <<form, user>>
            [] m.mine /\ m.kind = "fetch" ->
                  /\ IF m.answer = "ok" THEN Fill(m) ELSE UNCHANGED <<form, user>>
                  /\ post' = rest
                  /\ UNCHANGED <<shown, busy>>
            [] m.mine /\ m.kind = "clear" ->
                  /\ post' = IF m.answer = "ok" THEN Append(rest, Asking) ELSE rest
                  /\ UNCHANGED <<form, user, shown, busy>>
    /\ UNCHANGED <<dlg, held, linked, items, machine, turns>>

\* The list is polled: new objects, with what the machine has now.
Polled ==
    /\ dlg # NoDialog
    /\ items' = machine /\ linked' = FALSE
    /\ user' = [user EXCEPT !.known = machine, !.stale = {}]
    /\ UNCHANGED <<dlg, shown, form, held, machine, post, busy, turns>>

\* Another console, or the machine itself.
Elsewhere(f, v) ==
    /\ dlg # NoDialog /\ v # machine[f] /\ Mishap
    /\ machine' = [machine EXCEPT ![f] = v]
    /\ UNCHANGED <<dlg, shown, form, held, linked, items, post, busy, user>>

-----------------------------------------------------------------------------

DialogsInit ==
    /\ dlg = NoDialog /\ shown = FALSE /\ linked = FALSE /\ busy = FALSE
    /\ form = <<>> /\ held = <<>> /\ items = <<>> /\ machine = <<>> /\ post = <<>>
    /\ user = NewUser(<<>>, {})
    /\ turns = [opens |-> 0, user |-> 0, mishaps |-> 0]

DialogsNext ==
    \/ \E d \in Dialogs : Open(d)
    \/ Cancel \/ handleSave \/ handleClear \/ ServeDialog \/ DeliverDialog \/ Polled
    \/ \E f \in dlg.fields : \E v \in Values(Of(f).codec) :
          Type(f, v) \/ EditAtOnce(f, v) \/ Elsewhere(f, v)

DialogsSpec == DialogsInit /\ [][DialogsNext]_dialogVars

-----------------------------------------------------------------------------
(* Properties *)

\* Types of the variables.
DialogsTypeOK ==
    /\ dlg \in Dialogs \union {NoDialog} /\ shown \in BOOLEAN /\ linked \in BOOLEAN
    /\ busy \in BOOLEAN
    /\ \A f \in dlg.fields : /\ machine[f] \in Values(Of(f).codec)
                             /\ items[f] \in Values(Of(f).codec)
                             /\ held[f] \in Values(Of(f).codec)
    /\ user.typed \subseteq dlg.fields
    /\ \A i \in DOMAIN post : post[i].kind \in {"fetch", "save", "clear"}

\* What is sent is, field by field, what the user typed last or, where he typed
\* nothing, what the machine was known to have when the dialog was opened:
\* through every conversion, and whatever was polled, fetched, cancelled and
\* tried before.  Not so: rights that are not shown; rows that are shared with
\* the list and were changed before, and cancelled; what was typed or sent
\* before what was asked for had come; nodes taken out of a relay's list.
SavesAsMeant ==
    \A i \in DOMAIN post : post[i].kind = "save" =>
        \A f \in dlg.fields \ post[i].excused : post[i].data[f] = post[i].meant[f]

\* What the user typed stays in the form until the dialog is closed; but for
\* what he typed before what was asked for had come, and nodes of a relay's list.
TypedStays ==
    shown => \A f \in user.typed \ user.early :
                \/ Of(f).codec = "relayNodes"
                \/ ToJson(Of(f).codec, form[f]) = user.meant[f]

Mine == {i \in DOMAIN post : post[i].mine}

\* Only the answer to a save that was made closes a dialog by itself; if the
\* button waits, that was the last save, and none is forgotten.
ClosesWhenSaved ==
    [][shown /\ ~shown' /\ Len(post') < Len(post)
         => /\ Head(post).kind = "save" /\ Head(post).mine /\ Head(post).answer = "ok"
            /\ Kind.waits => \A i \in Mine \ {1} : post[i].kind # "save"]_dialogVars

\* A button that waits has a save under way, so it can be pressed again.
WaitsForSave == busy => \E i \in Mine : post[i].kind = "save"
=============================================================================
