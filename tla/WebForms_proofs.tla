--------------------------- MODULE WebForms_proofs ----------------------------
(***************************************************************************)
(* Proofs about what the web console edits: dialogs (WebDialogs), the cells*)
(* of a table (WebRows), and the forms of the installation (WebInstall), for*)
(* any fields of any dialog, any table, any machines, and any number of    *)
(* openings, entries, polls, failures and changes elsewhere.               *)
(*                                                                         *)
(* First the conversions a field goes through: a value, shown and sent     *)
(* again, is the value.  Then, for each of the three, an invariant         *)
(* (DialogInv, RowInv, InstallInv), one lemma for each action that keeps it,*)
(* and a lemma on what it shows.                                           *)
(***************************************************************************)
EXTENDS WebDialogs, WebRows, WebInstall, SequenceTheorems, TLAPS

-------------------------------------------------------------------------------
(* Dialogs *)

Codecs == {"plain", "bits", "range", "prefix", "slots", "nodes", "relayNodes", "rule"}
Sources == {"form", "row", "rest", "fetched", "blank", "filled", "dropped"}
Members == SUBSET {"node", "port"}

(* A form that can be sent. *)
FormOK(codec, fm) ==
    /\ ToJson(codec, fm) \in Values(codec)
    /\ codec = "slots" => fm \in [type : Types, slot : [Types -> {"", "a", "b"}], road : {"", "1"}]
    /\ codec \in {"nodes", "relayNodes"} => fm \in [nodes : Members, ports : Members]

------------------------------------------------------------------------------
(* Conversions *)

LEMMA PlainMeans ==
    ASSUME NEW v \in Values("plain"), NEW fm, FormOK("plain", fm)
    PROVE  /\ Shows1st("plain", v) = v /\ Typed("plain", fm, v) = v
           /\ ToJson("plain", v) = v /\ FormOK("plain", v)
BY DEF Values, Shows1st, Typed, ToJson, FormOK

LEMMA BitsMean ==
    ASSUME NEW v \in Values("bits")
    PROVE  /\ \A fm : Typed("bits", fm, v) = Shows1st("bits", v)
           /\ ToJson("bits", Shows1st("bits", v)) = v /\ FormOK("bits", Shows1st("bits", v))
<1>1. v = 2 \/ v = 3
  BY DEF Values
<1>2. Shows1st("bits", v) = AllowProtocol(v) /\ \A fm : Typed("bits", fm, v) = Shows1st("bits", v)
  BY DEF Shows1st, Typed
<1>3. \A fm : ToJson("bits", fm) = FromProtocols(fm)
  BY DEF ToJson
<1>4. FromProtocols(AllowProtocol(v)) = v
  <2>1. 2 \in AllowProtocol(v) /\ (1 \in AllowProtocol(v) <=> v = 3)
    <3>1. CASE v = 2
      BY <3>1 DEF AllowProtocol, Protocols
    <3>2. CASE v = 3
      BY <3>2 DEF AllowProtocol, Protocols
    <3> QED BY <1>1, <3>1, <3>2
  <2> QED BY <1>1, <2>1 DEF FromProtocols
<1> QED BY <1>2, <1>3, <1>4 DEF FormOK

LEMMA RangeMeans ==
    ASSUME NEW v \in Values("range")
    PROVE  /\ \A fm : Typed("range", fm, v) = Shows1st("range", v)
           /\ ToJson("range", Shows1st("range", v)) = v /\ FormOK("range", Shows1st("range", v))
<1>1. v = <<1, 1>> \/ v = <<1, 2>> \/ v = <<2, 2>>
  BY DEF Values
<1>2. v = <<v[1], v[2]>>
  BY <1>1
<1>3. /\ Shows1st("range", v) = [start |-> v[1], end |-> v[2]]
      /\ \A fm : Typed("range", fm, v) = Shows1st("range", v)
  BY DEF Shows1st, Typed, portRange
<1>4. \A fm : ToJson("range", fm) = <<fm.start, fm.end>>
  BY DEF ToJson
<1>5. ToJson("range", Shows1st("range", v)) = v
  BY <1>2, <1>3, <1>4
<1> QED BY <1>3, <1>5 DEF FormOK

LEMMA PrefixMeans ==
    ASSUME NEW v \in Values("prefix")
    PROVE  /\ Shows1st("prefix", v) = v /\ \A fm : Typed("prefix", fm, v) = v
           /\ ToJson("prefix", v) = v /\ FormOK("prefix", v)
<1>1. v = 20 \/ v = 24
  BY DEF Values
<1>2. handlePrefixLengthChange(v) = v
  BY <1>1 DEF handlePrefixLengthChange
<1> QED BY <1>2 DEF Values, Shows1st, Typed, ToJson, FormOK

LEMMA RuleMeans ==
    ASSUME NEW v \in Values("rule")
    PROVE  /\ \A fm : Typed("rule", fm, v) = Shows1st("rule", v)
           /\ ToJson("rule", Shows1st("rule", v)) = v /\ FormOK("rule", Shows1st("rule", v))
<1>1. PICK t \in 2 .. 5 : v = buildRule(t)
  BY DEF Values
<1>2. /\ Shows1st("rule", v) = decodeRule(v)
      /\ \A fm : Typed("rule", fm, v) = Shows1st("rule", v)
  BY DEF Shows1st, Typed
<1>3. \A fm : ToJson("rule", fm) = buildRule(fm)
  BY DEF ToJson
<1>4. decodeRule(v) = t
  <2>1. /\ "min" \in v <=> t > 4
        /\ "hour" \in v <=> t > 3
        /\ "day" \in v <=> t > 2
    BY <1>1 DEF buildRule
  <2> QED BY <2>1 DEF decodeRule
<1> QED BY <1>1, <1>2, <1>3, <1>4 DEF FormOK

Slots == [Types -> {"", "a", "b"}]

(* A device that can be woken is one of two. *)
LEMMA SlotsAre ==
    \A w : w \in Values("slots") =>
        /\ w.type = 1 \/ w.type = 2
        /\ w.value = "a" /\ w.road = (IF w.type = 1 THEN "" ELSE "1")
        /\ w = [type |-> w.type, value |-> "a", road |-> w.road]
<1> TAKE w
<1>1. Values("slots") = {[type |-> 1, value |-> "a", road |-> ""],
                         [type |-> 2, value |-> "a", road |-> "1"]}
  BY DEF Values
<1>2. CASE w = [type |-> 1, value |-> "a", road |-> ""]
  BY <1>2
<1>3. CASE w = [type |-> 2, value |-> "a", road |-> "1"]
  BY <1>3
<1> QED BY <1>1, <1>2, <1>3

(* A form says which it is, with the value in the input of its type. *)
LEMMA SlotsSend ==
    ASSUME NEW type \in {1, 2}, NEW slot \in Slots, NEW road \in {"", "1"}
    PROVE  /\ ToJson("slots", [type |-> type, slot |-> slot, road |-> road]) =
                 [type |-> type, value |-> slot[type], road |-> IF type = 1 THEN "" ELSE road]
           /\ slot[type] = "a" /\ road = (IF type = 1 THEN "" ELSE "1") =>
                 FormOK("slots", [type |-> type, slot |-> slot, road |-> road])
<1> DEFINE fm == [type |-> type, slot |-> slot, road |-> road]
<1>1. ToJson("slots", fm) =
          [type |-> type, value |-> slot[type], road |-> IF type = 1 THEN "" ELSE road]
  BY DEF ToJson, WakeupJson
<1>2. ASSUME slot[type] = "a", road = (IF type = 1 THEN "" ELSE "1")
      PROVE  FormOK("slots", fm)
  <2>1. ToJson("slots", fm) \in Values("slots")
    BY <1>1, <1>2 DEF Values
  <2>2. fm \in [type : Types, slot : Slots, road : {"", "1"}]
    BY DEF Types
  <2> HIDE DEF fm
  <2> QED BY <2>1, <2>2 DEF FormOK, Slots
<1> QED BY <1>1, <1>2

LEMMA SlotsMean ==
    ASSUME NEW v \in Values("slots"), NEW fm, FormOK("slots", fm)
    PROVE  /\ ToJson("slots", Shows1st("slots", v)) = v /\ FormOK("slots", Shows1st("slots", v))
           /\ ToJson("slots", Typed("slots", fm, v)) = v /\ FormOK("slots", Typed("slots", fm, v))
           /\ ToJson("slots", FillEmpty(fm, "slots")) = ToJson("slots", fm)
           /\ FormOK("slots", FillEmpty(fm, "slots"))
<1> DEFINE type == v.type
           road == v.road
<1>1. /\ type \in {1, 2} /\ v.value = "a" /\ road = (IF type = 1 THEN "" ELSE "1")
      /\ v = [type |-> type, value |-> "a", road |-> road] /\ road \in {"", "1"}
      /\ type \in Types
  BY SlotsAre DEF Types
<1>2. /\ fm \in [type : Types, slot : Slots, road : {"", "1"}]
      /\ ToJson("slots", fm) \in Values("slots")
  BY DEF FormOK, Slots
<1>3. v = [type |-> type, value |-> "a", road |-> IF type = 1 THEN "" ELSE road]
  BY <1>1
<1>4. /\ ToJson("slots", Shows1st("slots", v)) = v /\ FormOK("slots", Shows1st("slots", v))
  <2> DEFINE slot == [t \in Types |-> IF t = type THEN v.value ELSE ""]
  <2>1. Shows1st("slots", v) = [type |-> type, slot |-> slot, road |-> road]
    BY DEF Shows1st, WakeupForm
  <2>2. slot \in Slots /\ slot[type] = "a"
    BY <1>1 DEF Slots
  <2> HIDE DEF slot, type, road
  <2> QED BY <1>1, <1>3, <2>1, <2>2, SlotsSend
<1>5. /\ ToJson("slots", Typed("slots", fm, v)) = v /\ FormOK("slots", Typed("slots", fm, v))
  <2> DEFINE slot == [fm.slot EXCEPT ![type] = v.value]
  <2>1. Typed("slots", fm, v) = [type |-> type, slot |-> slot, road |-> road]
    BY DEF Typed, WakeupTyped
  <2>2. slot \in Slots /\ slot[type] = "a"
    BY <1>1, <1>2 DEF Slots
  <2> HIDE DEF slot, type, road
  <2> QED BY <1>1, <1>3, <2>1, <2>2, SlotsSend
<1>6. /\ ToJson("slots", FillEmpty(fm, "slots")) = ToJson("slots", fm)
      /\ FormOK("slots", FillEmpty(fm, "slots"))
  <2>1. CASE fm.slot[2] # ""
    BY <2>1 DEF FillEmpty
  <2>2. CASE fm.slot[2] = ""
    <3> DEFINE old == fm.slot
               slot == [old EXCEPT ![2] = "b"]
               of == fm.type
               json == ToJson("slots", fm)
    <3>1. json = [type |-> of, value |-> old[of], road |-> IF of = 1 THEN "" ELSE fm.road]
      BY DEF ToJson, WakeupJson
    <3>2. (json.type = 1 \/ json.type = 2) /\ json.value = "a"
      BY <1>2, SlotsAre
    <3>3. old \in Slots /\ fm.road \in {"", "1"} /\ old[2] = ""
      BY <1>2, <2>2
    <3>4. FillEmpty(fm, "slots") = [type |-> of, slot |-> slot, road |-> fm.road]
      BY <1>2, <2>2 DEF FillEmpty
    <3> HIDE DEF json, of, old
    <3>5. json.type = of /\ json.value = old[of]
      BY <3>1
    <3>6. of = 1 /\ old[1] = "a"
      BY <3>2, <3>3, <3>5
    <3>7. slot \in Slots /\ slot[1] = "a"
      BY <3>3, <3>6 DEF Slots, Types
    <3> HIDE DEF slot
    <3>8. ToJson("slots", FillEmpty(fm, "slots")) = [type |-> 1, value |-> "a", road |-> ""]
      BY <3>3, <3>4, <3>6, <3>7, SlotsSend
    <3>9. json = [type |-> 1, value |-> "a", road |-> ""]
      BY <3>1, <3>6
    <3>10. of \in Types
      BY <3>6 DEF Types
    <3> DEFINE road2 == fm.road
    <3>11. road2 \in {"", "1"} /\ FillEmpty(fm, "slots") = [type |-> of, slot |-> slot, road |-> road2]
      BY <3>3, <3>4
    <3> HIDE DEF road2
    <3>12. slot \in Slots
      BY <3>7
    <3>13. [type |-> of, slot |-> slot, road |-> road2]
              \in [type : Types, slot : Slots, road : {"", "1"}]
      BY <3>10, <3>11, <3>12
    <3>14. FillEmpty(fm, "slots") \in [type : Types, slot : Slots, road : {"", "1"}]
      BY <3>11, <3>13
    <3> QED BY <1>2, <3>8, <3>9, <3>14 DEF FormOK, Slots, json
  <2> QED BY <2>1, <2>2
<1> QED BY <1>4, <1>5, <1>6

LEMMA NodesMean ==
    ASSUME NEW codec \in {"nodes", "relayNodes"}, NEW v \in Values(codec), NEW fm, FormOK(codec, fm)
    PROVE  /\ ToJson(codec, Shows1st(codec, v)) = v /\ FormOK(codec, Shows1st(codec, v))
           /\ codec = "nodes" => ToJson(codec, Typed(codec, fm, v)) = v
           /\ FormOK(codec, Typed(codec, fm, v))
<1>1. \A w : w \in Values(codec) <=> w \in Members /\ w # {}
  BY DEF Values, Members
<1>2. \A x : ToJson(codec, x) = x.nodes
  BY DEF ToJson
<1>3. \A x : FormOK(codec, x) <=> /\ ToJson(codec, x) \in Values(codec)
                                  /\ x \in [nodes : Members, ports : Members]
  BY DEF FormOK
<1>4. v \in Members /\ v # {} /\ fm \in [nodes : Members, ports : Members]
  BY <1>1, <1>3
<1>5. /\ ToJson(codec, Shows1st(codec, v)) = v /\ FormOK(codec, Shows1st(codec, v))
  <2>1. Shows1st(codec, v) = [nodes |-> v, ports |-> IF codec = "nodes" THEN v \ {"node"} ELSE v]
    BY DEF Shows1st, NodesForm
  <2>2. v \ {"node"} \in Members
    BY <1>4 DEF Members
  <2>3. Shows1st(codec, v) \in [nodes : Members, ports : Members]
    BY <1>4, <2>1, <2>2
  <2>4. ToJson(codec, Shows1st(codec, v)) = v
    BY <1>2, <2>1
  <2> QED BY <1>3, <2>3, <2>4
<1> DEFINE b == codec = "nodes"
           n == (IF b THEN v \intersect {"node"} ELSE v) \union
                (IF b THEN v \ {"node"} ELSE fm.ports)
           p == IF b THEN v \ {"node"} ELSE fm.ports
<1>6. Typed(codec, fm, v) = [nodes |-> n, ports |-> p]
  BY DEF Typed, formatNodes
<1>7. n \in Members /\ n # {} /\ p \in Members /\ (b => n = v)
  BY <1>4 DEF Members
<1> HIDE DEF n, p
<1>8. ToJson(codec, Typed(codec, fm, v)) = n
  BY <1>2, <1>6
<1>9. Typed(codec, fm, v) \in [nodes : Members, ports : Members]
  BY <1>6, <1>7
<1>10. FormOK(codec, Typed(codec, fm, v))
  BY <1>1, <1>3, <1>7, <1>8, <1>9
<1> QED BY <1>5, <1>7, <1>8, <1>10

(* What a form shows is sent as it was, and what is typed as it was typed,
   except for the nodes of a relay. *)
LEMMA FormShows ==
    ASSUME NEW codec \in Codecs, NEW v \in Values(codec)
    PROVE  ToJson(codec, Shows1st(codec, v)) = v /\ FormOK(codec, Shows1st(codec, v))
<1>1. CASE codec = "plain"
  BY <1>1 DEF Values, Shows1st, ToJson, FormOK
<1>2. CASE codec = "slots"
  <2>1. \E fm : FormOK("slots", fm)
    <3> DEFINE fm == [type |-> 1, slot |-> [t \in Types |-> "a"], road |-> ""]
    <3>1. fm \in [type : Types, slot : [Types -> {"", "a", "b"}], road : {"", "1"}]
      BY DEF Types
    <3>2. ToJson("slots", fm) = [type |-> 1, value |-> "a", road |-> ""]
      BY DEF ToJson, WakeupJson, Types
    <3>3. ToJson("slots", fm) \in Values("slots")
      BY <3>2 DEF Values
    <3>4. FormOK("slots", fm)
      BY <3>1, <3>3 DEF FormOK
    <3> QED BY <3>4
  <2> QED BY <1>2, <2>1, SlotsMean
<1>3. CASE codec \in {"nodes", "relayNodes"}
  <2>1. \E fm : FormOK(codec, fm)
    <3>1. ToJson(codec, [nodes |-> {"node"}, ports |-> {}]) = {"node"}
      BY <1>3 DEF ToJson
    <3>2. {"node"} \in Values(codec) /\ {"node"} \in Members /\ {} \in Members
      BY <1>3 DEF Values, Members
    <3>3. FormOK(codec, [nodes |-> {"node"}, ports |-> {}])
      BY <1>3, <3>1, <3>2 DEF FormOK
    <3> QED BY <3>3
  <2> QED BY <1>3, <2>1, NodesMean
<1>4. CASE codec \in {"bits", "range", "prefix", "rule"}
  BY <1>4, BitsMean, RangeMeans, PrefixMeans, RuleMeans
<1> QED BY <1>1, <1>2, <1>3, <1>4 DEF Codecs

LEMMA FormTyped ==
    ASSUME NEW codec \in Codecs, NEW v \in Values(codec), NEW fm, FormOK(codec, fm)
    PROVE  /\ codec # "relayNodes" => ToJson(codec, Typed(codec, fm, v)) = v
           /\ FormOK(codec, Typed(codec, fm, v))
<1>1. CASE codec \in {"bits", "range", "prefix", "rule"}
  BY <1>1, BitsMean, RangeMeans, PrefixMeans, RuleMeans
<1>2. CASE codec \in {"plain", "slots", "nodes", "relayNodes"}
  BY <1>2, PlainMeans, SlotsMean, NodesMean
<1> QED BY <1>1, <1>2 DEF Codecs

LEMMA LowestIsValue == \A codec \in Codecs : Lowest(codec) \in Values(codec)
<1> TAKE codec \in Codecs
<1>1. \E v : v \in Values(codec)
  <2>1. CASE codec \in {"nodes", "relayNodes"}
    <3>1. {"node"} \in Values(codec)
      BY <2>1 DEF Values
    <3> QED BY <3>1
  <2>2. CASE codec = "rule"
    <3>1. buildRule(2) \in Values(codec)
      BY <2>2 DEF Values
    <3> QED BY <3>1
  <2>3. CASE codec \in {"plain", "bits", "range", "prefix", "slots"}
    BY <2>3 DEF Values
  <2> QED BY <2>1, <2>2, <2>3 DEF Codecs
<1> QED BY <1>1 DEF Lowest

------------------------------------------------------------------------------
(* Dialogs *)

(* What a dialog has in common with the others. *)
FieldFits(d, fd) ==
    /\ fd.from \in Sources /\ fd.codec \in Codecs
    /\ fd.from # "form" => fd.codec = "plain"
    /\ d.fetch = "all" <=> fd.from = "fetched"
    /\ d.fetch = "empty" => fd.codec = "slots"

DialogFits(d) ==
    /\ d.fetch \in {"none", "all", "empty"}
    /\ d.waits \in BOOLEAN /\ d.stays \in BOOLEAN /\ d.instant \in BOOLEAN
    /\ d.instant => ~d.waits
    /\ \A f \in DOMAIN d.fields : FieldFits(d, d.fields[f])

(* The edits of an address or a network share one form. *)
LEMMA TuntapFits == DialogFits(TuntapEdit) /\ DialogFits(Socks5Edit)
<1>1. /\ TuntapEdit.fetch = "none" /\ TuntapEdit.waits = TRUE /\ TuntapEdit.stays = FALSE
      /\ TuntapEdit.instant = FALSE
      /\ TuntapEdit.fields = And(TuntapIP, And(TuntapLan, TuntapForward))
  BY DEF TuntapEdit, Dialog
<1>2. /\ Socks5Edit.fetch = "none" /\ Socks5Edit.waits = FALSE /\ Socks5Edit.stays = FALSE
      /\ Socks5Edit.instant = FALSE
      /\ Socks5Edit.fields = And([Port |-> Form, Status |-> Rest], Socks5Lan)
  BY DEF Socks5Edit, Dialog
<1> DEFINE Plain == {Form, Row, Rest, Field("form", "prefix")}
<1>3. ASSUME NEW d, d.fetch = "none", NEW fd \in Plain PROVE FieldFits(d, fd)
  <2>1. fd.from \in {"form", "row", "rest"} /\ fd.codec \in Codecs
        /\ (fd.from # "form" => fd.codec = "plain")
    BY <1>3 DEF Form, Row, Rest, Field, Codecs
  <2>2. fd.from \in Sources /\ fd.from # "fetched"
    BY <2>1 DEF Sources
  <2>3. d.fetch # "all" /\ d.fetch # "empty"
    BY <1>3
  <2> QED BY <2>1, <2>2, <2>3 DEF FieldFits
<1>4. \A f \in DOMAIN TuntapEdit.fields : TuntapEdit.fields[f] \in Plain
  <2>1. \A f \in DOMAIN TuntapIP : TuntapIP[f] \in Plain
    BY DEF TuntapIP
  <2>2. \A f \in DOMAIN TuntapLan : TuntapLan[f] \in Plain
    BY DEF TuntapLan
  <2>3. \A f \in DOMAIN TuntapForward : TuntapForward[f] \in Plain
    BY DEF TuntapForward
  <2> HIDE DEF Plain
  <2> QED BY <1>1, <2>1, <2>2, <2>3 DEF And
<1>5. \A f \in DOMAIN Socks5Edit.fields : Socks5Edit.fields[f] \in Plain
  <2>1. \A f \in DOMAIN Socks5Lan : Socks5Lan[f] \in Plain
    BY DEF Socks5Lan
  <2> DEFINE rest == [Port |-> Form, Status |-> Rest]
  <2>2. \A f \in DOMAIN rest : rest[f] \in Plain
    OBVIOUS
  <2>3. Socks5Edit.fields = And(rest, Socks5Lan)
    BY <1>2
  <2> HIDE DEF Plain, rest
  <2> QED BY <2>1, <2>2, <2>3 DEF And
<1> HIDE DEF Plain
<1>6. DialogFits(TuntapEdit)
  BY <1>1, <1>3, <1>4 DEF DialogFits
<1>7. DialogFits(Socks5Edit)
  BY <1>2, <1>3, <1>5 DEF DialogFits
<1> QED BY <1>6, <1>7

LEMMA DialogsFit ==
    \A o \in DOMAIN DialogOf : DialogFits(DialogOf[o]) /\ (o = "TuntapLease" => DialogOf[o].fetch = "all")
<1> TAKE o \in DOMAIN DialogOf
<1> USE DEF DialogFits, FieldFits, Dialog, Form, Row, Rest, Fetched, Field, Sources, Codecs
<1>1. CASE o = "TuntapEdit"
  BY <1>1, TuntapFits DEF DialogOf
<1>2. CASE o = "TuntapLease"
  <2>1. DialogOf[o] = TuntapLease
    BY <1>2 DEF DialogOf
  <2>2. DialogFits(TuntapLease) /\ (o = "TuntapLease" => TuntapLease.fetch = "all")
    BY <1>2 DEF TuntapLease
  <2> QED BY ONLY <2>1, <2>2
<1>3. CASE o = "Socks5Edit"
  BY <1>3, TuntapFits DEF DialogOf
<1>4. CASE o = "TunnelEdit"
  <2>1. DialogOf[o] = TunnelEdit
    BY <1>4 DEF DialogOf
  <2>2. DialogFits(TunnelEdit) /\ (o = "TuntapLease" => TunnelEdit.fetch = "all")
    BY <1>4 DEF TunnelEdit
  <2> QED BY ONLY <2>1, <2>2
<1>5. CASE o = "DeviceEdit"
  <2>1. DialogOf[o] = DeviceEdit
    BY <1>5 DEF DialogOf
  <2>2. DialogFits(DeviceEdit) /\ (o = "TuntapLease" => DeviceEdit.fetch = "all")
    BY <1>5 DEF DeviceEdit
  <2> QED BY ONLY <2>1, <2>2
<1>6. CASE o = "AccessEdit"
  <2>1. DialogOf[o] = AccessEdit
    BY <1>6 DEF DialogOf
  <2>2. DialogFits(AccessEdit) /\ (o = "TuntapLease" => AccessEdit.fetch = "all")
    BY <1>6 DEF AccessEdit, Access
  <2> QED BY ONLY <2>1, <2>2
<1>7. CASE o = "RelayEditNode"
  <2>1. DialogOf[o] = RelayEditNode
    BY <1>7 DEF DialogOf
  <2>2. DialogFits(RelayEditNode) /\ (o = "TuntapLease" => RelayEditNode.fetch = "all")
    BY <1>7 DEF RelayEditNode
  <2> QED BY ONLY <2>1, <2>2
<1>8. CASE o = "ForwardEditNode"
  <2>1. DialogOf[o] = ForwardEditNode
    BY <1>8 DEF DialogOf
  <2>2. DialogFits(ForwardEditNode) /\ (o = "TuntapLease" => ForwardEditNode.fetch = "all")
    BY <1>8 DEF ForwardEditNode
  <2> QED BY ONLY <2>1, <2>2
<1>9. CASE o = "RelayNodes"
  <2>1. DialogOf[o] = RelayNodes
    BY <1>9 DEF DialogOf
  <2>2. DialogFits(RelayNodes) /\ (o = "TuntapLease" => RelayNodes.fetch = "all")
    BY <1>9 DEF RelayNodes, handleSync2Server
  <2> QED BY ONLY <2>1, <2>2
<1>10. CASE o = "ForwardNodes"
  <2>1. DialogOf[o] = ForwardNodes
    BY <1>10 DEF DialogOf
  <2>2. DialogFits(ForwardNodes) /\ (o = "TuntapLease" => ForwardNodes.fetch = "all")
    BY <1>10 DEF ForwardNodes, handleSync2Server
  <2> QED BY ONLY <2>1, <2>2
<1>11. CASE o = "syncDefault"
  <2>1. DialogOf[o] = syncDefault
    BY <1>11 DEF DialogOf
  <2>2. DialogFits(syncDefault) /\ (o = "TuntapLease" => syncDefault.fetch = "all")
    BY <1>11 DEF syncDefault
  <2> QED BY ONLY <2>1, <2>2
<1>12. CASE o = "UpdaterConfig"
  <2>1. DialogOf[o] = UpdaterConfig
    BY <1>12 DEF DialogOf
  <2>2. DialogFits(UpdaterConfig) /\ (o = "TuntapLease" => UpdaterConfig.fetch = "all")
    BY <1>12 DEF UpdaterConfig
  <2> QED BY ONLY <2>1, <2>2
<1>13. CASE o = "FirewallAdd"
  <2>1. DialogOf[o] = FirewallAdd
    BY <1>13 DEF DialogOf
  <2>2. DialogFits(FirewallAdd) /\ (o = "TuntapLease" => FirewallAdd.fetch = "all")
    BY <1>13 DEF FirewallAdd
  <2> QED BY ONLY <2>1, <2>2
<1>14. CASE o = "WakeupAdd"
  <2>1. DialogOf[o] = WakeupAdd
    BY <1>14 DEF DialogOf
  <2>2. DialogFits(WakeupAdd) /\ (o = "TuntapLease" => WakeupAdd.fetch = "all")
    BY <1>14 DEF WakeupAdd
  <2> QED BY ONLY <2>1, <2>2
<1>15. CASE o = "WlistAdd"
  <2>1. DialogOf[o] = WlistAdd
    BY <1>15 DEF DialogOf
  <2>2. DialogFits(WlistAdd) /\ (o = "TuntapLease" => WlistAdd.fetch = "all")
    BY <1>15 DEF WlistAdd
  <2> QED BY ONLY <2>1, <2>2
<1>16. CASE o = "CdkeyAdd"
  <2>1. DialogOf[o] = CdkeyAdd
    BY <1>16 DEF DialogOf
  <2>2. DialogFits(CdkeyAdd) /\ (o = "TuntapLease" => CdkeyAdd.fetch = "all")
    BY <1>16 DEF CdkeyAdd
  <2> QED BY ONLY <2>1, <2>2
<1>17. CASE o = "PlanEdit"
  <2>1. DialogOf[o] = PlanEdit
    BY <1>17 DEF DialogOf
  <2>2. DialogFits(PlanEdit) /\ (o = "TuntapLease" => PlanEdit.fetch = "all")
    BY <1>17 DEF PlanEdit
  <2> QED BY ONLY <2>1, <2>2
<1>18. CASE o = "Action"
  <2>1. DialogOf[o] = Action
    BY <1>18 DEF DialogOf
  <2>2. DialogFits(Action) /\ (o = "TuntapLease" => Action.fetch = "all")
    BY <1>18 DEF Action
  <2> QED BY ONLY <2>1, <2>2
<1>19. CASE o = "LoggerSetting"
  <2>1. DialogOf[o] = LoggerSetting
    BY <1>19 DEF DialogOf
  <2>2. DialogFits(LoggerSetting) /\ (o = "TuntapLease" => LoggerSetting.fetch = "all")
    BY <1>19 DEF LoggerSetting
  <2> QED BY ONLY <2>1, <2>2
<1>20. o \in {"TuntapEdit", "TuntapLease", "Socks5Edit", "TunnelEdit", "DeviceEdit", "AccessEdit", "RelayEditNode", "ForwardEditNode", "RelayNodes", "ForwardNodes", "syncDefault", "UpdaterConfig", "FirewallAdd", "WakeupAdd", "WlistAdd", "CdkeyAdd", "PlanEdit", "Action", "LoggerSetting"}
  BY DEF DialogOf
<1> QED BY <1>1, <1>2, <1>3, <1>4, <1>5, <1>6, <1>7, <1>8, <1>9, <1>10, <1>11, <1>12, <1>13, <1>14, <1>15, <1>16, <1>17, <1>18, <1>19, <1>20

------------------------------------------------------------------------------
(* The state of a dialog *)

CodecOf(d, f) == DialogOf[d.of].fields[f].codec

(* A value for each field that is followed. *)
RowsOf(d) ==
    {m \in [d.fields -> UNION {Values(c) : c \in Codecs}] :
        \A f \in d.fields : m[f] \in Values(CodecOf(d, f))}

UsersOf(d) ==
    [meant : RowsOf(d), typed : SUBSET d.fields, early : SUBSET d.fields, got : BOOLEAN,
     known : RowsOf(d), stale : SUBSET d.fields, taken : SUBSET d.fields]

(* What is under way: a save says what was meant, but for what is excused. *)
Posts(d) ==
    {p \in [kind : {"fetch", "save", "clear"}, mine : BOOLEAN, data : RowsOf(d) \cup {<<>>},
            meant : RowsOf(d) \cup {<<>>}, excused : SUBSET d.fields,
            answer : {"none", "ok", "refused", "error"}] :
        /\ p.kind = "save" => /\ p.data \in RowsOf(d)
                              /\ \A f \in d.fields \ p.excused : p.data[f] = p.meant[f]
        /\ p.kind = "fetch" /\ p.answer = "ok" => p.data \in RowsOf(d)
        /\ p.kind # "save" => DialogOf[d.of].fetch # "none"
        /\ p.kind = "clear" => DialogOf[d.of].fetch = "all"}

FormsFit(fm) == DOMAIN fm = dlg.fields /\ \A f \in dlg.fields : FormOK(Of(f).codec, fm[f])

(* Fields whose form says what is meant. *)
Keeps(u, f) ==
    \/ f \in u.typed \ u.early /\ Of(f).codec # "relayNodes"
    \/ f \notin u.typed /\ \/ Of(f).from = "form"
                           \/ Of(f).from = "row" /\ f \notin u.taken
                           \/ Of(f).from = "fetched" /\ u.got

Means(fm, object, u) ==
    /\ u.early \subseteq u.typed
    /\ \A f \in dlg.fields :
          /\ Keeps(u, f) => ToJson(Of(f).codec, fm[f]) = u.meant[f]
          /\ Of(f).from = "rest" => object[f] = u.meant[f] /\ f \notin u.typed

(* What kinds of requests of this dialog are under way. *)
MineKinds(q) == {q[i].kind : i \in {j \in DOMAIN q : q[j].mine}}

IsMySave(p) == p.mine /\ p.kind = "save"
SavesOnce(q) == \A i, j \in DOMAIN q : IsMySave(q[i]) /\ IsMySave(q[j]) => i = j

DialogTypes ==
    /\ dlg \in Dialogs /\ shown \in BOOLEAN /\ linked \in BOOLEAN /\ busy \in BOOLEAN
    /\ machine \in RowsOf(dlg) /\ items \in RowsOf(dlg) /\ held \in RowsOf(dlg)
    /\ FormsFit(form) /\ user \in UsersOf(dlg) /\ post \in Seq(Posts(dlg))

(* The list shows what the machine was known to have, but for rows that were
   typed into. *)
ListInv ==
    /\ \A f \in user.stale : Of(f).from = "row"
    /\ \A f \in dlg.fields \ user.stale : items[f] = user.known[f]

QueueInv ==
    /\ ~shown => MineKinds(post) = {} /\ ~busy
    /\ busy => "save" \in MineKinds(post)
    /\ Kind.waits => SavesOnce(post) /\ ("save" \in MineKinds(post) => busy)
    /\ Kind.fetch = "all" /\ MineKinds(post) \cap {"fetch", "clear"} # {} =>
          user.typed \subseteq user.early

NoneOpened ==
    /\ dlg = NoDialog /\ shown = FALSE /\ linked = FALSE /\ busy = FALSE /\ post = <<>>
    /\ user = NewUser(<<>>, {})

OneOpened == DialogTypes /\ ListInv /\ QueueInv /\ (shown => Means(form, held, user))

DialogInv == NoneOpened \/ OneOpened

LEMMA DialogIs ==
    ASSUME NEW d \in Dialogs
    PROVE  /\ DialogFits(DialogOf[d.of]) /\ d # NoDialog /\ NoDialog \notin Dialogs
           /\ d.of = "TuntapLease" => DialogOf[d.of].fetch = "all"
           /\ \A f \in d.fields : /\ FieldFits(DialogOf[d.of], DialogOf[d.of].fields[f])
                                  /\ CodecOf(d, f) \in Codecs
<1>1. \A e \in Dialogs : e.of \in DOMAIN DialogOf /\ e.fields \subseteq DOMAIN DialogOf[e.of].fields
  BY WebDialogsAssumption DEF WebDialogsAssumption
<1>2. "none" \notin DOMAIN DialogOf
  BY DEF DialogOf
<1>3. NoDialog \notin Dialogs
  BY <1>1, <1>2 DEF NoDialog
<1>4. DialogFits(DialogOf[d.of]) /\ (d.of = "TuntapLease" => DialogOf[d.of].fetch = "all")
  BY <1>1, DialogsFit
<1>5. ASSUME NEW f \in d.fields
      PROVE  FieldFits(DialogOf[d.of], DialogOf[d.of].fields[f]) /\ CodecOf(d, f) \in Codecs
  <2>1. FieldFits(DialogOf[d.of], DialogOf[d.of].fields[f])
    BY <1>1, <1>4 DEF DialogFits
  <2> QED BY <2>1 DEF FieldFits, CodecOf
<1> QED BY <1>3, <1>4, <1>5

LEMMA RowsFrom ==
    ASSUME NEW d \in Dialogs, NEW m, DOMAIN m = d.fields, m = [f \in DOMAIN m |-> m[f]],
           \A f \in d.fields : m[f] \in Values(CodecOf(d, f))
    PROVE  m \in RowsOf(d)
<1>1. \A f \in d.fields : m[f] \in UNION {Values(c) : c \in Codecs}
  BY DialogIs
<1> QED BY <1>1 DEF RowsOf

LEMMA RowChanged ==
    ASSUME NEW d \in Dialogs, NEW m \in RowsOf(d), NEW f \in d.fields, NEW v \in Values(CodecOf(d, f))
    PROVE  /\ [m EXCEPT ![f] = v] \in RowsOf(d) /\ [m EXCEPT ![f] = v][f] = v
           /\ \A g \in d.fields : g # f => [m EXCEPT ![f] = v][g] = m[g]
<1>1. v \in UNION {Values(c) : c \in Codecs}
  BY DialogIs
<1> QED BY <1>1 DEF RowsOf

------------------------------------------------------------------------------
(* Queues *)

LEMMA MineOfNone == MineKinds(<<>>) = {} /\ SavesOnce(<<>>)
BY DEF MineKinds, SavesOnce

LEMMA MineAppended ==
    ASSUME NEW S, NEW q \in Seq(S), NEW c \in S
    PROVE  /\ Append(q, c) \in Seq(S)
           /\ MineKinds(Append(q, c)) = MineKinds(q) \cup (IF c.mine THEN {c.kind} ELSE {})
           /\ SavesOnce(q) /\ (IsMySave(c) => "save" \notin MineKinds(q)) => SavesOnce(Append(q, c))
<1>1. /\ Append(q, c) \in Seq(S) /\ Len(q) \in Nat
      /\ \A i \in 1 .. Len(q) : Append(q, c)[i] = q[i]
      /\ Append(q, c)[Len(q) + 1] = c
      /\ DOMAIN q = 1 .. Len(q) /\ DOMAIN Append(q, c) = 1 .. Len(q) + 1
  BY AppendProperties, LenProperties
<1>2. MineKinds(q) \subseteq MineKinds(Append(q, c))
  BY <1>1 DEF MineKinds
<1>3. c.mine => c.kind \in MineKinds(Append(q, c))
  BY <1>1 DEF MineKinds
<1>4. ASSUME NEW i \in DOMAIN Append(q, c), Append(q, c)[i].mine
      PROVE  Append(q, c)[i].kind \in MineKinds(q) \cup (IF c.mine THEN {c.kind} ELSE {})
  <2>1. CASE i = Len(q) + 1
    BY <1>1, <1>4, <2>1
  <2>2. CASE i \in DOMAIN q
    BY <1>1, <1>4, <2>2 DEF MineKinds
  <2> QED BY <1>1, <2>1, <2>2
<1>5. MineKinds(Append(q, c)) \subseteq MineKinds(q) \cup (IF c.mine THEN {c.kind} ELSE {})
  BY <1>4 DEF MineKinds
<1>6. MineKinds(Append(q, c)) = MineKinds(q) \cup (IF c.mine THEN {c.kind} ELSE {})
  BY <1>2, <1>3, <1>5
<1>7. ASSUME SavesOnce(q), IsMySave(c) => "save" \notin MineKinds(q)
      PROVE  SavesOnce(Append(q, c))
  <2>1. \A i \in DOMAIN q : IsMySave(q[i]) => ~IsMySave(c)
    BY <1>7 DEF MineKinds, IsMySave
  <2> QED BY <1>1, <1>7, <2>1 DEF SavesOnce
<1> QED BY <1>1, <1>6, <1>7

LEMMA MineLess ==
    ASSUME NEW S, NEW q \in Seq(S), q # <<>>
    PROVE  /\ Head(q) \in S /\ Tail(q) \in Seq(S) /\ Head(q) = q[1] /\ 1 \in DOMAIN q
           /\ MineKinds(q) = MineKinds(Tail(q)) \cup (IF Head(q).mine THEN {Head(q).kind} ELSE {})
           /\ SavesOnce(q) => /\ SavesOnce(Tail(q))
                              /\ IsMySave(Head(q)) => "save" \notin MineKinds(Tail(q))
<1>1. /\ Len(q) \in Nat /\ Len(q) # 0 /\ DOMAIN q = 1 .. Len(q)
      /\ \A i \in 1 .. Len(q) : q[i] \in S
  BY LenProperties, ElementOfSeq, EmptySeq
<1>2. /\ Head(q) = q[1] /\ Head(q) \in S /\ Tail(q) \in Seq(S)
      /\ DOMAIN Tail(q) = 1 .. Len(q) - 1
      /\ \A i \in 1 .. Len(q) - 1 : Tail(q)[i] = q[i + 1]
      /\ 1 \in DOMAIN q
  BY <1>1, HeadTailProperties, LenProperties
<1>3. ASSUME NEW i \in DOMAIN Tail(q) PROVE Tail(q)[i] = q[i + 1] /\ i + 1 \in DOMAIN q /\ i + 1 # 1
  BY <1>1, <1>2, <1>3
<1>4. ASSUME NEW i \in DOMAIN q, i # 1 PROVE i - 1 \in DOMAIN Tail(q) /\ Tail(q)[i - 1] = q[i]
  BY <1>1, <1>2, <1>4
<1>5. MineKinds(Tail(q)) \subseteq MineKinds(q)
  BY <1>3 DEF MineKinds
<1>6. Head(q).mine => Head(q).kind \in MineKinds(q)
  BY <1>2 DEF MineKinds
<1>7. ASSUME NEW i \in DOMAIN q, q[i].mine
      PROVE  q[i].kind \in MineKinds(Tail(q)) \cup (IF Head(q).mine THEN {Head(q).kind} ELSE {})
  <2>1. CASE i = 1
    BY <1>2, <1>7, <2>1
  <2>2. CASE i # 1
    <3>1. i - 1 \in DOMAIN Tail(q) /\ Tail(q)[i - 1] = q[i]
      BY <1>4, <2>2
    <3> QED BY <1>7, <3>1 DEF MineKinds
  <2> QED BY <2>1, <2>2
<1>8. MineKinds(q) \subseteq MineKinds(Tail(q)) \cup (IF Head(q).mine THEN {Head(q).kind} ELSE {})
  BY <1>7 DEF MineKinds
<1>9. ASSUME SavesOnce(q) PROVE SavesOnce(Tail(q))
  <2> SUFFICES ASSUME NEW i \in DOMAIN Tail(q), NEW j \in DOMAIN Tail(q),
                      IsMySave(Tail(q)[i]), IsMySave(Tail(q)[j])
               PROVE  i = j
    BY DEF SavesOnce
  <2>1. i + 1 = j + 1
    BY <1>3, <1>9 DEF SavesOnce
  <2>2. i \in Int /\ j \in Int
    BY <1>1, <1>2
  <2> QED BY <2>1, <2>2
<1>10. ASSUME SavesOnce(q), IsMySave(Head(q)) PROVE "save" \notin MineKinds(Tail(q))
  <2>1. \A i \in DOMAIN Tail(q) : ~IsMySave(Tail(q)[i])
    BY <1>2, <1>3, <1>10 DEF SavesOnce
  <2> QED BY <2>1 DEF MineKinds, IsMySave
<1> QED BY <1>2, <1>5, <1>6, <1>8, <1>9, <1>10

LEMMA MineGone ==
    ASSUME NEW d, NEW q \in Seq(Posts(d))
    PROVE  /\ Closed(q) \in Seq(Posts(d)) /\ MineKinds(Closed(q)) = {} /\ SavesOnce(Closed(q))
           /\ Len(Closed(q)) = Len(q)
<1>1. Len(q) \in Nat /\ DOMAIN q = 1 .. Len(q) /\ \A j \in 1 .. Len(q) : q[j] \in Posts(d)
  BY LenProperties, ElementOfSeq
<1>2. \A j \in DOMAIN q : [q[j] EXCEPT !.mine = FALSE] \in Posts(d) /\ ~[q[j] EXCEPT !.mine = FALSE].mine
  <2>1. ASSUME NEW p \in Posts(d)
        PROVE  [p EXCEPT !.mine = FALSE] \in Posts(d) /\ ~[p EXCEPT !.mine = FALSE].mine
    BY DEF Posts
  <2> QED BY <1>1, <2>1
<1>3. Closed(q) \in Seq(Posts(d))
  BY <1>1, <1>2, IsASeq DEF Closed
<1>4. DOMAIN Closed(q) = 1 .. Len(q) /\ \A j \in DOMAIN Closed(q) : ~Closed(q)[j].mine
  BY <1>1, <1>2 DEF Closed
<1>5. Len(Closed(q)) = Len(q)
  BY <1>1, <1>3, <1>4, LenProperties
<1> QED BY <1>3, <1>4, <1>5 DEF MineKinds, SavesOnce, IsMySave

LEMMA MineAnswered ==
    ASSUME NEW S, NEW q \in Seq(S), NEW i \in DOMAIN q, NEW c \in S,
           c.kind = q[i].kind, c.mine = q[i].mine
    PROVE  /\ [q EXCEPT ![i] = c] \in Seq(S) /\ MineKinds([q EXCEPT ![i] = c]) = MineKinds(q)
           /\ SavesOnce(q) => SavesOnce([q EXCEPT ![i] = c])
<1> DEFINE r == [q EXCEPT ![i] = c]
<1>1. Len(q) \in Nat /\ DOMAIN q = 1 .. Len(q)
  BY LenProperties
<1>2. r \in Seq(S)
  BY <1>1, ExceptSeq
<1>3. DOMAIN r = DOMAIN q /\ \A j \in DOMAIN q : r[j].kind = q[j].kind /\ r[j].mine = q[j].mine
  OBVIOUS
<1> HIDE DEF r
<1>4. MineKinds(r) \subseteq MineKinds(q) /\ MineKinds(q) \subseteq MineKinds(r)
  BY <1>3 DEF MineKinds
<1>5. SavesOnce(q) => SavesOnce(r)
  BY <1>3 DEF SavesOnce, IsMySave
<1> QED BY <1>2, <1>4, <1>5 DEF r

------------------------------------------------------------------------------
(* Opening *)

LEMMA FirstFormFits ==
    ASSUME NEW d, NEW field, FieldFits(d, field), NEW v \in Values(field.codec)
    PROVE  /\ FormOK(field.codec, FirstForm(field, v))
           /\ field.from \in {"form", "row"} => ToJson(field.codec, FirstForm(field, v)) = v
<1>1. field.codec \in Codecs /\ field.from \in Sources
  BY DEF FieldFits
<1>2. CASE field.from \in {"blank", "fetched"}
  <2>1. FirstForm(field, v) = Shows1st(field.codec, Lowest(field.codec))
    BY <1>2 DEF FirstForm
  <2>2. Lowest(field.codec) \in Values(field.codec)
    BY <1>1, LowestIsValue
  <2> QED BY <1>1, <1>2, <2>1, <2>2, FormShows
<1>3. CASE field.from = "filled"
  <2>1. field.codec = "plain" /\ FirstForm(field, v) = IF v = 1 THEN 2 ELSE v
    BY <1>3 DEF FirstForm, FieldFits
  <2>2. v \in {1, 2}
    BY <2>1 DEF Values
  <2> QED BY <1>3, <2>1, <2>2 DEF FormOK, ToJson, Values
<1>4. CASE field.from \notin {"blank", "fetched", "filled"}
  <2>1. FirstForm(field, v) = Shows1st(field.codec, v)
    BY <1>4 DEF FirstForm
  <2> QED BY <1>1, <2>1, FormShows
<1> QED BY <1>2, <1>3, <1>4

LEMMA OpenDialogStep ==
    ASSUME DialogInv, NEW d \in Dialogs, Open(d) PROVE DialogInv'
<1>1. /\ dlg' = d /\ shown' = TRUE /\ linked' = TRUE /\ busy' = FALSE /\ ~shown
      /\ dlg \in {d, NoDialog}
  BY DEF Open
<1>2. DialogFits(DialogOf[d.of]) /\ d # NoDialog
      /\ \A f \in d.fields : FieldFits(DialogOf[d.of], DialogOf[d.of].fields[f])
  BY DialogIs
<1>3. \/ dlg = d /\ OneOpened
      \/ dlg = NoDialog /\ NoneOpened
  BY <1>1, <1>2, DialogIs DEF DialogInv, OneOpened, DialogTypes, NoneOpened
<1>4. post \in Seq(Posts(d)) /\ MineKinds(post) = {}
  BY <1>1, <1>3, EmptySeq, MineOfNone DEF OneOpened, DialogTypes, QueueInv, NoneOpened
<1>5. PICK now \in [d.fields -> UNION {Values(DialogOf[d.of].fields[f].codec) : f \in d.fields}] :
          /\ IF dlg = d THEN now = items
             ELSE \A f \in d.fields : now[f] \in Values(DialogOf[d.of].fields[f].codec)
          /\ held' = now /\ items' = now
          /\ machine' = IF dlg = d THEN machine ELSE now
          /\ form' = [f \in d.fields |-> FirstForm(DialogOf[d.of].fields[f], now[f])]
          /\ user' = IF dlg = d THEN NewUser(user.known, user.stale) ELSE NewUser(now, {})
  BY DEF Open
<1>6. now \in RowsOf(d)
  <2>1. CASE dlg = d
    BY <1>2, <1>3, <1>5, <2>1 DEF OneOpened, DialogTypes
  <2>2. CASE dlg # d
    <3>1. \A f \in d.fields : now[f] \in Values(CodecOf(d, f))
      BY <1>5, <2>2 DEF CodecOf
    <3> QED BY <3>1, RowsFrom
  <2> QED BY <2>1, <2>2
<1> DEFINE known == IF dlg = d THEN user.known ELSE now
           stale == IF dlg = d THEN user.stale ELSE {}
<1>7. /\ user' = NewUser(known, stale) /\ known \in RowsOf(d) /\ stale \in SUBSET d.fields
      /\ \A f \in stale : DialogOf[d.of].fields[f].from = "row"
      /\ \A f \in d.fields \ stale : now[f] = known[f]
      /\ machine' \in RowsOf(d)
  <2>1. CASE dlg = d
    BY <1>2, <1>3, <1>5, <2>1 DEF OneOpened, DialogTypes, ListInv, UsersOf, Of, Kind
  <2>2. CASE dlg # d
    BY <1>5, <1>6, <2>2
  <2> QED BY <2>1, <2>2
<1> HIDE DEF known, stale
<1>8. user' = [meant |-> known, typed |-> {}, early |-> {}, got |-> FALSE, known |-> known,
               stale |-> stale, taken |-> stale]
  BY <1>7 DEF NewUser
<1>9. \A f \in d.fields : Of(f)' = DialogOf[d.of].fields[f]
  BY <1>1 DEF Of, Kind
<1>10. \A f \in d.fields :
          /\ FormOK(Of(f)'.codec, form'[f])
          /\ Of(f)'.from \in {"form", "row"} => ToJson(Of(f)'.codec, form'[f]) = now[f]
  <2> TAKE f \in d.fields
  <2>1. now[f] \in Values(DialogOf[d.of].fields[f].codec)
    BY <1>6 DEF RowsOf, CodecOf
  <2>2. form'[f] = FirstForm(DialogOf[d.of].fields[f], now[f])
    BY <1>5
  <2> QED BY <1>2, <1>9, <2>1, <2>2, FirstFormFits
<1>11. post' \in Seq(Posts(d))
       /\ MineKinds(post') \in {{}, {"fetch"}} /\ SavesOnce(post')
  <2>1. CASE post' = post
    BY <1>4, <2>1 DEF MineKinds, SavesOnce, IsMySave
  <2>2. CASE DialogOf[d.of].fetch # "none" /\ post' = Append(post, Asking)
    <3>1. Asking \in Posts(d) /\ Asking.kind = "fetch" /\ Asking.mine
      BY <2>2 DEF Asking, Posts
    <3>2. SavesOnce(post) /\ ~IsMySave(Asking)
      BY <1>4, <3>1 DEF MineKinds, SavesOnce, IsMySave
    <3> QED BY <1>4, <2>2, <3>1, <3>2, MineAppended
  <2> QED BY <2>1, <2>2 DEF Open
<1>12. FormsFit(form)'
  BY <1>1, <1>5, <1>10 DEF FormsFit
<1>13. user' \in UsersOf(d)
  BY <1>7, <1>8 DEF UsersOf
<1>14. DialogTypes'
  BY <1>1, <1>5, <1>6, <1>7, <1>11, <1>12, <1>13 DEF DialogTypes
<1>15. ListInv'
  BY <1>1, <1>5, <1>7, <1>8, <1>9 DEF ListInv
<1>16. QueueInv'
  BY <1>1, <1>8, <1>11 DEF QueueInv
<1>17. Means(form, held, user)'
  <2>1. ASSUME NEW f \in d.fields, Keeps(user, f)'
        PROVE  ToJson(Of(f)'.codec, form'[f]) = user'.meant[f]
    <3>1. Of(f)'.from = "form" \/ (Of(f)'.from = "row" /\ f \notin stale)
      BY <1>8, <2>1 DEF Keeps
    <3>2. f \notin stale
      BY <1>7, <1>9, <3>1
    <3> QED BY <1>7, <1>8, <1>10, <3>1, <3>2
  <2>2. ASSUME NEW f \in d.fields, Of(f)'.from = "rest"
        PROVE  held'[f] = user'.meant[f] /\ f \notin user'.typed
    <3>1. f \notin stale
      BY <1>7, <1>9, <2>2
    <3> QED BY <1>5, <1>7, <1>8, <3>1
  <2>3. user'.early \subseteq user'.typed
    BY <1>8
  <2> QED BY <1>1, <2>1, <2>2, <2>3 DEF Means
<1> QED BY <1>14, <1>15, <1>16, <1>17 DEF DialogInv, OneOpened

LEMMA CancelStep ==
    ASSUME OneOpened, Cancel PROVE DialogInv'
<1>1. /\ shown' = FALSE /\ busy' = FALSE /\ post' = Closed(post)
      /\ UNCHANGED <<dlg, form, held, linked, items, machine, user, turns>>
      /\ post \in Seq(Posts(dlg))
  BY DEF Cancel, OneOpened, DialogTypes
<1>2. /\ post' \in Seq(Posts(dlg)) /\ MineKinds(post') = {} /\ SavesOnce(post')
  BY <1>1, MineGone
<1>3. DialogTypes'
  BY <1>1, <1>2 DEF OneOpened, DialogTypes, FormsFit, Of, Kind
<1>4. ListInv'
  BY <1>1 DEF OneOpened, ListInv, Of, Kind
<1>5. QueueInv'
  BY <1>1, <1>2 DEF QueueInv
<1> QED BY <1>1, <1>3, <1>4, <1>5 DEF DialogInv, OneOpened

------------------------------------------------------------------------------
(* Typing and saving *)

LEMMA OfFits ==
    ASSUME dlg \in Dialogs
    PROVE  /\ DialogFits(Kind)
           /\ \A f \in dlg.fields : /\ FieldFits(Kind, Of(f)) /\ Of(f).codec \in Codecs
                                    /\ Of(f).from \in Sources /\ CodecOf(dlg, f) = Of(f).codec
BY DialogIs DEF Of, Kind, CodecOf, FieldFits

(* What is sent says what is meant. *)
LEMMA SavingMeans ==
    ASSUME dlg \in Dialogs, NEW fm, NEW object \in RowsOf(dlg), NEW u \in UsersOf(dlg),
           FormsFit(fm), Means(fm, object, u)
    PROVE  /\ Saving(fm, object, u) \in Posts(dlg)
           /\ Saving(fm, object, u).mine /\ Saving(fm, object, u).kind = "save"
<1> DEFINE json == Json(fm, object)
           kept == NotKept(u, fm)
<1>1. \A f \in dlg.fields :
          /\ Of(f).from = "rest" => json[f] = object[f]
          /\ Of(f).from = "dropped" => json[f] = 1
          /\ Of(f).from \notin {"rest", "dropped"} => json[f] = ToJson(Of(f).codec, fm[f])
  BY DEF Json
<1>2. DOMAIN json = dlg.fields /\ json = [f \in DOMAIN json |-> json[f]]
  BY DEF Json
<1>3. kept \in SUBSET dlg.fields
  BY DEF NotKept
<1>4. \A f \in dlg.fields \ kept :
          /\ Of(f).from \notin {"dropped", "filled"}
          /\ Of(f).from = "blank" => f \in u.typed
          /\ Of(f).from = "row" => f \notin u.taken \/ f \in u.typed
          /\ Of(f).from = "fetched" => u.got
          /\ Of(f).codec = "relayNodes" => f \notin u.typed
          /\ f \notin u.early
  BY DEF NotKept
<1> HIDE DEF json, kept
<1>5. \A f \in dlg.fields : json[f] \in Values(CodecOf(dlg, f))
  <2> TAKE f \in dlg.fields
  <2>1. FieldFits(Kind, Of(f)) /\ CodecOf(dlg, f) = Of(f).codec
    BY OfFits
  <2>2. CASE Of(f).from = "rest"
    BY <1>1, <2>2 DEF RowsOf
  <2>3. CASE Of(f).from = "dropped"
    <3>1. Of(f).codec = "plain"
      BY <2>1, <2>3 DEF FieldFits
    <3> QED BY <1>1, <2>1, <2>3, <3>1 DEF Values
  <2>4. CASE Of(f).from \notin {"rest", "dropped"}
    BY <1>1, <2>1, <2>4 DEF FormsFit, FormOK
  <2> QED BY <2>2, <2>3, <2>4
<1>6. json \in RowsOf(dlg)
  BY <1>2, <1>5, RowsFrom
<1>7. \A f \in dlg.fields \ kept : json[f] = u.meant[f]
  <2> TAKE f \in dlg.fields \ kept
  <2>1. Of(f).from \in Sources
    BY OfFits
  <2>2. CASE Of(f).from = "rest"
    BY <1>1, <2>2 DEF Means
  <2>3. CASE Of(f).from # "rest"
    <3>1. Keeps(u, f)
      BY <1>4, <2>1, <2>3 DEF Keeps, Sources
    <3>2. json[f] = ToJson(Of(f).codec, fm[f])
      BY <1>1, <1>4, <2>3
    <3> QED BY <3>1, <3>2 DEF Means
  <2> QED BY <2>2, <2>3
<1>8. Saving(fm, object, u) = [kind |-> "save", mine |-> TRUE, data |-> json, meant |-> u.meant,
                               excused |-> kept, answer |-> "none"]
  BY DEF Saving, json, kept
<1>9. u.meant \in RowsOf(dlg)
  BY DEF UsersOf
<1> QED BY <1>3, <1>6, <1>7, <1>8, <1>9 DEF Posts

LEMMA FetchingIs == Fetching <=> MineKinds(post) \cap {"fetch", "clear"} # {}
BY DEF Fetching, MineKinds

(* A change of one field. *)
LEMMA TypingKeeps ==
    ASSUME OneOpened, shown, NEW f \in dlg.fields, Of(f).from \notin {"rest", "dropped"},
           NEW v \in Values(Of(f).codec), Typing(f, v)
    PROVE  /\ UNCHANGED <<dlg, shown, linked, machine>>
           /\ held' \in RowsOf(dlg) /\ items' \in RowsOf(dlg) /\ user' \in UsersOf(dlg)
           /\ FormsFit(form)' /\ ListInv' /\ Means(form, held, user)'
           /\ FormsFit(form') /\ Means(form', held', user')
           /\ Kind.fetch = "all" /\ MineKinds(post) \cap {"fetch", "clear"} # {} =>
                 user'.typed \subseteq user'.early
<1>1. /\ dlg \in Dialogs /\ held \in RowsOf(dlg) /\ items \in RowsOf(dlg) /\ user \in UsersOf(dlg)
      /\ FormsFit(form) /\ Means(form, held, user) /\ ListInv
      /\ UNCHANGED <<dlg, shown, linked, machine>>
  BY DEF OneOpened, DialogTypes, Typing
<1>2. v \in Values(CodecOf(dlg, f)) /\ Of(f).codec \in Codecs
  BY <1>1, OfFits
<1> DEFINE early == IF Fetching /\ Kind.fetch = "all" THEN user.early \union {f} ELSE user.early \ {f}
           stale == IF Of(f).from = "row" /\ linked THEN user.stale \union {f} ELSE user.stale
           meant == [user.meant EXCEPT ![f] = v]
<1>3. user' = [user EXCEPT !.meant = meant, !.typed = user.typed \union {f},
                           !.early = early, !.stale = stale]
  BY <1>1 DEF Typing, UsersOf
<1>4. /\ meant \in RowsOf(dlg) /\ meant[f] = v
      /\ \A g \in dlg.fields : g # f => meant[g] = user.meant[g]
  BY <1>1, <1>2, RowChanged DEF UsersOf
<1>5. early \in SUBSET dlg.fields /\ early \subseteq user.typed \union {f}
      /\ \A g \in dlg.fields : g # f => (g \in early <=> g \in user.early)
  BY <1>1 DEF UsersOf, Means
<1>6. stale \in SUBSET dlg.fields /\ user.stale \subseteq stale
      /\ \A g \in stale : Of(g).from = "row"
  BY <1>1 DEF UsersOf, ListInv
<1>7. Kind.fetch = "all" /\ Fetching => early = user.early \union {f}
  OBVIOUS
<1>8. f \notin stale => Of(f).from # "row" \/ ~linked
  OBVIOUS
<1> HIDE DEF early, stale, meant
<1>9. /\ user'.meant = meant /\ user'.typed = user.typed \union {f} /\ user'.early = early
      /\ user'.stale = stale /\ user'.known = user.known /\ user'.taken = user.taken
      /\ user'.got = user.got
  BY <1>1, <1>3 DEF UsersOf
<1>10. user' \in UsersOf(dlg)
  BY <1>1, <1>3, <1>4, <1>5, <1>6 DEF UsersOf
<1>11. /\ held' \in RowsOf(dlg)
       /\ \A g \in dlg.fields : Of(g).from = "rest" => held'[g] = held[g]
  BY <1>1, <1>2, RowChanged DEF Typing
<1>12. /\ items' \in RowsOf(dlg)
       /\ \A g \in dlg.fields \ stale : items'[g] = items[g]
  BY <1>1, <1>2, <1>8, RowChanged DEF Typing
<1>13. /\ DOMAIN form' = dlg.fields /\ form'[f] = Typed(Of(f).codec, form[f], v)
       /\ \A g \in dlg.fields : g # f => form'[g] = form[g]
  BY <1>1 DEF Typing, FormsFit
<1>14. /\ FormOK(Of(f).codec, form'[f])
       /\ Of(f).codec # "relayNodes" => ToJson(Of(f).codec, form'[f]) = v
  BY <1>1, <1>2, <1>13, FormTyped DEF FormsFit
<1>15. FormsFit(form')
  BY <1>1, <1>13, <1>14 DEF FormsFit
<1>16. Means(form', held', user')
  <2>1. ASSUME NEW g \in dlg.fields, Keeps(user', g)
        PROVE  ToJson(Of(g).codec, form'[g]) = user'.meant[g]
    <3>1. CASE g = f
      BY <1>4, <1>9, <1>14, <2>1, <3>1 DEF Keeps
    <3>2. CASE g # f
      <4>1. Keeps(user, g)
        BY <1>5, <1>9, <2>1, <3>2 DEF Keeps
      <4> QED BY <1>1, <1>4, <1>9, <1>13, <3>2, <4>1 DEF Means
    <3> QED BY <3>1, <3>2
  <2>2. ASSUME NEW g \in dlg.fields, Of(g).from = "rest"
        PROVE  held'[g] = user'.meant[g] /\ g \notin user'.typed
    <3>1. g # f
      BY <2>2
    <3> QED BY <1>1, <1>4, <1>9, <1>11, <2>2, <3>1 DEF Means
  <2> QED BY <1>5, <1>9, <2>1, <2>2 DEF Means
<1>17. FormsFit(form)' /\ Means(form, held, user)'
  BY <1>1, <1>15, <1>16 DEF FormsFit, Means, Keeps, Of, Kind
<1>18. ListInv'
  <2>1. \A g \in user'.stale : Of(g)'.from = "row"
    BY <1>1, <1>6, <1>9 DEF Of, Kind
  <2>2. \A g \in dlg.fields \ user'.stale : items'[g] = user'.known[g]
    BY <1>1, <1>6, <1>9, <1>12 DEF ListInv
  <2> QED BY <1>1, <2>1, <2>2 DEF ListInv
<1>19. Kind.fetch = "all" /\ MineKinds(post) \cap {"fetch", "clear"} # {} =>
           user'.typed \subseteq user'.early
  BY <1>7, <1>9, FetchingIs DEF OneOpened, QueueInv
<1> QED BY <1>1, <1>10, <1>11, <1>12, <1>15, <1>16, <1>17, <1>18, <1>19

LEMMA TypeStep1 ==
    ASSUME OneOpened, NEW f \in dlg.fields, NEW v \in Values(Of(f).codec), Type(f, v)
    PROVE  DialogInv'
<1>1. shown /\ Of(f).from \notin {"rest", "dropped"} /\ Typing(f, v) /\ UNCHANGED <<post, busy>>
  BY DEF Type, Typable
<1>2. /\ UNCHANGED <<dlg, shown, linked, machine>>
      /\ held' \in RowsOf(dlg) /\ items' \in RowsOf(dlg) /\ user' \in UsersOf(dlg)
      /\ FormsFit(form)' /\ ListInv' /\ Means(form, held, user)'
      /\ Kind.fetch = "all" /\ MineKinds(post) \cap {"fetch", "clear"} # {} =>
            user'.typed \subseteq user'.early
  BY <1>1, TypingKeeps
<1>3. DialogTypes'
  BY <1>1, <1>2 DEF OneOpened, DialogTypes
<1>4. QueueInv'
  BY <1>1, <1>2 DEF OneOpened, QueueInv, Kind
<1> QED BY <1>2, <1>3, <1>4 DEF DialogInv, OneOpened

LEMMA EditAtOnceStep ==
    ASSUME OneOpened, NEW f \in dlg.fields, NEW v \in Values(Of(f).codec), EditAtOnce(f, v)
    PROVE  DialogInv'
<1> DEFINE c == Saving(form', held', user')
<1>1. /\ shown /\ Of(f).from \notin {"rest", "dropped"} /\ Typing(f, v) /\ Kind.instant
      /\ post' = Append(post, c) /\ UNCHANGED busy
  BY DEF EditAtOnce, Typable
<1>2. /\ UNCHANGED <<dlg, shown, linked, machine>>
      /\ held' \in RowsOf(dlg) /\ items' \in RowsOf(dlg) /\ user' \in UsersOf(dlg)
      /\ FormsFit(form)' /\ ListInv' /\ Means(form, held, user)'
      /\ FormsFit(form') /\ Means(form', held', user')
      /\ Kind.fetch = "all" /\ MineKinds(post) \cap {"fetch", "clear"} # {} =>
            user'.typed \subseteq user'.early
  BY <1>1, TypingKeeps
<1>3. dlg \in Dialogs /\ post \in Seq(Posts(dlg))
  BY DEF OneOpened, DialogTypes
<1>4. c \in Posts(dlg) /\ c.mine /\ c.kind = "save"
  BY <1>2, <1>3, SavingMeans
<1> HIDE DEF c
<1>5. post' \in Seq(Posts(dlg)) /\ MineKinds(post') = MineKinds(post) \cup {"save"}
  BY <1>1, <1>3, <1>4, MineAppended
<1>6. DialogTypes'
  BY <1>1, <1>2, <1>5 DEF OneOpened, DialogTypes
<1>7. ~Kind.waits /\ Kind' = Kind
  BY <1>1, <1>2, <1>3, OfFits DEF DialogFits, Kind
<1>8. QueueInv'
  BY <1>1, <1>2, <1>5, <1>7 DEF OneOpened, QueueInv
<1> QED BY <1>2, <1>6, <1>8 DEF DialogInv, OneOpened

LEMMA SaveStep ==
    ASSUME OneOpened, handleSave PROVE DialogInv'
<1> DEFINE c == Saving(form, held, user)
<1>1. /\ shown /\ ~busy /\ post' = Append(post, c) /\ busy' = Kind.waits
      /\ UNCHANGED <<dlg, shown, form, held, linked, items, machine, user>>
  BY DEF handleSave
<1>2. /\ dlg \in Dialogs /\ post \in Seq(Posts(dlg)) /\ Means(form, held, user) /\ FormsFit(form)
      /\ held \in RowsOf(dlg) /\ user \in UsersOf(dlg)
  BY <1>1 DEF OneOpened, DialogTypes
<1>3. c \in Posts(dlg) /\ c.mine /\ c.kind = "save"
  BY <1>2, SavingMeans
<1> HIDE DEF c
<1>4. /\ post' \in Seq(Posts(dlg)) /\ MineKinds(post') = MineKinds(post) \cup {"save"}
      /\ SavesOnce(post) /\ "save" \notin MineKinds(post) => SavesOnce(post')
  BY <1>1, <1>2, <1>3, MineAppended
<1>5. Kind.waits \in BOOLEAN /\ Kind' = Kind
  BY <1>1, <1>2, OfFits DEF DialogFits, Kind
<1>6. DialogTypes'
  BY <1>1, <1>4, <1>5 DEF OneOpened, DialogTypes, FormsFit, Of, Kind
<1>7. ListInv' /\ Means(form, held, user)'
  BY <1>1, <1>2 DEF OneOpened, ListInv, Means, Keeps, Of, Kind
<1>8. QueueInv'
  BY <1>1, <1>4, <1>5 DEF OneOpened, QueueInv
<1> QED BY <1>6, <1>7, <1>8 DEF DialogInv, OneOpened

LEMMA ClearStep ==
    ASSUME OneOpened, handleClear PROVE DialogInv'
<1> DEFINE c == [Asking EXCEPT !.kind = "clear"]
<1>1. /\ shown /\ dlg.of = "TuntapLease" /\ post' = Append(post, c)
      /\ user' = [user EXCEPT !.early = user.early \union user.typed]
      /\ UNCHANGED <<dlg, shown, form, held, linked, items, machine, busy>>
  BY DEF handleClear
<1>2. /\ dlg \in Dialogs /\ post \in Seq(Posts(dlg)) /\ Means(form, held, user)
      /\ user \in UsersOf(dlg)
  BY <1>1 DEF OneOpened, DialogTypes
<1>3. Kind.fetch = "all"
  BY <1>1, <1>2, DialogIs DEF Kind
<1>4. c \in Posts(dlg) /\ c.mine /\ c.kind = "clear"
  BY <1>3 DEF Asking, Posts, Kind
<1> HIDE DEF c
<1>5. /\ post' \in Seq(Posts(dlg)) /\ MineKinds(post') = MineKinds(post) \cup {"clear"}
      /\ SavesOnce(post) => SavesOnce(post')
  BY <1>1, <1>2, <1>4, MineAppended DEF IsMySave
<1>6. /\ user' \in UsersOf(dlg) /\ user'.typed = user.typed /\ user'.meant = user.meant
      /\ user'.early = user.typed /\ user'.got = user.got /\ user'.taken = user.taken
      /\ user'.stale = user.stale /\ user'.known = user.known
  BY <1>1, <1>2 DEF UsersOf, Means
<1>7. DialogTypes'
  BY <1>1, <1>5, <1>6 DEF OneOpened, DialogTypes, FormsFit, Of, Kind
<1>8. ListInv'
  BY <1>1, <1>6 DEF OneOpened, ListInv, Of, Kind
<1>9. Means(form, held, user)'
  BY <1>1, <1>2, <1>6 DEF Means, Keeps, Of, Kind
<1>10. QueueInv'
  BY <1>1, <1>5, <1>6 DEF OneOpened, QueueInv, Kind
<1> QED BY <1>7, <1>8, <1>9, <1>10 DEF DialogInv, OneOpened

------------------------------------------------------------------------------
(* The machine, and the answers *)

LEMMA ServeDialogStep ==
    ASSUME OneOpened, ServeDialog PROVE DialogInv'
<1>1. PICK i \in DOMAIN post :
        \/ /\ Served(post[i])
           /\ post' = [post EXCEPT ![i].answer = "ok",
                                   ![i].data = IF post[i].kind = "fetch" THEN machine ELSE @]
        \/ /\ post' = [post EXCEPT ![i].answer =
                          IF Kind.refuses /\ post[i].kind = "save" THEN "refused" ELSE "error"]
           /\ UNCHANGED machine
  BY DEF ServeDialog
<1>2. UNCHANGED <<dlg, shown, form, held, linked, items, busy, user>>
  BY DEF ServeDialog
<1>3. dlg \in Dialogs /\ post \in Seq(Posts(dlg)) /\ machine \in RowsOf(dlg)
  BY DEF OneOpened, DialogTypes
<1>4. post[i] \in Posts(dlg)
  BY <1>3, LenProperties, ElementOfSeq
<1>5. PICK c \in Posts(dlg) :
         post' = [post EXCEPT ![i] = c] /\ c.kind = post[i].kind /\ c.mine = post[i].mine
  <2>1. CASE post' = [post EXCEPT ![i].answer = "ok",
                                  ![i].data = IF post[i].kind = "fetch" THEN machine ELSE @]
    <3> DEFINE c == [post[i] EXCEPT !.answer = "ok",
                                    !.data = IF post[i].kind = "fetch" THEN machine ELSE @]
    <3>1. post' = [post EXCEPT ![i] = c]
      BY <2>1
    <3>2. c \in Posts(dlg) /\ c.kind = post[i].kind /\ c.mine = post[i].mine
      BY <1>3, <1>4 DEF Posts
    <3> QED BY <3>1, <3>2
  <2>2. ASSUME NEW failure \in {"refused", "error"}, post' = [post EXCEPT ![i].answer = failure]
        PROVE  \E c \in Posts(dlg) :
                  post' = [post EXCEPT ![i] = c] /\ c.kind = post[i].kind /\ c.mine = post[i].mine
    <3> DEFINE c == [post[i] EXCEPT !.answer = failure]
    <3>1. post' = [post EXCEPT ![i] = c]
      BY <2>2
    <3>2. c \in Posts(dlg) /\ c.kind = post[i].kind /\ c.mine = post[i].mine
      BY <1>4, <2>2 DEF Posts
    <3> QED BY <3>1, <3>2
  <2> QED BY <1>1, <2>1, <2>2
<1>6. machine' \in RowsOf(dlg)
  <2>1. CASE Served(post[i])
    <3>1. CASE post[i].kind = "save"
      BY <1>4, <2>1, <3>1 DEF Served, Posts
    <3>2. CASE post[i].kind = "clear"
      <4> DEFINE m == [f \in dlg.fields |-> 1]
      <4>1. machine' = m
        BY <2>1, <3>2 DEF Served
      <4>2. Kind.fetch = "all"
        BY <1>4, <3>2 DEF Posts, Kind
      <4>3. \A f \in dlg.fields : m[f] \in Values(CodecOf(dlg, f))
        <5> TAKE f \in dlg.fields
        <5>1. Of(f).codec = "plain" /\ CodecOf(dlg, f) = Of(f).codec
          BY <1>3, <4>2, OfFits DEF FieldFits
        <5> QED BY <5>1 DEF Values
      <4>4. DOMAIN m = dlg.fields /\ m = [f \in DOMAIN m |-> m[f]]
        OBVIOUS
      <4> HIDE DEF m
      <4> QED BY <1>3, <4>1, <4>3, <4>4, RowsFrom
    <3>3. CASE post[i].kind = "fetch"
      BY <1>3, <2>1, <3>3 DEF Served
    <3> QED BY <1>4, <3>1, <3>2, <3>3 DEF Posts
  <2> QED BY <1>1, <1>3, <2>1
<1>7. /\ post' \in Seq(Posts(dlg)) /\ MineKinds(post') = MineKinds(post)
      /\ SavesOnce(post) => SavesOnce(post')
  <2> DEFINE S == Posts(dlg)
             q == [post EXCEPT ![i] = c]
  <2>1. post \in Seq(S) /\ i \in DOMAIN post /\ c \in S
    BY <1>3
  <2>2. c.kind = post[i].kind /\ c.mine = post[i].mine /\ post' = q
    BY <1>5
  <2> HIDE DEF S
  <2>3. q \in Seq(S) /\ MineKinds(q) = MineKinds(post) /\ (SavesOnce(post) => SavesOnce(q))
    BY <2>1, <2>2, MineAnswered
  <2>4. post' \in Seq(S) /\ MineKinds(post') = MineKinds(post)
    BY <2>2, <2>3
  <2>5. SavesOnce(post) => SavesOnce(post')
    BY <2>2, <2>3
  <2> QED BY <2>4, <2>5 DEF S
<1>8. DialogTypes'
  BY <1>2, <1>6, <1>7 DEF OneOpened, DialogTypes, FormsFit, Of, Kind
<1>9. ListInv' /\ (shown' => Means(form, held, user)')
  BY <1>2 DEF OneOpened, ListInv, Means, Keeps, Of, Kind
<1>10. QueueInv'
  BY <1>2, <1>7 DEF OneOpened, QueueInv, Kind
<1> QED BY <1>8, <1>9, <1>10 DEF DialogInv, OneOpened

(* What was asked for is put into the form; what was typed since was early. *)
LEMMA FillKeeps ==
    ASSUME OneOpened, shown, NEW m \in Posts(dlg), m.kind = "fetch", m.answer = "ok",
           "fetch" \in MineKinds(post), Fill(m), UNCHANGED <<dlg, held>>
    PROVE  /\ FormsFit(form)' /\ user' \in UsersOf(dlg) /\ Means(form, held, user)'
           /\ user'.typed = user.typed /\ user'.early = user.early /\ user'.stale = user.stale
           /\ user'.known = user.known
<1>1. /\ dlg \in Dialogs /\ user \in UsersOf(dlg) /\ FormsFit(form) /\ Means(form, held, user)
      /\ m.data \in RowsOf(dlg) /\ Kind.fetch # "none"
  BY DEF OneOpened, DialogTypes, Posts, Kind
<1>2. Kind.fetch = "all" \/ Kind.fetch = "empty"
  BY <1>1, OfFits DEF DialogFits
<1> DEFINE meant == IF Kind.fetch = "all"
                    THEN [f \in dlg.fields |-> IF f \in user.typed THEN user.meant[f] ELSE m.data[f]]
                    ELSE user.meant
<1>3. user' = [user EXCEPT !.got = TRUE, !.meant = meant]
  BY <1>1 DEF Fill, UsersOf
<1>4. meant \in RowsOf(dlg)
  <2>1. CASE Kind.fetch = "all"
    <3>1. DOMAIN meant = dlg.fields /\ meant = [f \in DOMAIN meant |-> meant[f]]
      BY <2>1
    <3>2. \A f \in dlg.fields : meant[f] \in Values(CodecOf(dlg, f))
      BY <1>1, <2>1 DEF UsersOf, RowsOf
    <3> HIDE DEF meant
    <3> QED BY <1>1, <3>1, <3>2, RowsFrom
  <2>2. CASE Kind.fetch # "all"
    BY <1>1, <2>2 DEF UsersOf
  <2> QED BY <2>1, <2>2
<1>5. /\ Kind.fetch = "all" =>
           \A f \in dlg.fields : meant[f] = IF f \in user.typed THEN user.meant[f] ELSE m.data[f]
      /\ Kind.fetch = "empty" => meant = user.meant
  OBVIOUS
<1> HIDE DEF meant
<1>6. /\ user' \in UsersOf(dlg) /\ user'.meant = meant /\ user'.typed = user.typed
      /\ user'.early = user.early /\ user'.got = TRUE /\ user'.taken = user.taken
      /\ user'.stale = user.stale /\ user'.known = user.known
  BY <1>1, <1>3, <1>4 DEF UsersOf
<1>7. /\ DOMAIN form' = dlg.fields
      /\ Kind.fetch = "all" => \A f \in dlg.fields : form'[f] = Shows1st(Of(f).codec, m.data[f])
      /\ Kind.fetch = "empty" => \A f \in dlg.fields : form'[f] = FillEmpty(form[f], Of(f).codec)
  BY DEF Fill
<1>8. CASE Kind.fetch = "all"
  <2>1. user.typed \subseteq user.early
    BY <1>8 DEF OneOpened, QueueInv
  <2>2. \A f \in dlg.fields : /\ FormOK(Of(f).codec, form'[f])
                              /\ ToJson(Of(f).codec, form'[f]) = m.data[f]
    <3> TAKE f \in dlg.fields
    <3>1. m.data[f] \in Values(Of(f).codec) /\ Of(f).codec \in Codecs
      BY <1>1, OfFits DEF RowsOf
    <3> QED BY <1>7, <1>8, <3>1, FormShows
  <2>3. \A f \in dlg.fields : Of(f).from = "fetched"
    BY <1>1, <1>8, OfFits DEF FieldFits
  <2>4. FormsFit(form)'
    BY <1>7, <2>2 DEF FormsFit, Of, Kind
  <2>5. Means(form, held, user)'
    <3>1. user'.early \subseteq user'.typed
      BY <1>1, <1>6 DEF Means
    <3>2. ASSUME NEW f \in dlg.fields, Keeps(user, f)'
          PROVE  ToJson(Of(f).codec, form'[f]) = user'.meant[f]
      <4>1. f \notin user.typed
        BY <1>6, <2>1, <3>2 DEF Keeps
      <4> QED BY <1>5, <1>6, <1>8, <2>2, <4>1
    <3>3. \A f \in dlg.fields : Of(f).from # "rest"
      BY <2>3
    <3> QED BY <3>1, <3>2, <3>3 DEF Means, Of, Kind
  <2> QED BY <1>6, <2>4, <2>5
<1>9. CASE Kind.fetch = "empty"
  <2>1. \A f \in dlg.fields : /\ FormOK(Of(f).codec, form'[f])
                              /\ ToJson(Of(f).codec, form'[f]) = ToJson(Of(f).codec, form[f])
    <3> TAKE f \in dlg.fields
    <3>1. Of(f).codec = "slots" /\ FormOK("slots", form[f])
      BY <1>1, <1>9, OfFits DEF FieldFits, FormsFit
    <3>2. \E v : v \in Values("slots")
      BY <3>1 DEF FormOK
    <3> QED BY <1>7, <1>9, <3>1, <3>2, SlotsMean
  <2>2. \A f \in dlg.fields : Of(f).from # "fetched"
    BY <1>1, <1>9, OfFits DEF FieldFits
  <2>3. FormsFit(form)'
    BY <1>7, <2>1 DEF FormsFit, Of, Kind
  <2>4. Means(form, held, user)'
    <3>1. user'.early \subseteq user'.typed
      BY <1>1, <1>6 DEF Means
    <3>2. ASSUME NEW f \in dlg.fields, Keeps(user, f)'
          PROVE  ToJson(Of(f).codec, form'[f]) = user'.meant[f]
      <4>1. Keeps(user, f)
        BY <1>6, <2>2, <3>2 DEF Keeps, Of, Kind
      <4> QED BY <1>1, <1>5, <1>6, <1>9, <2>1, <4>1 DEF Means
    <3>3. \A f \in dlg.fields : Of(f).from = "rest" =>
             held'[f] = user'.meant[f] /\ f \notin user'.typed
      BY <1>1, <1>5, <1>6, <1>9 DEF Means
    <3> QED BY <3>1, <3>2, <3>3 DEF Means, Of, Kind
  <2> QED BY <1>6, <2>3, <2>4
<1> QED BY <1>2, <1>8, <1>9

(* An answer arrives.  Only that of a save that was made closes the dialog, and
   if its button waits no other save is under way. *)
LEMMA DeliverStep ==
    ASSUME OneOpened, DeliverDialog
    PROVE  /\ DialogInv'
           /\ shown /\ ~shown' => /\ IsMySave(Head(post)) /\ Head(post).answer = "ok"
                                  /\ Kind.waits => "save" \notin MineKinds(Tail(post))
<1> DEFINE m == Head(post)
           rest == Tail(post)
<1>1. /\ post # <<>> /\ post \in Seq(Posts(dlg)) /\ dlg \in Dialogs
      /\ UNCHANGED <<dlg, held, linked, items, machine>>
  BY DEF DeliverDialog, OneOpened, DialogTypes
<1>2. /\ m \in Posts(dlg) /\ rest \in Seq(Posts(dlg))
      /\ MineKinds(post) = MineKinds(rest) \cup (IF m.mine THEN {m.kind} ELSE {})
      /\ SavesOnce(post) => /\ SavesOnce(rest)
                            /\ IsMySave(m) => "save" \notin MineKinds(rest)
  BY <1>1, MineLess
<1>3. /\ ~m.mine => post' = rest /\ UNCHANGED <<form, user, shown, busy>>
      /\ m.mine /\ m.kind = "save" => /\ Saved(m)
                                      /\ post' = IF shown' THEN rest ELSE Closed(rest)
                                      /\ UNCHANGED <<form, user>>
      /\ m.mine /\ m.kind = "fetch" => /\ IF m.answer = "ok" THEN Fill(m) ELSE UNCHANGED <<form, user>>
                                       /\ post' = rest
                                       /\ UNCHANGED <<shown, busy>>
      /\ m.mine /\ m.kind = "clear" => /\ post' = IF m.answer = "ok" THEN Append(rest, Asking) ELSE rest
                                       /\ UNCHANGED <<form, user, shown, busy>>
  BY <1>2 DEF DeliverDialog, Posts
<1>4. m.kind \in {"save", "fetch", "clear"} /\ m.mine \in BOOLEAN
  BY <1>2 DEF Posts
<1>5. m.mine => shown
  BY <1>2 DEF OneOpened, QueueInv, DialogTypes
<1> HIDE DEF m, rest
<1>6. ASSUME UNCHANGED <<form, user>> PROVE FormsFit(form)' /\ user' \in UsersOf(dlg) /\ ListInv'
  BY <1>1, <1>6 DEF OneOpened, DialogTypes, FormsFit, ListInv, Of, Kind
<1>7. ASSUME UNCHANGED <<form, user>>, shown PROVE Means(form, held, user)'
  BY <1>1, <1>7 DEF OneOpened, Means, Keeps, Of, Kind
<1>8. Kind' = Kind
  BY <1>1 DEF Kind
<1>9. CASE ~m.mine
  <2>1. post' = rest /\ UNCHANGED <<form, user, shown, busy>>
    BY <1>3, <1>9
  <2>2. QueueInv'
    BY <1>2, <1>8, <1>9, <2>1 DEF OneOpened, QueueInv
  <2>3. DialogTypes'
    BY <1>1, <1>2, <1>6, <2>1 DEF OneOpened, DialogTypes
  <2> QED BY <1>6, <1>7, <2>1, <2>2, <2>3 DEF DialogInv, OneOpened
<1>10. CASE m.mine /\ m.kind = "save"
  <2>1. /\ shown' = (m.answer # "ok" \/ Kind.stays) /\ busy' = FALSE
        /\ post' = IF shown' THEN rest ELSE Closed(rest)
        /\ UNCHANGED <<form, user>>
    BY <1>3, <1>10 DEF Saved
  <2>2. shown' \in BOOLEAN /\ (~shown' => m.answer = "ok")
    <3>1. Kind.stays \in BOOLEAN
      BY <1>1, OfFits DEF DialogFits
    <3> QED BY <2>1, <3>1
  <2>3. IsMySave(m)
    BY <1>10 DEF IsMySave
  <2>4. Kind.waits => "save" \notin MineKinds(rest)
    BY <1>2, <2>3 DEF OneOpened, QueueInv
  <2>5. /\ Closed(rest) \in Seq(Posts(dlg)) /\ MineKinds(Closed(rest)) = {}
        /\ SavesOnce(Closed(rest))
    BY <1>2, MineGone
  <2>6. /\ post' \in Seq(Posts(dlg)) /\ MineKinds(post') \subseteq MineKinds(rest)
        /\ ~shown' => MineKinds(post') = {}
        /\ SavesOnce(rest) => SavesOnce(post')
    BY <1>2, <2>1, <2>5
  <2>7. QueueInv'
    BY <1>2, <1>8, <2>1, <2>4, <2>6 DEF OneOpened, QueueInv
  <2>8. DialogTypes'
    BY <1>1, <1>6, <2>1, <2>2, <2>6 DEF OneOpened, DialogTypes
  <2>9. DialogInv'
    BY <1>5, <1>6, <1>7, <1>10, <2>1, <2>7, <2>8 DEF DialogInv, OneOpened
  <2> QED BY <2>2, <2>3, <2>4, <2>9 DEF m, rest
<1>11. CASE m.mine /\ m.kind = "fetch"
  <2>1. post' = rest /\ UNCHANGED <<shown, busy>> /\ shown /\ "fetch" \in MineKinds(post)
    BY <1>2, <1>3, <1>5, <1>11
  <2>2. /\ FormsFit(form)' /\ user' \in UsersOf(dlg) /\ Means(form, held, user)'
        /\ user'.typed = user.typed /\ user'.early = user.early /\ user'.stale = user.stale
        /\ user'.known = user.known
    <3>1. CASE m.answer = "ok"
      BY <1>1, <1>2, <1>3, <1>11, <2>1, <3>1, FillKeeps
    <3>2. CASE m.answer # "ok"
      BY <1>3, <1>6, <1>7, <1>11, <2>1, <3>2
    <3> QED BY <3>1, <3>2
  <2>3. QueueInv'
    BY <1>2, <1>8, <1>11, <2>1, <2>2 DEF OneOpened, QueueInv
  <2>4. DialogTypes'
    BY <1>1, <1>2, <2>1, <2>2 DEF OneOpened, DialogTypes
  <2>5. ListInv'
    BY <1>1, <2>2 DEF OneOpened, ListInv, Of, Kind
  <2> QED BY <2>1, <2>2, <2>3, <2>4, <2>5 DEF DialogInv, OneOpened
<1>12. CASE m.mine /\ m.kind = "clear"
  <2>1. /\ post' = IF m.answer = "ok" THEN Append(rest, Asking) ELSE rest
        /\ UNCHANGED <<form, user, shown, busy>> /\ shown
    BY <1>3, <1>5, <1>12
  <2>2. Asking \in Posts(dlg) /\ Asking.kind = "fetch" /\ Asking.mine
    <3>1. Kind.fetch # "none"
      BY <1>2, <1>12 DEF Posts, Kind
    <3> QED BY <3>1 DEF Asking, Posts, Kind
  <2>3. /\ post' \in Seq(Posts(dlg))
        /\ MineKinds(post') \in {MineKinds(rest), MineKinds(rest) \cup {"fetch"}}
        /\ SavesOnce(rest) => SavesOnce(post')
    <3>1. /\ Append(rest, Asking) \in Seq(Posts(dlg))
          /\ MineKinds(Append(rest, Asking)) = MineKinds(rest) \cup {"fetch"}
          /\ SavesOnce(rest) => SavesOnce(Append(rest, Asking))
      BY <1>2, <2>2, MineAppended DEF IsMySave
    <3> QED BY <1>2, <2>1, <3>1
  <2>4. QueueInv'
    BY <1>2, <1>8, <1>12, <2>1, <2>3 DEF OneOpened, QueueInv
  <2>5. DialogTypes'
    BY <1>1, <1>6, <2>1, <2>3 DEF OneOpened, DialogTypes
  <2> QED BY <1>6, <1>7, <2>1, <2>4, <2>5 DEF DialogInv, OneOpened
<1> QED BY <1>4, <1>9, <1>10, <1>11, <1>12

LEMMA PolledStep ==
    ASSUME OneOpened, Polled PROVE DialogInv'
<1>1. /\ items' = machine /\ linked' = FALSE
      /\ user' = [user EXCEPT !.known = machine, !.stale = {}]
      /\ UNCHANGED <<dlg, shown, form, held, machine, post, busy>>
      /\ user \in UsersOf(dlg) /\ machine \in RowsOf(dlg)
  BY DEF Polled, OneOpened, DialogTypes
<1>2. /\ user' \in UsersOf(dlg) /\ user'.typed = user.typed /\ user'.meant = user.meant
      /\ user'.early = user.early /\ user'.got = user.got /\ user'.taken = user.taken
      /\ user'.stale = {} /\ user'.known = machine
  BY <1>1 DEF UsersOf
<1>3. DialogTypes'
  BY <1>1, <1>2 DEF OneOpened, DialogTypes, FormsFit, Of, Kind
<1>4. ListInv'
  BY <1>1, <1>2 DEF ListInv
<1>5. shown' => Means(form, held, user)'
  BY <1>1, <1>2 DEF OneOpened, Means, Keeps, Of, Kind
<1>6. QueueInv'
  BY <1>1, <1>2 DEF OneOpened, QueueInv, Kind
<1> QED BY <1>3, <1>4, <1>5, <1>6 DEF DialogInv, OneOpened

LEMMA ElsewhereDialogStep ==
    ASSUME OneOpened, NEW f \in dlg.fields, NEW v \in Values(Of(f).codec), Elsewhere(f, v)
    PROVE  DialogInv'
<1>1. /\ machine' = [machine EXCEPT ![f] = v] /\ dlg \in Dialogs /\ machine \in RowsOf(dlg)
      /\ UNCHANGED <<dlg, shown, form, held, linked, items, post, busy, user>>
  BY DEF Elsewhere, OneOpened, DialogTypes
<1>2. machine' \in RowsOf(dlg)
  BY <1>1, OfFits, RowChanged
<1>3. DialogTypes'
  BY <1>1, <1>2 DEF OneOpened, DialogTypes, FormsFit, Of, Kind
<1>4. ListInv' /\ (shown' => Means(form, held, user)')
  BY <1>1 DEF OneOpened, ListInv, Means, Keeps, Of, Kind
<1>5. QueueInv'
  BY <1>1 DEF OneOpened, QueueInv, Kind
<1> QED BY <1>3, <1>4, <1>5 DEF DialogInv, OneOpened

------------------------------------------------------------------------------
(* The invariant *)

LEMMA DialogStarts == DialogsInit => DialogInv
BY DEF DialogsInit, DialogInv, NoneOpened

(* Before a dialog is opened nothing else can happen. *)
LEMMA OnlyOpensOne ==
    ASSUME NoneOpened, DialogsNext PROVE \E d \in Dialogs : Open(d)
<1>1. ~shown /\ dlg = NoDialog /\ dlg.fields = {} /\ DOMAIN post = {} /\ post = <<>>
  BY DEF NoneOpened, NoDialog
<1> QED BY <1>1 DEF DialogsNext, Cancel, handleSave, handleClear, ServeDialog, DeliverDialog, Polled

LEMMA DialogStep == DialogInv /\ [DialogsNext]_dialogVars => DialogInv'
<1> SUFFICES ASSUME DialogInv, [DialogsNext]_dialogVars PROVE DialogInv'
  OBVIOUS
<1>1. CASE UNCHANGED dialogVars
  <2>1. CASE NoneOpened
    BY <1>1, <2>1 DEF dialogVars, NoneOpened, DialogInv
  <2>2. CASE OneOpened
    BY <1>1, <2>2 DEF dialogVars, OneOpened, DialogInv, DialogTypes, FormsFit, ListInv, QueueInv,
                      Means, Keeps, Of, Kind
  <2> QED BY <2>1, <2>2 DEF DialogInv
<1>2. CASE NoneOpened /\ DialogsNext
  BY <1>2, OnlyOpensOne, OpenDialogStep
<1>3. CASE OneOpened /\ DialogsNext
  BY <1>3, OpenDialogStep, CancelStep, SaveStep, ClearStep, ServeDialogStep, DeliverStep, PolledStep,
     TypeStep1, EditAtOnceStep, ElsewhereDialogStep DEF DialogsNext
<1> QED BY <1>1, <1>2, <1>3 DEF DialogInv

LEMMA DialogShows == DialogInv => DialogsTypeOK /\ SavesAsMeant /\ TypedStays /\ WaitsForSave
<1> SUFFICES ASSUME DialogInv PROVE DialogsTypeOK /\ SavesAsMeant /\ TypedStays /\ WaitsForSave
  OBVIOUS
<1>1. CASE NoneOpened
  <2>1. dlg.fields = {} /\ DOMAIN post = {}
    BY <1>1 DEF NoneOpened, NoDialog
  <2>2. DialogsTypeOK
    BY <1>1, <2>1 DEF NoneOpened, NewUser, DialogsTypeOK
  <2> QED BY <1>1, <2>1, <2>2 DEF NoneOpened, SavesAsMeant, TypedStays, WaitsForSave
<1>2. CASE OneOpened
  <2>1. DialogTypes /\ dlg \in Dialogs
    BY <1>2 DEF OneOpened, DialogTypes
  <2>2. \A i \in DOMAIN post : post[i] \in Posts(dlg)
    BY <2>1, LenProperties, ElementOfSeq DEF DialogTypes
  <2>3. \A f \in dlg.fields : CodecOf(dlg, f) = Of(f).codec
    BY <2>1, OfFits
  <2>4. DialogsTypeOK
    BY <2>1, <2>2, <2>3 DEF DialogTypes, DialogsTypeOK, RowsOf, UsersOf, Posts
  <2>5. SavesAsMeant
    BY <2>2 DEF SavesAsMeant, Posts
  <2>6. TypedStays
    BY <1>2, <2>1 DEF OneOpened, Means, Keeps, TypedStays, DialogTypes, UsersOf
  <2>7. WaitsForSave
    BY <1>2 DEF OneOpened, QueueInv, MineKinds, Mine, WaitsForSave
  <2> QED BY <2>4, <2>5, <2>6, <2>7
<1> QED BY <1>1, <1>2 DEF DialogInv

LEMMA DialogHolds == DialogsSpec => []DialogInv
BY DialogStarts, DialogStep, PTL DEF DialogsSpec

(* The types of the variables of a dialog. *)
THEOREM DialogsTypeCorrect == DialogsSpec => []DialogsTypeOK
BY DialogHolds, DialogShows, PTL

(* What a dialog sends is, field by field, what the user typed last or, where he
   typed nothing, what the machine was known to have, through every conversion
   and whatever was polled, fetched, cancelled and tried before. *)
THEOREM DialogsSaveAsMeant == DialogsSpec => []SavesAsMeant
BY DialogHolds, DialogShows, PTL

(* What the user typed stays in the form until the dialog is closed, whatever
   the list behind it and the answers bring. *)
THEOREM DialogsKeepText == DialogsSpec => []TypedStays
BY DialogHolds, DialogShows, PTL

(* A button that is disabled by a save has one under way, so it comes back. *)
THEOREM DialogsComeBack == DialogsSpec => []WaitsForSave
BY DialogHolds, DialogShows, PTL

LEMMA CloseStep ==
    ASSUME DialogInv, [DialogsNext]_dialogVars
    PROVE  [shown /\ ~shown' /\ Len(post') < Len(post)
            => /\ Head(post).kind = "save" /\ Head(post).mine /\ Head(post).answer = "ok"
               /\ Kind.waits => \A i \in Mine \ {1} : post[i].kind # "save"]_dialogVars
<1> SUFFICES ASSUME DialogsNext, shown, ~shown', Len(post') < Len(post)
             PROVE  /\ Head(post).kind = "save" /\ Head(post).mine /\ Head(post).answer = "ok"
                    /\ Kind.waits => \A i \in Mine \ {1} : post[i].kind # "save"
  OBVIOUS
<1>1. OneOpened
  BY DEF DialogInv, NoneOpened
<1>2. post \in Seq(Posts(dlg)) /\ Len(post) \in Nat
  BY <1>1, LenProperties DEF OneOpened, DialogTypes
<1>3. ~Cancel
  <2>1. Cancel => Len(post') = Len(post)
    BY <1>2, MineGone DEF Cancel
  <2> QED BY <1>2, <2>1
<1>4. DeliverDialog
  BY <1>3 DEF DialogsNext, Open, handleSave, handleClear, ServeDialog, Polled, Type, EditAtOnce,
              Typing, Elsewhere
<1>5. /\ IsMySave(Head(post)) /\ Head(post).answer = "ok"
      /\ Kind.waits => "save" \notin MineKinds(Tail(post))
  BY <1>1, <1>4, DeliverStep
<1>6. post # <<>>
  BY <1>4 DEF DeliverDialog
<1>7. ASSUME NEW i \in Mine \ {1}, post[i].kind = "save" PROVE "save" \in MineKinds(Tail(post))
  <2>1. /\ DOMAIN post = 1 .. Len(post) /\ DOMAIN Tail(post) = 1 .. Len(post) - 1
        /\ \A j \in 1 .. Len(post) - 1 : Tail(post)[j] = post[j + 1]
    <3>1. Tail(post) \in Seq(Posts(dlg)) /\ Len(Tail(post)) = Len(post) - 1
          /\ \A j \in 1 .. Len(Tail(post)) : Tail(post)[j] = post[j + 1]
      BY <1>2, <1>6, HeadTailProperties
    <3> QED BY <1>2, <3>1, LenProperties
  <2>2. i \in 2 .. Len(post) /\ post[i].mine
    BY <1>2, <1>7, <2>1 DEF Mine
  <2>3. i - 1 \in DOMAIN Tail(post) /\ Tail(post)[i - 1] = post[i]
    BY <1>2, <2>1, <2>2
  <2> QED BY <1>7, <2>2, <2>3 DEF MineKinds
<1> QED BY <1>5, <1>7 DEF IsMySave

(* Only the answer to a save that was made closes a dialog by
   itself, and if its button waits that was the last save. *)
THEOREM DialogsCloseWhenSaved == DialogsSpec => ClosesWhenSaved
BY DialogHolds, CloseStep, PTL DEF DialogsSpec, ClosesWhenSaved

-------------------------------------------------------------------------------
(* Tables *)

RowRecords == [text : Texts, port : Texts, domain : Texts, started : BOOLEAN, edit : BOOLEAN]
Stores == [port : Texts, domain : Texts, started : BOOLEAN, version : Nat]
CallRecords ==
    [kind : {"get", "save", "start", "add", "del"}, row : RowRecords, meant : Texts,
     excused : BOOLEAN, answer : {"none", "ok", "error", "refused"}, of : Stores, asked : Nat]

(* What is under way: a save says what was typed, if it is not excused. *)
Calls == {c \in CallRecords : c.kind = "save" /\ ~c.excused => Shown(c.row) = c.meant}

(* What kinds of requests a queue holds. *)
Kinds(q) == {q[i].kind : i \in DOMAIN q}

RowTypes ==
    /\ grid \in Grids \union {NoGrid} /\ editing \in BOOLEAN /\ spinning \in BOOLEAN
    /\ row \in RowRecords /\ store \in Stores /\ calls \in Seq(Calls)
    /\ ticking \in BOOLEAN /\ loose \in Nat /\ seen \in Nat
    /\ hand \in [at : BOOLEAN, text : Texts, raced : BOOLEAN, saved : BOOLEAN, failed : BOOLEAN]

(* No rows are asked for while a cell is edited, except by tables that follow
   the configuration, which put them aside. *)
NoneAsked == "get" \notin Kinds(calls)

RowInv ==
    /\ RowTypes
    /\ grid = NoGrid => hand = Idle /\ calls = <<>>
    /\ grid # NoGrid /\ This.polls = "never" => NoneAsked
    /\ hand.at => editing /\ ~This.menu
    /\ hand.at /\ ~hand.raced =>
          row.edit /\ row.text = hand.text /\ (This.polls = "always" => NoneAsked)
    /\ ~hand.saved => row.domain = ""
    /\ spinning => Kinds(calls) \ {"get", "del"} # {}

------------------------------------------------------------------------------
(* Tables and queues *)

(* What the tables have in common. *)
LEMMA GridsAre ==
    \A g \in DOMAIN GridOf :
        /\ GridOf[g].polls \in {"always", "config", "never"}
        /\ GridOf[g].names \in BOOLEAN /\ GridOf[g].menu \in BOOLEAN
        /\ GridOf[g].reloads => GridOf[g].polls = "always"
        /\ GridOf[g].polls = "always" => GridOf[g].skips = "request"
        /\ GridOf[g].starts = "row" => ~GridOf[g].names
        /\ g = "GroupMenu" => GridOf[g].menu
        /\ g # NoGrid
<1> TAKE g \in DOMAIN GridOf
<1>1. g \in {"ForwardEdit", "SForwardEdit", "Groups", "GroupMenu", "Transport"}
  BY DEF GridOf
<1>2. CASE g = "ForwardEdit"
  BY <1>2 DEF GridOf, ForwardEdit, Grid, NoGrid
<1>3. CASE g = "SForwardEdit"
  BY <1>3 DEF GridOf, SForwardEdit, Grid, NoGrid
<1>4. CASE g = "Groups"
  BY <1>4 DEF GridOf, Groups, Grid, NoGrid
<1>5. CASE g = "GroupMenu"
  BY <1>5 DEF GridOf, GroupMenu, Grid, NoGrid
<1>6. CASE g = "Transport"
  BY <1>6 DEF GridOf, Transport, Grid, NoGrid
<1> QED BY <1>1, <1>2, <1>3, <1>4, <1>5, <1>6

LEMMA ThisIs ==
    ASSUME grid \in Grids \union {NoGrid}, grid # NoGrid
    PROVE  /\ grid \in DOMAIN GridOf
           /\ This.polls \in {"always", "config", "never"}
           /\ This.names \in BOOLEAN /\ This.menu \in BOOLEAN
           /\ This.reloads => This.polls = "always"
           /\ This.polls = "always" => This.skips = "request"
           /\ This.starts = "row" => ~This.names
           /\ grid = "GroupMenu" => This.menu
<1>1. grid \in DOMAIN GridOf
  BY WebRowsAssumption DEF WebRowsAssumption
<1> QED BY <1>1, GridsAre DEF This

LEMMA NoneAreKinds == Kinds(<<>>) = {}
BY DEF Kinds

LEMMA OneMore ==
    ASSUME NEW q \in Seq(Calls), NEW c \in Calls
    PROVE  Append(q, c) \in Seq(Calls) /\ Kinds(Append(q, c)) = Kinds(q) \cup {c.kind}
<1>1. /\ Append(q, c) \in Seq(Calls) /\ Len(q) \in Nat
      /\ Len(Append(q, c)) = Len(q) + 1
      /\ \A i \in 1 .. Len(q) : Append(q, c)[i] = q[i]
      /\ Append(q, c)[Len(q) + 1] = c
      /\ DOMAIN q = 1 .. Len(q) /\ DOMAIN Append(q, c) = 1 .. Len(q) + 1
  BY AppendProperties, LenProperties
<1>2. Kinds(Append(q, c)) \subseteq Kinds(q) \cup {c.kind}
  BY <1>1 DEF Kinds
<1>3. Kinds(q) \subseteq Kinds(Append(q, c))
  BY <1>1 DEF Kinds
<1>4. c.kind \in Kinds(Append(q, c))
  BY <1>1 DEF Kinds
<1> QED BY <1>1, <1>2, <1>3, <1>4

LEMMA OneLess ==
    ASSUME NEW q \in Seq(Calls), q # <<>>
    PROVE  /\ Head(q) \in Calls /\ Tail(q) \in Seq(Calls)
           /\ Kinds(q) = {Head(q).kind} \cup Kinds(Tail(q))
<1>1. /\ Len(q) \in Nat /\ Len(q) # 0 /\ DOMAIN q = 1 .. Len(q)
      /\ \A i \in 1 .. Len(q) : q[i] \in Calls
  BY LenProperties, ElementOfSeq, EmptySeq
<1>2. /\ Head(q) = q[1] /\ Head(q) \in Calls /\ Tail(q) \in Seq(Calls)
      /\ DOMAIN Tail(q) = 1 .. Len(q) - 1
      /\ \A i \in 1 .. Len(q) - 1 : Tail(q)[i] = q[i + 1]
  BY <1>1, HeadTailProperties, LenProperties
<1>3. Kinds(Tail(q)) \subseteq Kinds(q) /\ Head(q).kind \in Kinds(q)
  BY <1>1, <1>2 DEF Kinds
<1>4. ASSUME NEW i \in DOMAIN q, i # 1 PROVE q[i].kind \in Kinds(Tail(q))
  <2>1. i - 1 \in DOMAIN Tail(q) /\ Tail(q)[i - 1] = q[i]
    BY <1>1, <1>2, <1>4
  <2> QED BY <2>1 DEF Kinds
<1>5. Kinds(q) \subseteq {Head(q).kind} \cup Kinds(Tail(q))
  BY <1>2, <1>4 DEF Kinds
<1> QED BY <1>2, <1>3, <1>5

(* An answer changes nothing else of a request. *)
LEMMA OneAnswered ==
    ASSUME NEW q \in Seq(Calls), NEW i \in DOMAIN q, NEW c \in Calls, c.kind = q[i].kind
    PROVE  [q EXCEPT ![i] = c] \in Seq(Calls) /\ Kinds([q EXCEPT ![i] = c]) = Kinds(q)
<1>1. Len(q) \in Nat /\ DOMAIN q = 1 .. Len(q)
  BY LenProperties
<1>2. DOMAIN [q EXCEPT ![i] = c] = DOMAIN q
  OBVIOUS
<1>3. [q EXCEPT ![i] = c] \in Seq(Calls)
  BY <1>1, ExceptSeq
<1>4. \A j \in DOMAIN q : [q EXCEPT ![i] = c][j].kind = q[j].kind
  OBVIOUS
<1> QED BY <1>2, <1>3, <1>4 DEF Kinds

LEMMA CallIsCall ==
    ASSUME seen \in Nat, NEW kind \in {"get", "start", "add", "del"}
    PROVE  Call(kind) \in Calls /\ Call(kind).kind = kind
BY DEF Call, Calls, CallRecords, RowRecords, Stores, NoText, NoRow, Texts, Ports

(* Rows are asked for, unless a cell is edited. *)
LEMMA Asks ==
    ASSUME seen \in Nat, NEW rest \in Seq(Calls), GetInfo(rest)
    PROVE  /\ calls' \in Seq(Calls) /\ ticking' \in BOOLEAN
           /\ Kinds(calls') \in {Kinds(rest), Kinds(rest) \cup {"get"}}
           /\ editing /\ This.skips = "request" => calls' = rest
<1>1. Call("get") \in Calls /\ Call("get").kind = "get"
  BY CallIsCall
<1> QED BY <1>1, OneMore DEF GetInfo

LEMMA LoadedIsRow == \A r \in Stores : LoadedRow(r) \in RowRecords /\ LoadedRow(r).domain = ""
BY DEF LoadedRow, Stores, RowRecords, Shown, Texts

------------------------------------------------------------------------------
(* The invariant *)

LEMMA RowStarts == RowsInit => RowInv
<1> SUFFICES ASSUME RowsInit PROVE RowInv
  OBVIOUS
<1>1. <<>> \in Seq(Calls) /\ hand.at = FALSE /\ row.domain = ""
  BY EmptySeq DEF RowsInit, Idle, NoText
<1>2. RowTypes
  BY <1>1 DEF RowsInit, RowTypes, Idle, NoRow, NoText, RowRecords, Stores, Texts, Ports
<1> QED BY <1>1, <1>2 DEF RowsInit, RowInv

LEMMA MountStep ==
    ASSUME RowInv, NEW g \in Grids, MountGrid(g) PROVE RowInv'
<1>1. g \in DOMAIN GridOf
  BY WebRowsAssumption DEF WebRowsAssumption
<1>2. store' \in Stores
  BY <1>1, GridsAre DEF MountGrid, Stores, Texts, Ports
<1>3. row' \in RowRecords /\ row'.domain = ""
  BY <1>2, LoadedIsRow DEF MountGrid
<1>4. hand' = Idle /\ ~spinning
  BY NoneAreKinds DEF MountGrid, RowInv
<1>5. [Call("get") EXCEPT !.asked = 1] \in Calls
  BY DEF Call, Calls, CallRecords, RowRecords, Stores, NoText, NoRow, Texts, Ports
<1>6. calls' \in Seq(Calls) /\ (GridOf[g].polls = "never" => calls' = <<>>)
  <2>1. <<>> \in Seq(Calls) /\ <<[Call("get") EXCEPT !.asked = 1]>> \in Seq(Calls)
    BY <1>5, EmptySeq
  <2> QED BY <2>1 DEF MountGrid
<1>7. RowTypes'
  BY <1>2, <1>3, <1>6 DEF MountGrid, RowTypes, RowInv
<1>8. g # NoGrid
  BY <1>1, GridsAre
<1>10. grid' = g /\ spinning' = spinning /\ This' = GridOf[g]
  BY DEF MountGrid, This
<1>11. hand'.at = FALSE
  BY <1>4 DEF Idle
<1>9. GridOf[g].polls = "never" => NoneAsked'
  BY <1>6, NoneAreKinds DEF NoneAsked
<1> QED BY <1>3, <1>4, <1>7, <1>8, <1>9, <1>10, <1>11 DEF RowInv

(* The machine answers a request. *)
LEMMA ServeStep ==
    ASSUME RowInv, ServeRow PROVE RowInv'
<1>1. PICK i \in DOMAIN calls :
        \/ /\ CASE calls[i].kind = "save" -> Stored(calls[i].row)
                [] calls[i].kind = "start" -> Stored([store EXCEPT !.started = ~@])
                [] calls[i].kind \in {"get", "add", "del"} -> UNCHANGED store
           /\ calls' = [calls EXCEPT ![i].answer = "ok",
                             ![i].of = IF calls[i].kind = "get" THEN store ELSE NoRow]
        \/ /\ \E failure \in Failures(calls[i]) :
                 calls' = [calls EXCEPT ![i].answer = failure]
           /\ UNCHANGED store
  BY DEF ServeRow
<1>2. UNCHANGED <<grid, row, editing, spinning, ticking, loose, seen, hand>>
  BY DEF ServeRow
<1>3. calls \in Seq(Calls) /\ calls[i] \in Calls /\ calls[i].of \in Stores
  <2>1. calls \in Seq(Calls)
    BY DEF RowInv, RowTypes
  <2>2. calls[i] \in Calls
    BY <2>1, LenProperties, ElementOfSeq
  <2> QED BY <2>1, <2>2 DEF Calls, CallRecords
<1>4. NoRow \in Stores
  BY DEF NoRow, Stores, Texts
<1>5. \E answer \in {"ok", "error", "refused"}, of \in Stores :
          calls' = [calls EXCEPT ![i] = [calls[i] EXCEPT !.answer = answer, !.of = of]]
  <2>1. calls[i] = [calls[i] EXCEPT !.of = calls[i].of]
    BY <1>3 DEF Calls, CallRecords
  <2>2. CASE calls' = [calls EXCEPT ![i].answer = "ok",
                             ![i].of = IF calls[i].kind = "get" THEN store ELSE NoRow]
    BY <1>4, <2>2 DEF RowInv, RowTypes
  <2>3. ASSUME NEW failure \in Failures(calls[i]), calls' = [calls EXCEPT ![i].answer = failure]
        PROVE  \E answer \in {"ok", "error", "refused"}, of \in Stores :
                  calls' = [calls EXCEPT ![i] = [calls[i] EXCEPT !.answer = answer, !.of = of]]
    <3>1. failure \in {"error", "refused"}
      BY <2>3 DEF Failures
    <3>2. [calls[i] EXCEPT !.answer = failure] = [calls[i] EXCEPT !.answer = failure, !.of = calls[i].of]
      BY <1>3 DEF Calls, CallRecords
    <3>3. calls' = [calls EXCEPT ![i] = [calls[i] EXCEPT !.answer = failure]]
      BY <2>3
    <3> QED BY <1>3, <3>1, <3>2, <3>3
  <2> QED BY <1>1, <2>2, <2>3
<1>6. calls' \in Seq(Calls) /\ Kinds(calls') = Kinds(calls)
  <2>1. PICK answer \in {"ok", "error", "refused"}, of \in Stores :
          calls' = [calls EXCEPT ![i] = [calls[i] EXCEPT !.answer = answer, !.of = of]]
    BY <1>5
  <2> DEFINE c == [calls[i] EXCEPT !.answer = answer, !.of = of]
  <2>2. c \in Calls /\ c.kind = calls[i].kind
    BY <1>3 DEF Calls, CallRecords
  <2>3. calls' = [calls EXCEPT ![i] = c]
    BY <2>1
  <2> HIDE DEF c
  <2> QED BY <1>3, <2>2, <2>3, OneAnswered
<1>7. store' \in Stores
  <2>1. calls[i].row \in RowRecords
    BY <1>3 DEF Calls, CallRecords
  <2>2. store \in Stores
    BY DEF RowInv, RowTypes
  <2>3. \/ UNCHANGED store
        \/ Stored(calls[i].row) \/ Stored([store EXCEPT !.started = ~@])
    BY <1>1, <1>3 DEF Calls, CallRecords
  <2>4. IF This.polls = "config" THEN store.version + 1 \in Nat ELSE 1 \in Nat
    BY <2>2 DEF Stores
  <2>5. CASE Stored(calls[i].row)
    BY <2>1, <2>4, <2>5 DEF Stored, Stores, RowRecords
  <2>6. CASE Stored([store EXCEPT !.started = ~@])
    BY <2>2, <2>4, <2>6 DEF Stored, Stores
  <2> QED BY <2>2, <2>3, <2>5, <2>6
<1>8. grid # NoGrid
  <2>1. DOMAIN calls # {}
    OBVIOUS
  <2>2. DOMAIN <<>> = {}
    OBVIOUS
  <2> QED BY <2>1, <2>2 DEF RowInv
<1>9. RowTypes' /\ This' = This /\ (NoneAsked => NoneAsked')
  BY <1>2, <1>6, <1>7 DEF RowInv, RowTypes, This, NoneAsked
<1> QED BY <1>2, <1>6, <1>8, <1>9 DEF RowInv

(* The answers. *)

(* What stays when only the queue and the timers change. *)
LEMMA QueueMoves ==
    ASSUME RowInv, UNCHANGED <<grid, row, editing, spinning, seen, store, hand>>,
           calls' \in Seq(Calls), ticking' \in BOOLEAN, loose' \in Nat,
           Kinds(calls') \in {Kinds(calls), Kinds(calls) \cup {"get"}},
           grid # NoGrid,
           Kinds(calls') # Kinds(calls) => This.polls # "never" /\ (This.polls = "always" => ~editing)
    PROVE  RowInv'
<1>1. RowTypes' /\ This' = This
  BY DEF RowInv, RowTypes, This
<1>2. Kinds(calls) \ {"get", "del"} # {} => Kinds(calls') \ {"get", "del"} # {}
  OBVIOUS
<1>3. NoneAsked /\ Kinds(calls') = Kinds(calls) => NoneAsked'
  BY DEF NoneAsked
<1> QED BY <1>1, <1>2, <1>3 DEF RowInv

LEMMA TimerStep ==
    ASSUME RowInv, grid # NoGrid, Timer PROVE RowInv'
<1>1. calls \in Seq(Calls) /\ seen \in Nat /\ loose \in Nat /\ grid \in Grids \union {NoGrid}
  BY DEF RowInv, RowTypes
<1>2. GetInfo(calls) /\ This.polls # "never" /\ loose' \in {loose, loose - 1}
      /\ (loose' = loose - 1 => loose' = loose \/ loose > 0)
      /\ UNCHANGED <<grid, row, editing, spinning, seen, store, hand>>
  BY DEF Timer
<1>3. loose' \in Nat
  BY <1>1, <1>2
<1>4. /\ calls' \in Seq(Calls) /\ ticking' \in BOOLEAN
      /\ Kinds(calls') \in {Kinds(calls), Kinds(calls) \cup {"get"}}
      /\ editing /\ This.skips = "request" => calls' = calls
  BY <1>1, <1>2, Asks
<1>5. This.polls = "always" => This.skips = "request"
  BY <1>1, ThisIs
<1> QED BY <1>2, <1>3, <1>4, <1>5, QueueMoves

LEMMA RefreshStep ==
    ASSUME RowInv, handleRefresh PROVE RowInv'
<1>1. calls \in Seq(Calls) /\ seen \in Nat /\ loose \in Nat /\ grid \in Grids \union {NoGrid}
  BY DEF RowInv, RowTypes
<1>2. GetInfo(calls) /\ This.polls = "always" /\ grid # NoGrid
      /\ UNCHANGED <<grid, row, editing, spinning, loose, seen, store, hand>>
  BY DEF handleRefresh, Move
<1>4. /\ calls' \in Seq(Calls) /\ ticking' \in BOOLEAN
      /\ Kinds(calls') \in {Kinds(calls), Kinds(calls) \cup {"get"}}
      /\ editing /\ This.skips = "request" => calls' = calls
  BY <1>1, <1>2, Asks
<1>5. This.polls = "always" => This.skips = "request"
  BY <1>1, <1>2, ThisIs
<1> QED BY <1>1, <1>2, <1>4, <1>5, QueueMoves

(* The first request of the queue is answered. *)
LEMMA AnswerStep ==
    ASSUME RowInv, AnsweredRow PROVE RowInv'
<1> DEFINE m == Head(calls)
           rest == Tail(calls)
<1>1. /\ RowTypes /\ calls \in Seq(Calls) /\ calls # <<>> /\ UNCHANGED <<grid, store>>
      /\ grid # NoGrid
  BY DEF RowInv, RowTypes, AnsweredRow
<1>2. m \in Calls /\ rest \in Seq(Calls) /\ Kinds(calls) = {m.kind} \cup Kinds(rest)
  BY <1>1, OneLess
<1>3. /\ m.kind = "get" /\ This.polls # "config" => GotInfo(m, rest) /\ UNCHANGED spinning
      /\ m.kind = "get" /\ This.polls = "config" => GotConfig(m, rest) /\ UNCHANGED spinning
      /\ m.kind # "get" => \/ grid = "GroupMenu" /\ GroupChanged(m, rest)
                           \/ SaveDone(m, rest)
  BY <1>2 DEF AnsweredRow, Calls, CallRecords
<1> HIDE DEF m, rest
<1>4. This' = This /\ m.of \in Stores /\ m.kind \in {"get", "save", "start", "add", "del"}
  BY <1>1, <1>2 DEF This, Calls, CallRecords
<1>5. LoadedRow(m.of) \in RowRecords /\ LoadedRow(m.of).domain = ""
  BY <1>4, LoadedIsRow
<1>6. "get" \notin Kinds(calls) => "get" \notin Kinds(rest) /\ m.kind # "get"
  BY <1>2
<1>7. ASSUME ArmRow PROVE ticking' \in BOOLEAN /\ loose' \in Nat
  BY <1>1, <1>7 DEF ArmRow, RowTypes
<1>8. CASE m.kind = "get" /\ This.polls # "config"
  <2>1. /\ calls' = rest
        /\ IF m.answer = "ok" THEN row' = LoadedRow(m.of) /\ hand' = [hand EXCEPT !.saved = FALSE]
                              ELSE UNCHANGED <<row, hand>>
        /\ UNCHANGED <<seen, editing, spinning>>
        /\ ArmRow \/ UNCHANGED <<ticking, loose>>
    BY <1>3, <1>8 DEF GotInfo
  <2>2. RowTypes'
    BY <1>1, <1>2, <1>5, <1>7, <2>1 DEF RowTypes
  <2>3. This.polls = "always" /\ (hand.at => hand.raced)
    <3>1. This.polls \in {"always", "config", "never"}
      BY <1>1, ThisIs DEF RowTypes
    <3>2. ~NoneAsked
      BY <1>2, <1>8 DEF NoneAsked
    <3> QED BY <1>1, <1>8, <3>1, <3>2 DEF RowInv
  <2>4. hand'.at = hand.at /\ hand'.raced = hand.raced /\ (~hand'.saved => row'.domain = "")
    BY <1>1, <1>5, <2>1 DEF RowTypes, RowInv
  <2>5. spinning' => Kinds(calls') \ {"get", "del"} # {}
    BY <1>2, <1>8, <2>1 DEF RowInv
  <2> QED BY <1>1, <1>4, <2>1, <2>2, <2>3, <2>4, <2>5 DEF RowInv
<1>9. CASE m.kind = "get" /\ This.polls = "config"
  <2>1. /\ calls' = rest /\ seen' \in {seen, m.of.version}
        /\ \/ UNCHANGED <<row, hand>>
           \/ ~row.edit /\ row' = LoadedRow(m.of) /\ hand' = [hand EXCEPT !.saved = FALSE]
        /\ UNCHANGED <<editing, spinning>>
        /\ ArmRow
    BY <1>3, <1>9 DEF GotConfig
  <2>2. RowTypes'
    BY <1>1, <1>2, <1>4, <1>5, <1>7, <2>1 DEF RowTypes, Stores
  <2>3. hand'.at = hand.at /\ hand'.raced = hand.raced /\ (~hand'.saved => row'.domain = "")
        /\ hand'.text = hand.text
    BY <1>1, <1>5, <2>1 DEF RowTypes, RowInv
  <2>4. hand'.at /\ ~hand'.raced => row'.edit /\ row'.text = hand'.text
    BY <2>1, <2>3 DEF RowInv
  <2>5. spinning' => Kinds(calls') \ {"get", "del"} # {}
    BY <1>2, <1>9, <2>1 DEF RowInv
  <2> QED BY <1>1, <1>4, <1>9, <2>1, <2>2, <2>3, <2>4, <2>5 DEF RowInv
<1>10. CASE m.kind # "get" /\ SaveDone(m, rest)
  <2>1. /\ spinning' = (spinning /\ m.kind = "del" /\ grid = "ForwardEdit")
        /\ hand' = [hand EXCEPT !.failed = @ \/ m.answer # "ok"]
        /\ UNCHANGED <<row, editing, seen, loose>>
        /\ \/ This.reloads /\ GetInfo(rest)
           \/ calls' = rest /\ UNCHANGED ticking
    BY <1>10 DEF SaveDone
  <2>2. /\ calls' \in Seq(Calls) /\ ticking' \in BOOLEAN
        /\ Kinds(calls') \in {Kinds(rest), Kinds(rest) \cup {"get"}}
        /\ \/ This.reloads /\ (editing /\ This.skips = "request" => calls' = rest)
           \/ calls' = rest
    BY <1>1, <1>2, <2>1, Asks DEF RowTypes
  <2>3. RowTypes'
    BY <1>1, <2>1, <2>2 DEF RowTypes
  <2>4. This.reloads => This.polls = "always" /\ This.skips = "request"
    BY <1>1, ThisIs DEF RowTypes
  <2>5. /\ NoneAsked /\ editing => NoneAsked'
        /\ NoneAsked /\ This.polls = "never" => NoneAsked'
    BY <1>6, <2>2, <2>4 DEF NoneAsked
  <2>6. spinning' => Kinds(calls') \ {"get", "del"} # {}
    BY <1>2, <2>1, <2>2 DEF RowInv
  <2>7. hand'.at = hand.at /\ hand'.raced = hand.raced /\ hand'.saved = hand.saved
        /\ hand'.text = hand.text
    BY <1>1, <2>1 DEF RowTypes
  <2> QED BY <1>1, <1>4, <2>1, <2>3, <2>5, <2>6, <2>7 DEF RowInv
<1>11. CASE grid = "GroupMenu" /\ GroupChanged(m, rest)
  <2>1. /\ row' = LoadedRow(store) /\ seen' = store.version
        /\ calls' = <<>> /\ ticking' = TRUE /\ loose' = 0
        /\ spinning' = FALSE /\ editing' = FALSE /\ hand' = Idle
    BY <1>11 DEF GroupChanged
  <2>2. row' \in RowRecords /\ row'.domain = "" /\ seen' \in Nat
    BY <1>1, <2>1, LoadedIsRow DEF RowTypes, Stores
  <2>3. calls' \in Seq(Calls) /\ Kinds(calls') = {}
    BY <2>1, EmptySeq, NoneAreKinds
  <2>4. hand' \in [at : BOOLEAN, text : Texts, raced : BOOLEAN, saved : BOOLEAN, failed : BOOLEAN]
        /\ ~hand'.at
    BY <2>1 DEF Idle, Texts
  <2>5. RowTypes'
    BY <1>1, <2>1, <2>2, <2>3, <2>4 DEF RowTypes
  <2> QED BY <1>1, <2>1, <2>2, <2>3, <2>4, <2>5 DEF RowInv, NoneAsked
<1> QED BY <1>3, <1>8, <1>9, <1>10, <1>11

------------------------------------------------------------------------------
(* The user *)

LEMMA EditStep ==
    ASSUME RowInv, handleEdit PROVE RowInv'
<1>1. /\ RowTypes /\ grid # NoGrid /\ ~This.menu /\ This' = This
      /\ UNCHANGED <<grid, spinning, calls, ticking, loose, seen, store>>
      /\ row' = [row EXCEPT !.edit = TRUE] /\ editing' = TRUE
  BY DEF RowInv, handleEdit, Move, This
<1>2. hand' = [hand EXCEPT !.at = TRUE, !.text = row.text,
                  !.raced = (hand.raced /\ hand.at) \/ (This.polls = "always" /\ Polling # {})]
  BY DEF handleEdit
<1>3. Polling = {} => NoneAsked
  BY DEF Polling, NoneAsked, Kinds
<1>4. row' \in RowRecords /\ row'.edit /\ row'.text = row.text /\ row'.domain = row.domain
  BY <1>1 DEF RowTypes, RowRecords
<1>5. /\ hand' \in [at : BOOLEAN, text : Texts, raced : BOOLEAN, saved : BOOLEAN, failed : BOOLEAN]
      /\ hand'.at /\ hand'.text = row.text /\ hand'.saved = hand.saved
      /\ ~hand'.raced /\ This.polls = "always" => NoneAsked
  <2>1. row.text \in Texts
    BY <1>1 DEF RowTypes, RowRecords
  <2> DEFINE raced == (hand.raced /\ hand.at) \/ (This.polls = "always" /\ Polling # {})
  <2>2. raced \in BOOLEAN /\ (~raced /\ This.polls = "always" => NoneAsked)
    BY <1>1, <1>3 DEF RowTypes
  <2>3. hand' = [hand EXCEPT !.at = TRUE, !.text = row.text, !.raced = raced]
    BY <1>2
  <2> HIDE DEF raced
  <2> QED BY <1>1, <2>1, <2>2, <2>3 DEF RowTypes
<1>6. RowTypes'
  BY <1>1, <1>4, <1>5 DEF RowTypes
<1>7. NoneAsked' <=> NoneAsked
  BY <1>1 DEF NoneAsked
<1> QED BY <1>1, <1>4, <1>5, <1>6, <1>7 DEF RowInv

LEMMA TypeTextStep ==
    ASSUME RowInv, NEW t \in Texts, TypeText(t) PROVE RowInv'
<1>1. /\ RowTypes /\ grid # NoGrid /\ This' = This /\ row.edit
      /\ UNCHANGED <<grid, editing, spinning, calls, ticking, loose, seen, store>>
      /\ row' = [row EXCEPT !.text = t] /\ hand' = [hand EXCEPT !.text = t]
  BY DEF RowInv, TypeText, Move, This
<1>2. row' \in RowRecords /\ row'.edit /\ row'.text = t /\ row'.domain = row.domain
  BY <1>1 DEF RowTypes, RowRecords
<1>3. /\ hand' \in [at : BOOLEAN, text : Texts, raced : BOOLEAN, saved : BOOLEAN, failed : BOOLEAN]
      /\ hand'.at = hand.at /\ hand'.text = t /\ hand'.saved = hand.saved /\ hand'.raced = hand.raced
  BY <1>1 DEF RowTypes
<1>4. RowTypes' /\ (NoneAsked' <=> NoneAsked)
  BY <1>1, <1>2, <1>3 DEF RowTypes, NoneAsked
<1> QED BY <1>1, <1>2, <1>3, <1>4 DEF RowInv

LEMMA SpinsOrNot == ASSUME NEW r, NEW text, saveRow(r, text) PROVE spinning' \in BOOLEAN
<1>1. spinning' = TRUE \/ spinning' = FALSE
  BY DEF saveRow
<1> QED BY <1>1

(* A row is sent, with the text that Shown tells again. *)
LEMMA RowSent ==
    ASSUME RowInv, NEW r \in RowRecords, r.domain = row.domain, saveRow(r, r.text),
           grid # NoGrid, This.names => r.text # "" \/ hand.saved
    PROVE  /\ row' \in RowRecords /\ row'.text = r.text /\ row'.edit = r.edit
           /\ calls' \in Seq(Calls) /\ Kinds(calls') = Kinds(calls) \cup {"save"}
           /\ spinning' \in BOOLEAN
<1>1. row' = SavedRow(r) /\ r.text \in Texts /\ This.names \in BOOLEAN
  BY ThisIs DEF saveRow, RowRecords, RowInv, RowTypes
<1>2. row' \in RowRecords /\ row'.text = r.text /\ row'.edit = r.edit
  BY <1>1 DEF SavedRow, RowRecords
<1>3. ~hand.saved => Shown(row') = r.text
  <2>1. ~hand.saved => r.domain = ""
    BY DEF RowInv
  <2>2. CASE This.names /\ r.text \notin Ports
    <3>1. row'.domain = r.text
      BY <1>1, <2>2 DEF SavedRow, RowRecords
    <3> QED BY <2>2, <3>1 DEF Shown
  <2>3. CASE ~(This.names /\ r.text \notin Ports)
    <3>1. row'.domain = r.domain /\ row'.port = r.text
      BY <1>1, <2>3 DEF SavedRow, RowRecords
    <3> QED BY <2>1, <3>1 DEF Shown
  <2> QED BY <2>2, <2>3
<1> DEFINE c == Sending("save", r.text)
<1>4. /\ c.kind = "save" /\ c.meant = r.text /\ c.row = row' /\ c.excused = hand.saved
      /\ c \in CallRecords
  <2>1. seen \in Nat /\ hand.saved \in BOOLEAN
    BY DEF RowInv, RowTypes
  <2> QED BY <1>1, <1>2, <2>1 DEF Sending, Call, CallRecords, Stores, NoRow, NoText, Texts
<1>5. c \in Calls
  BY <1>3, <1>4 DEF Calls
<1>6. calls' = Append(calls, c) /\ calls \in Seq(Calls)
  BY DEF saveRow, RowInv, RowTypes
<1>7. spinning' \in BOOLEAN
  BY SpinsOrNot
<1> HIDE DEF c
<1> QED BY <1>2, <1>4, <1>5, <1>6, <1>7, OneMore

(* What a row that was sent keeps of the invariant. *)
LEMMA SentKeeps ==
    ASSUME RowInv, grid # NoGrid, row' \in RowRecords, calls' \in Seq(Calls),
           Kinds(calls') = Kinds(calls) \cup {"save"}, spinning' \in BOOLEAN,
           UNCHANGED <<grid, ticking, loose, seen, store>>, editing' \in BOOLEAN,
           hand' \in [at : BOOLEAN, text : Texts, raced : BOOLEAN, saved : BOOLEAN,
                      failed : BOOLEAN],
           hand'.saved,
           hand'.at => /\ editing' /\ ~This.menu
                       /\ hand'.raced \/ (row'.edit /\ row'.text = hand'.text
                                          /\ (This.polls = "always" => NoneAsked))
    PROVE  RowInv'
<1>1. RowTypes' /\ This' = This
  BY DEF RowInv, RowTypes, This
<1>2. NoneAsked' <=> NoneAsked
  BY DEF NoneAsked
<1>3. "save" \in Kinds(calls')
  OBVIOUS
<1>4. "save" \in Kinds(calls') \ {"get", "del"}
  BY <1>3
<1> QED BY <1>1, <1>2, <1>4 DEF RowInv

LEMMA BlurStep ==
    ASSUME RowInv, handleEditBlur PROVE RowInv'
<1> DEFINE r == [row EXCEPT !.edit = FALSE]
<1>1. /\ RowTypes /\ grid # NoGrid /\ This' = This /\ editing' = FALSE
      /\ UNCHANGED <<grid, ticking, loose, seen, store>>
  BY DEF RowInv, handleEditBlur, Move, This
<1>2. r \in RowRecords /\ r.text = row.text /\ r.domain = row.domain
  BY <1>1 DEF RowTypes, RowRecords
<1>3. CASE row' = r /\ hand' = [hand EXCEPT !.at = FALSE] /\ UNCHANGED <<calls, spinning>>
  <2>1. /\ hand' \in [at : BOOLEAN, text : Texts, raced : BOOLEAN, saved : BOOLEAN, failed : BOOLEAN]
        /\ ~hand'.at /\ hand'.saved = hand.saved
    BY <1>1, <1>3 DEF RowTypes
  <2>2. RowTypes' /\ (NoneAsked' <=> NoneAsked)
    BY <1>1, <1>2, <1>3, <2>1 DEF RowTypes, NoneAsked
  <2> QED BY <1>1, <1>2, <1>3, <2>1, <2>2 DEF RowInv
<1>4. CASE /\ This.names => row.text # ""
           /\ saveRow(r, row.text)
           /\ hand' = [hand EXCEPT !.at = FALSE, !.saved = TRUE]
  <2>1. /\ hand' \in [at : BOOLEAN, text : Texts, raced : BOOLEAN, saved : BOOLEAN, failed : BOOLEAN]
        /\ ~hand'.at /\ hand'.saved
    BY <1>1, <1>4 DEF RowTypes
  <2> HIDE DEF r
  <2>2. /\ row' \in RowRecords /\ calls' \in Seq(Calls) /\ spinning' \in BOOLEAN
        /\ Kinds(calls') = Kinds(calls) \cup {"save"}
    BY <1>1, <1>2, <1>4, RowSent
  <2> QED BY <1>1, <2>1, <2>2, SentKeeps
<1> QED BY <1>3, <1>4 DEF handleEditBlur

LEMMA GroupChangeStep ==
    ASSUME RowInv, NEW t \in Texts, handleGroupChange(t) PROVE RowInv'
<1> DEFINE r == [row EXCEPT !.text = t]
<1>1. /\ RowTypes /\ grid # NoGrid /\ This.menu /\ saveRow(r, t) /\ t \in Ports
      /\ hand' = [hand EXCEPT !.saved = TRUE]
      /\ UNCHANGED <<grid, editing, ticking, loose, seen, store>>
  BY DEF RowInv, handleGroupChange, Move
<1>2. r \in RowRecords /\ r.text = t /\ r.domain = row.domain /\ t # ""
  BY <1>1 DEF RowTypes, RowRecords, Ports
<1>3. /\ hand' \in [at : BOOLEAN, text : Texts, raced : BOOLEAN, saved : BOOLEAN, failed : BOOLEAN]
      /\ ~hand'.at /\ hand'.saved
  BY <1>1 DEF RowTypes, RowInv
<1> HIDE DEF r
<1>4. /\ row' \in RowRecords /\ calls' \in Seq(Calls) /\ spinning' \in BOOLEAN
      /\ Kinds(calls') = Kinds(calls) \cup {"save"}
  BY <1>1, <1>2, RowSent
<1>5. editing' \in BOOLEAN
  BY <1>1 DEF RowTypes
<1> QED BY <1>1, <1>3, <1>4, <1>5, SentKeeps

LEMMA StartStep ==
    ASSUME RowInv, handleStartChange PROVE RowInv'
<1> DEFINE r == [row EXCEPT !.started = ~@]
<1>1. /\ RowTypes /\ grid # NoGrid /\ grid \in Grids \cup {NoGrid}
      /\ UNCHANGED <<grid, editing, ticking, loose, seen, store>>
  BY DEF RowInv, RowTypes, handleStartChange, Move
<1>2. CASE /\ This.starts = "row" /\ saveRow(r, row.text) /\ hand' = [hand EXCEPT !.saved = TRUE]
  <2>1. r \in RowRecords /\ r.text = row.text /\ r.domain = row.domain /\ r.edit = row.edit
    BY <1>1 DEF RowTypes, RowRecords
  <2>2. /\ hand' \in [at : BOOLEAN, text : Texts, raced : BOOLEAN, saved : BOOLEAN, failed : BOOLEAN]
        /\ hand'.at = hand.at /\ hand'.raced = hand.raced /\ hand'.text = hand.text /\ hand'.saved
    BY <1>1, <1>2 DEF RowTypes
  <2> HIDE DEF r
  <2>3. ~This.names
    BY <1>1, <1>2, ThisIs
  <2>4. /\ row' \in RowRecords /\ calls' \in Seq(Calls) /\ spinning' \in BOOLEAN
        /\ Kinds(calls') = Kinds(calls) \cup {"save"}
        /\ row'.text = row.text /\ row'.edit = row.edit
    BY <1>1, <1>2, <2>1, <2>3, RowSent
  <2>5. /\ editing' \in BOOLEAN
        /\ hand.at => /\ editing /\ ~This.menu
                      /\ hand.raced \/ (row.edit /\ row.text = hand.text
                                        /\ (This.polls = "always" => NoneAsked))
    BY <1>1 DEF RowTypes, RowInv
  <2> QED BY <1>1, <2>2, <2>4, <2>5, SentKeeps
<1>3. CASE UNCHANGED <<row, hand>> /\ calls' = Append(calls, Call("start")) /\ spinning' = TRUE
  <2>1. calls' \in Seq(Calls) /\ Kinds(calls') = Kinds(calls) \cup {"start"}
    BY <1>1, <1>3, CallIsCall, OneMore DEF RowTypes
  <2>2. RowTypes' /\ This' = This /\ (NoneAsked' <=> NoneAsked)
    BY <1>1, <1>3, <2>1 DEF RowTypes, This, NoneAsked
  <2> QED BY <1>1, <1>3, <2>1, <2>2 DEF RowInv
<1> QED BY <1>2, <1>3 DEF handleStartChange

LEMMA OtherRowStep ==
    ASSUME RowInv, handleAdd \/ handleDel PROVE RowInv'
<1>1. PICK kind \in {"add", "del"} :
         /\ calls' = Append(calls, Call(kind))
         /\ spinning' \in {spinning, TRUE} /\ (spinning' = spinning \/ kind = "add")
  BY DEF handleAdd, handleDel
<1>2. /\ RowTypes /\ grid # NoGrid
      /\ UNCHANGED <<grid, row, editing, ticking, loose, seen, store, hand>>
  BY DEF RowInv, handleAdd, handleDel, Move
<1>3. calls' \in Seq(Calls) /\ Kinds(calls') = Kinds(calls) \cup {kind}
  BY <1>1, <1>2, CallIsCall, OneMore DEF RowTypes
<1>4. RowTypes' /\ This' = This /\ (NoneAsked' <=> NoneAsked)
  BY <1>1, <1>2, <1>3 DEF RowTypes, This, NoneAsked
<1>5. spinning' => Kinds(calls') \ {"get", "del"} # {}
  BY <1>1, <1>3 DEF RowInv
<1> QED BY <1>2, <1>4, <1>5 DEF RowInv

LEMMA ElsewhereStep ==
    ASSUME RowInv, ChangedElsewhere PROVE RowInv'
<1>1. /\ RowTypes /\ grid # NoGrid
      /\ UNCHANGED <<grid, row, editing, spinning, calls, ticking, loose, seen, hand>>
  BY DEF RowInv, ChangedElsewhere
<1>2. store' \in Stores
  <2>1. PICK s \in Stores : Stored(s)
    <3>1. \A p \in Ports : [store EXCEPT !.port = p, !.domain = ""] \in Stores
      BY <1>1 DEF RowTypes, Stores, Texts
    <3>2. [store EXCEPT !.started = ~@] \in Stores
      BY <1>1 DEF RowTypes, Stores
    <3>3. "80" \in Ports
      BY DEF Ports
    <3> QED BY <3>1, <3>2, <3>3 DEF ChangedElsewhere
  <2>2. store.version + 1 \in Nat
    BY <1>1 DEF RowTypes, Stores
  <2> QED BY <2>1, <2>2 DEF Stored, Stores
<1>3. RowTypes' /\ This' = This /\ (NoneAsked' <=> NoneAsked)
  BY <1>1, <1>2 DEF RowTypes, This, NoneAsked
<1> QED BY <1>1, <1>3 DEF RowInv

LEMMA RowStep == RowInv /\ [RowsNext]_rowVars => RowInv'
<1> SUFFICES ASSUME RowInv, [RowsNext]_rowVars PROVE RowInv'
  OBVIOUS
<1>1. CASE UNCHANGED rowVars
  BY <1>1 DEF rowVars, RowInv, RowTypes, This, NoneAsked
<1>2. CASE RowsNext
  BY <1>2, MountStep, ServeStep, AnswerStep, ElsewhereStep, EditStep, BlurStep, StartStep,
     RefreshStep, OtherRowStep, TypeTextStep, GroupChangeStep, TimerStep DEF RowsNext
<1> QED BY <1>1, <1>2

LEMMA RowShows == RowInv => RowsTypeOK /\ InputStays /\ SavedAsTyped /\ SpinsForAnswer
<1> SUFFICES ASSUME RowInv PROVE RowsTypeOK /\ InputStays /\ SavedAsTyped /\ SpinsForAnswer
  OBVIOUS
<1>1. RowsTypeOK
  BY DEF RowInv, RowTypes, RowsTypeOK, RowRecords, Stores
<1>2. InputStays
  BY DEF RowInv, InputStays
<1>3. SavedAsTyped
  <2>1. \A i \in DOMAIN calls : calls[i] \in Calls
    BY LenProperties, ElementOfSeq DEF RowInv, RowTypes
  <2> QED BY <2>1 DEF SavedAsTyped, Calls
<1>4. SpinsForAnswer
  BY DEF RowInv, SpinsForAnswer, Kinds
<1> QED BY <1>1, <1>2, <1>3, <1>4

LEMMA RowHolds == RowsSpec => []RowInv
BY RowStarts, RowStep, PTL DEF RowsSpec

(* The types of the variables of a table. *)
THEOREM RowsTypeCorrect == RowsSpec => []RowsTypeOK
BY RowHolds, RowShows, PTL

(* What the user types into a cell stays there until he leaves it, whatever is
   polled, saved, added or deleted meanwhile, but for a poll that was under way
   when he began. *)
THEOREM CellsKeepText == RowsSpec => []InputStays
BY RowHolds, RowShows, PTL

(* A row that is saved is sent as what was typed into it, a port as a port and
   a name as a name. *)
THEOREM RowsSaveAsTyped == RowsSpec => []SavedAsTyped
BY RowHolds, RowShows, PTL

(* The button of a row spins only while an answer is to come. *)
THEOREM RowsSpinForAnswer == RowsSpec => []SpinsForAnswer
BY RowHolds, RowShows, PTL

-------------------------------------------------------------------------------
(* The installation *)

Forms == {"common", "server", "client"}
Words == {"", "a", "b", "c"}
Sheets == UNION {[Fields1[p] -> Words] : p \in DOMAIN Fields1}
Entered == {e \in [Forms -> Sheets] : \A p \in Forms : e[p] \in [Fields1[p] -> Words]}
Targets == [installed : BOOLEAN, modes : SUBSET Roles,
            client : [name : Words, host1 : Words],
            server : [port : Words, anonymous : Words]]

(* What the user read in the forms before step s is what is entered there, as
   far as its roles are chosen; and some role is chosen. *)
ReadUpTo(s, e, agreed) ==
    /\ s > 1 => agreed["common"] = e["common"] /\ Given(e) # {}
    /\ \A i \in 1 .. (s - 1) : Steps[i] \in Given(e) => agreed[Steps[i]] = e[Steps[i]]

(* A wizard at a step whose form it shows. *)
Wizards ==
    {w \in [pc : BOOLEAN, show : BOOLEAN, step : 1 .. 4, json : Entered, sheet : Sheets,
            config : Targets, agreed : Entered] :
        /\ w.sheet \in [Fields1[Steps[w.step]] -> Words]
        /\ Steps[w.step] \in Roles => Steps[w.step] \in Given(w.json)
        /\ ReadUpTo(w.step, w.json, w.agreed)}

(* A request to install was sent from the last step. *)
Questions ==
    {q \in [kind : {"install", "import"}, json : Entered, agreed : Entered, waits : BOOLEAN] :
        q.kind = "install" => ReadUpTo(4, q.json, q.agreed)}

(* No page was opened. *)
NothingYet == setup = NoPage /\ asks = <<>> /\ origin = NotYet /\ target = NoMachine

InstallInv ==
    /\ \/ NothingYet
       \/ setup \in Wizards /\ target \in Targets
    /\ asks \in Seq(Questions)
    /\ InstalledAsAgreed
    /\ entries \in [user : 0 .. MaxEntries, slips : 0 .. MaxSlips]

------------------------------------------------------------------------------
(* Forms *)

LEMMA StepsAre ==
    /\ Steps[1] = "common" /\ Steps[2] = "server" /\ Steps[3] = "client" /\ Steps[4] = "finish"
    /\ DOMAIN Steps = 1 .. 4
BY DEF Steps

LEMMA FieldsAre ==
    /\ Fields1["common"] = Roles /\ Fields1["server"] = {"port", "anonymous"}
    /\ Fields1["client"] = {"name", "hasServer", "host1"} /\ Fields1["finish"] = {}
    /\ DOMAIN Fields1 = Forms \cup {"finish"}
BY DEF Fields1, Forms

LEMMA GivenAre == \A e : Given(e) = {r \in Roles : e["common"][r] # ""}
BY DEF Given, On

LEMMA BlankIsEntered == Blank \in Entered
<1>1. \A p \in Forms : Blank[p] \in [Fields1[p] -> Words]
  BY DEF Blank, Forms, Words
<1>2. \A p \in Forms : p \in DOMAIN Fields1
  BY FieldsAre
<1>3. Blank \in [Forms -> Sheets]
  BY <1>1, <1>2 DEF Sheets, Blank, Forms
<1> QED BY <1>1, <1>3 DEF Entered

LEMMA EnteredAgain ==
    ASSUME NEW e \in Entered, NEW p \in Forms, NEW sheet \in [Fields1[p] -> Words]
    PROVE  [e EXCEPT ![p] = sheet] \in Entered
<1>1. sheet \in Sheets
  BY FieldsAre DEF Sheets
<1> QED BY <1>1 DEF Entered

(* The form of a step holds a text for each of its fields. *)
LEMMA FormIsSheet ==
    ASSUME NEW p \in DOMAIN Fields1, NEW e \in Entered, NEW config \in Targets
    PROVE  Form1(p, e, config) \in [Fields1[p] -> Words] /\ Form1(p, e, config) \in Sheets
<1>1. ASSUME NEW f \in Fields1[p]
      PROVE  Or(IF p = "finish" THEN "" ELSE e[p][f], Default1(p, f, config)) \in Words
  <2>1. CASE p = "finish"
    BY <1>1, <2>1, FieldsAre
  <2>2. CASE p \in Forms
    <3>1. e[p][f] \in Words /\ p # "finish"
      BY <2>2 DEF Entered, Forms
    <3>2. CASE p = "common"
      <4>1. f \in Roles
        BY <3>2, FieldsAre
      <4>2. Default1(p, f, config) \in Words
        BY <4>1 DEF Default1, Roles, Words
      <4> QED BY <3>1, <4>2 DEF Or
    <3>3. CASE p = "server"
      <4>1. f \in {"port", "anonymous"}
        BY <3>3, FieldsAre
      <4>2. config["server"][f] \in Words
        BY <4>1 DEF Targets
      <4>3. Default1(p, f, config) \in Words
        BY <3>3, <4>1, <4>2 DEF Default1, Words
      <4> QED BY <3>1, <4>3 DEF Or
    <3>4. CASE p = "client"
      <4>1. f \in {"name", "hasServer", "host1"}
        BY <3>4, FieldsAre
      <4>2. f # "hasServer" => config["client"][f] \in Words
        BY <4>1 DEF Targets
      <4>3. Default1(p, f, config) \in Words
        BY <3>4, <4>1, <4>2 DEF Default1, Words
      <4> QED BY <3>1, <4>3 DEF Or
    <3> QED BY <2>2, <3>2, <3>3, <3>4 DEF Forms
  <2> QED BY <2>1, <2>2, FieldsAre
<1>2. Form1(p, e, config) \in [Fields1[p] -> Words]
  BY <1>1 DEF Form1
<1> QED BY <1>2 DEF Sheets

LEMMA OpenedIsWizard ==
    ASSUME NEW computer \in BOOLEAN, NEW t \in Targets
    PROVE  Opened(computer, t) \in Wizards
<1>1. /\ Form1("common", Blank, t) \in [Fields1["common"] -> Words]
      /\ Form1("common", Blank, t) \in Sheets
  <2>1. "common" \in DOMAIN Fields1
    BY FieldsAre DEF Forms
  <2> QED BY <2>1, BlankIsEntered, FormIsSheet
<1>2. ReadUpTo(1, Blank, Blank)
  BY DEF ReadUpTo
<1>3. "common" \notin Roles
  BY DEF Roles
<1>4. (~t.installed) \in BOOLEAN
  BY DEF Targets
<1> QED BY <1>1, <1>2, <1>3, <1>4, StepsAre, BlankIsEntered DEF Opened, Wizards

(* A step that is reached and whose role, if it has one, is chosen. *)
LEMMA StepIsWizard ==
    ASSUME setup \in Wizards, NEW e \in Entered, NEW agreed \in Entered,
           NEW s, NEW increment, NEW t \in 1 .. 4, t = Arrived(s, increment, e),
           Steps[t] \in Roles => Steps[t] \in Given(e),
           ReadUpTo(t, e, agreed)
    PROVE  /\ [StepTo(s, increment, e) EXCEPT !.agreed = agreed] \in Wizards
           /\ agreed = setup.agreed => StepTo(s, increment, e) \in Wizards
<1>1. Steps[t] \in DOMAIN Fields1
  BY StepsAre, FieldsAre DEF Forms
<1>2. setup.config \in Targets
  BY DEF Wizards
<1>3. /\ Form1(Steps[t], e, setup.config) \in [Fields1[Steps[t]] -> Words]
      /\ Form1(Steps[t], e, setup.config) \in Sheets
  BY <1>1, <1>2, FormIsSheet
<1> DEFINE sheet == Form1(Steps[t], e, setup.config)
<1>4. StepTo(s, increment, e) = [setup EXCEPT !.step = t, !.json = e, !.sheet = sheet]
  BY DEF StepTo
<1> HIDE DEF sheet
<1>5. sheet \in Sheets /\ sheet \in [Fields1[Steps[t]] -> Words]
  BY <1>3 DEF sheet
<1>6. /\ setup \in [pc : BOOLEAN, show : BOOLEAN, step : 1 .. 4, json : Entered, sheet : Sheets,
                   config : Targets, agreed : Entered]
      /\ setup = [setup EXCEPT !.agreed = setup.agreed]
  BY DEF Wizards
<1>7. [StepTo(s, increment, e) EXCEPT !.agreed = agreed] \in Wizards
  BY <1>4, <1>5, <1>6 DEF Wizards
<1>8. agreed = setup.agreed =>
          StepTo(s, increment, e) = [StepTo(s, increment, e) EXCEPT !.agreed = agreed]
  BY <1>4, <1>6
<1> QED BY <1>7, <1>8

LEMMA PrevIsWizard ==
    ASSUME setup \in Wizards, setup.show, handlePrev
    PROVE  setup' \in Wizards
<1> DEFINE e == setup.json
           s == setup.step - 1
           t == Arrived(s, 0 - 1, e)
<1>1. setup.step \in 2 .. 4 /\ e \in Entered /\ setup.agreed \in Entered /\ s \in 1 .. 3
  BY DEF handlePrev, Wizards
<1>2. ReadUpTo(setup.step, e, setup.agreed)
  BY DEF Wizards
<1>3. Skipped(s, e) <=> Steps[s] \in Roles /\ Steps[s] \notin Given(e)
  BY GivenAre DEF Skipped, On
<1>4. t = IF Skipped(s, e) THEN s - 1 ELSE s
  BY <1>1 DEF Arrived
<1>5. Given(e) # {} /\ Given(e) \subseteq Roles
  <2>1. setup.step > 1
    BY <1>1
  <2>2. Given(e) # {}
    BY <1>2, <2>1 DEF ReadUpTo
  <2> QED BY <2>2 DEF Given
<1>6. setup' = StepTo(s, 0 - 1, e)
  BY DEF handlePrev
<1> HIDE DEF e
<1>7. t \in 1 .. 4 /\ (Steps[t] \in Roles => Steps[t] \in Given(e)) /\ t < setup.step
  <2>1. CASE ~Skipped(s, e)
    BY <1>1, <1>3, <1>4, <2>1
  <2>2. CASE Skipped(s, e) /\ s = 1
    BY <1>3, <2>2, StepsAre DEF Roles
  <2>3. CASE Skipped(s, e) /\ s = 2
    BY <1>1, <1>4, <2>3, StepsAre DEF Roles
  <2>4. CASE Skipped(s, e) /\ s = 3
    BY <1>1, <1>3, <1>4, <1>5, <2>4, StepsAre DEF Roles
  <2> QED BY <1>1, <2>1, <2>2, <2>3, <2>4
<1> HIDE DEF t, s
<1>8. ReadUpTo(t, e, setup.agreed)
  BY <1>1, <1>2, <1>7 DEF ReadUpTo
<1> QED BY <1>1, <1>6, <1>7, <1>8, StepIsWizard DEF t

LEMMA NextIsWizard ==
    ASSUME setup \in Wizards, setup.show, handleNext
    PROVE  setup' \in Wizards
<1> DEFINE p == Steps[setup.step]
           e == [setup.json EXCEPT ![p] = setup.sheet]
           s == setup.step + 1
           t == Arrived(s, 1, e)
<1>1. /\ setup.step \in 1 .. 4 /\ setup.json \in Entered /\ setup.agreed \in Entered
      /\ setup.sheet \in [Fields1[p] -> Words]
      /\ ReadUpTo(setup.step, setup.json, setup.agreed)
      /\ p \in Roles => p \in Given(setup.json)
  BY DEF Wizards
<1>2. /\ p # "finish" /\ handleValidate
      /\ setup' = [StepTo(s, 1, e) EXCEPT !.agreed = Agreed]
  BY DEF handleNext, Next1, Shows2
<1>3. setup.step \in 1 .. 3 /\ p \in Forms /\ s \in 2 .. 4 /\ s = setup.step + 1
  BY <1>1, <1>2, StepsAre DEF Forms
<1>4. e \in Entered
  BY <1>1, <1>3, EnteredAgain
<1>5. /\ e[p] = setup.sheet
      /\ \A q \in Forms : q # p => e[q] = setup.json[q]
  BY <1>1, <1>3 DEF Entered
<1>6. Agreed \in Entered
  <2>1. CASE Shows2("common")
    BY <1>1, <1>3, <2>1, BlankIsEntered, EnteredAgain DEF Agreed
  <2>2. CASE ~Shows2("common")
    BY <1>1, <1>3, <2>2, EnteredAgain DEF Agreed
  <2> QED BY <2>1, <2>2
<1>7. /\ Agreed[p] = setup.sheet
      /\ p # "common" => \A q \in Forms : q # p => Agreed[q] = setup.agreed[q]
  <2>1. CASE p = "common"
    BY <1>3, <2>1, BlankIsEntered DEF Agreed, Shows2, Entered
  <2>2. CASE p # "common"
    BY <1>1, <1>3, <2>2 DEF Agreed, Shows2, Entered
  <2> QED BY <2>1, <2>2
<1> HIDE DEF e
<1>8. Skipped(s, e) <=> Steps[s] \in Roles /\ Steps[s] \notin Given(e)
  BY GivenAre DEF Skipped, On
<1>9. t = IF Skipped(s, e) THEN s + 1 ELSE s
  BY DEF Arrived
<1>10. Given(e) # {} /\ Given(e) \subseteq Roles /\ (p # "common" => Given(e) = Given(setup.json))
  <2>1. CASE p = "common"
    <3>1. \E r \in Roles : setup.sheet[r] # ""
      BY <1>2, <2>1 DEF handleValidate, Shows2, Chosen
    <3>2. e["common"] = setup.sheet
      BY <1>5, <2>1
    <3>3. Given(e) = {r \in Roles : setup.sheet[r] # ""}
      BY <3>2, GivenAre
    <3>4. Given(e) # {} /\ Given(e) \subseteq Roles
      BY <3>1, <3>3
    <3> QED BY <2>1, <3>4
  <2>2. CASE p # "common"
    <3>1. e["common"] = setup.json["common"]
      BY <1>5, <2>2 DEF Forms
    <3>2. Given(e) = Given(setup.json) /\ Given(e) \subseteq Roles
      BY <3>1, GivenAre
    <3>3. setup.step > 1
      BY <1>3, <2>2, StepsAre
    <3> QED BY <1>1, <3>2, <3>3 DEF ReadUpTo
  <2> QED BY <2>1, <2>2
<1>11. /\ t \in 2 .. 4 /\ (Steps[t] \in Roles => Steps[t] \in Given(e))
       /\ \A i \in setup.step + 1 .. t - 1 : Steps[i] \notin Given(e)
  <2>1. CASE ~Skipped(s, e)
    BY <1>3, <1>8, <1>9, <2>1
  <2>2. CASE Skipped(s, e) /\ s = 4
    BY <1>8, <2>2, StepsAre DEF Roles
  <2>3. CASE Skipped(s, e) /\ s = 3
    BY <1>3, <1>8, <1>9, <2>3, StepsAre DEF Roles
  <2>4. CASE Skipped(s, e) /\ s = 2
    <3>1. t = 3 /\ "client" \in Given(e) /\ "server" \notin Given(e) /\ setup.step = 1
      BY <1>3, <1>8, <1>9, <1>10, <2>4, StepsAre DEF Roles
    <3> QED BY <3>1, StepsAre
  <2> QED BY <1>3, <2>1, <2>2, <2>3, <2>4
<1> HIDE DEF t, s, p
<1>12. ReadUpTo(t, e, Agreed)
  <2>1. Agreed["common"] = e["common"]
    <3>1. CASE p = "common"
      BY <1>5, <1>7, <3>1
    <3>2. CASE p # "common"
      <4>1. setup.step > 1
        BY <1>3, <3>2, StepsAre DEF p
      <4>2. setup.agreed["common"] = setup.json["common"]
        BY <1>1, <4>1 DEF ReadUpTo
      <4> QED BY <1>5, <1>7, <3>2, <4>2 DEF Forms
    <3> QED BY <3>1, <3>2
  <2>2. ASSUME NEW i \in 1 .. (t - 1), Steps[i] \in Given(e) PROVE Agreed[Steps[i]] = e[Steps[i]]
    <3>1. i <= setup.step /\ Steps[i] \in Roles
      BY <1>1, <1>10, <1>11, <2>2
    <3>2. CASE i = setup.step
      BY <1>5, <1>7, <3>2 DEF p
    <3>3. CASE i < setup.step
      <4>1. Steps[i] \in Forms /\ Steps[i] # p /\ p # "common"
        BY <1>3, <2>2, <3>1, <3>3, StepsAre DEF Roles, Forms, p
      <4>2. setup.agreed[Steps[i]] = setup.json[Steps[i]]
        BY <1>1, <1>10, <2>2, <3>3, <4>1 DEF ReadUpTo
      <4> QED BY <1>5, <1>7, <4>1, <4>2
    <3> QED BY <1>1, <3>1, <3>2, <3>3
  <2> QED BY <1>10, <2>1, <2>2 DEF ReadUpTo
<1>13. t \in 1 .. 4
  BY <1>11
<1> QED BY <1>2, <1>4, <1>6, <1>11, <1>12, <1>13, StepIsWizard DEF t

------------------------------------------------------------------------------
(* Requests *)

LEMMA NoneWaits ==
    ASSUME NEW q \in Seq(Questions)
    PROVE  [j \in DOMAIN q |-> [q[j] EXCEPT !.waits = FALSE]] \in Seq(Questions)
<1>1. Len(q) \in Nat /\ DOMAIN q = 1 .. Len(q)
  BY LenProperties
<1>2. \A j \in DOMAIN q : [q[j] EXCEPT !.waits = FALSE] \in Questions
  <2> TAKE j \in DOMAIN q
  <2>1. q[j] \in Questions
    BY <1>1, ElementOfSeq
  <2> QED BY <2>1 DEF Questions
<1> QED BY <1>1, <1>2, IsASeq

LEMMA OneIsGone ==
    ASSUME NEW q \in Seq(Questions), NEW i \in DOMAIN q
    PROVE  /\ q[i] \in Questions
           /\ SubSeq(q, 1, i - 1) \o SubSeq(q, i + 1, Len(q)) \in Seq(Questions)
<1>1. Len(q) \in Nat /\ i \in 1 .. Len(q) /\ \A j \in 1 .. Len(q) : q[j] \in Questions
  BY LenProperties, ElementOfSeq
<1>2. 1 \in Int /\ i - 1 \in Int /\ i + 1 \in Int /\ Len(q) \in Int
  BY <1>1
<1>3. /\ \A j \in 1 .. (i - 1) : q[j] \in Questions
      /\ \A j \in (i + 1) .. Len(q) : q[j] \in Questions
  BY <1>1
<1>4. SubSeq(q, 1, i - 1) \in Seq(Questions) /\ SubSeq(q, i + 1, Len(q)) \in Seq(Questions)
  BY <1>2, <1>3, SubSeqProperties
<1> QED BY <1>1, <1>4, ConcatProperties

------------------------------------------------------------------------------
(* The machine *)

LEMMA InstallTypes ==
    ASSUME NEW m \in Targets, NEW e \in Entered
    PROVE  Install(m, e) \in Targets /\ Save1(m) \in Targets
<1>1. e["client"]["name"] \in Words /\ e["client"]["host1"] \in Words
  BY FieldsAre DEF Entered, Forms
<1>2. e["server"] \in [port : Words, anonymous : Words]
  <2>1. e["server"] \in [{"port", "anonymous"} -> Words]
    BY FieldsAre DEF Entered, Forms
  <2> QED BY <2>1
<1>3. Given(e) \in SUBSET Roles
  BY DEF Given
<1>4. Save1(m) \in Targets
  BY DEF Save1, Targets, Words, Roles
<1>5. CASE m.installed
  BY <1>4, <1>5 DEF Install
<1>6. CASE ~m.installed
  <2> DEFINE c == IF "client" \notin Given(e) THEN m.client
                  ELSE [name |-> e.client.name,
                        host1 |-> IF On(e, "client", "hasServer") THEN e.client.host1
                                  ELSE m.client.host1]
             s == IF "server" \notin Given(e) THEN m.server ELSE e.server
  <2>1. c \in [name : Words, host1 : Words] /\ s \in [port : Words, anonymous : Words]
    BY <1>1, <1>2 DEF Targets
  <2>2. Install(m, e) = [m EXCEPT !.installed = TRUE, !.modes = Given(e), !.client = c, !.server = s]
    BY <1>6 DEF Install
  <2> HIDE DEF c, s
  <2> QED BY <1>3, <1>4, <2>1, <2>2 DEF Targets
<1> QED BY <1>5, <1>6

(* InstalledAsAgreed without its local definitions. *)
Agrees(t, a, m) ==
    /\ ~m.installed /\ t.modes = {r \in Roles : a.common[r] # ""}
    /\ \A r \in Roles : \A f \in DOMAIN t[r] :
          t[r][f] = IF r \in {q \in Roles : a.common[q] # ""}
                           /\ (f = "host1" => a.client.hasServer # "")
                    THEN a[r][f] ELSE m[r][f]

LEMMA AgreementIs ==
    /\ InstalledAsAgreed <=> (origin.by = "wizard" => Agrees(target, origin.agreed, origin.before))
    /\ InstalledAsAgreed' <=>
          (origin'.by = "wizard" => Agrees(target', origin'.agreed, origin'.before))
BY DEF InstalledAsAgreed, Agrees

(* What the wizard installs is what was chosen and read. *)
LEMMA InstallsAgreed ==
    ASSUME NEW m \in Targets, NEW q \in Questions, q.kind = "install", ~m.installed,
           target' = Install(m, q.json),
           origin' = [by |-> "wizard", agreed |-> q.agreed, before |-> m]
    PROVE  InstalledAsAgreed'
<1> DEFINE e == q.json
           a == q.agreed
<1>1. e \in Entered /\ a \in Entered /\ ReadUpTo(4, e, a)
  BY DEF Questions
<1> HIDE DEF e, a
<1>2. a["common"] = e["common"]
  BY <1>1 DEF ReadUpTo
<1>3. Given(e) = {r \in Roles : a.common[r] # ""}
  BY <1>2, GivenAre
<1>4. \A r \in Roles : r \in Given(e) => a[r] = e[r]
  <2>1. 2 \in 1 .. (4 - 1) /\ 3 \in 1 .. (4 - 1)
    OBVIOUS
  <2> QED BY <1>1, <2>1, StepsAre DEF ReadUpTo, Roles
<1>5. /\ origin'.agreed = a /\ origin'.before = m
      /\ target' = [m EXCEPT
            !.installed = TRUE, !.modes = Given(e),
            !.client = IF "client" \notin Given(e) THEN @
                       ELSE [name |-> e.client.name,
                             host1 |-> IF On(e, "client", "hasServer") THEN e.client.host1
                                       ELSE @.host1],
            !.server = IF "server" \notin Given(e) THEN @ ELSE e.server]
  BY DEF Install, e, a
<1>6. /\ m.client = [name |-> m.client.name, host1 |-> m.client.host1]
      /\ DOMAIN m.server = {"port", "anonymous"}
      /\ DOMAIN e["server"] = {"port", "anonymous"}
  BY <1>1, FieldsAre DEF Targets, Entered, Forms
<1>7. /\ target'.modes = Given(e)
      /\ target'.client = IF "client" \notin Given(e) THEN m.client
                       ELSE [name |-> e.client.name,
                             host1 |-> IF On(e, "client", "hasServer") THEN e.client.host1
                                       ELSE m.client.host1]
      /\ target'.server = IF "server" \notin Given(e) THEN m.server ELSE e.server
  BY <1>5 DEF Targets
<1> DEFINE has(r, f) == r \in Given(e) /\ (f = "host1" => a.client.hasServer # "")
<1>8. \A f \in DOMAIN target'["client"] :
          target'["client"][f] = IF has("client", f) THEN a["client"][f] ELSE m["client"][f]
  <2>1. CASE "client" \notin Given(e)
    BY <1>7, <2>1
  <2>2. CASE "client" \in Given(e)
    <3>1. a["client"] = e["client"]
      BY <1>4, <2>2 DEF Roles
    <3>2. DOMAIN target'["client"] = {"name", "host1"}
      BY <1>7, <2>2
    <3>3. target'["client"]["name"] = a["client"]["name"]
      BY <1>7, <2>2, <3>1
    <3>4. target'["client"]["host1"] = IF On(e, "client", "hasServer") THEN e["client"]["host1"]
                                       ELSE m["client"]["host1"]
      BY <1>7, <2>2
    <3>5. On(e, "client", "hasServer") <=> a["client"]["hasServer"] # ""
      BY <3>1 DEF On
    <3>6. target'["client"]["host1"] = IF has("client", "host1") THEN a["client"]["host1"]
                                       ELSE m["client"]["host1"]
      BY <2>2, <3>1, <3>4, <3>5
    <3>7. has("client", "name")
      BY <2>2
    <3> QED BY <3>2, <3>3, <3>6, <3>7
  <2> QED BY <2>1, <2>2
<1>9. \A f \in DOMAIN target'["server"] :
          target'["server"][f] = IF has("server", f) THEN a["server"][f] ELSE m["server"][f]
  <2>1. CASE "server" \notin Given(e)
    BY <1>7, <2>1
  <2>2. CASE "server" \in Given(e)
    <3>1. a["server"] = e["server"] /\ target'["server"] = e["server"]
      BY <1>4, <1>7, <2>2 DEF Roles
    <3> QED BY <1>6, <2>2, <3>1
  <2> QED BY <2>1, <2>2
<1> HIDE DEF has
<1>10. \A r \in Roles : \A f \in DOMAIN target'[r] :
          target'[r][f] = IF has(r, f) THEN a[r][f] ELSE m[r][f]
  BY <1>8, <1>9 DEF Roles
<1>11. {r \in Roles : a.common[r] # ""} = Given(e)
  BY <1>3
<1>12. \A r : r \in {q1 \in Roles : a.common[q1] # ""} <=> r \in Given(e)
  BY <1>11
<1>13. target'.modes = {r \in Roles : a.common[r] # ""}
  BY <1>7, <1>11
<1>14. ~m.installed
  OBVIOUS
<1>15. ASSUME NEW r \in Roles, NEW f \in DOMAIN target'[r]
       PROVE  target'[r][f] = IF r \in {q1 \in Roles : a.common[q1] # ""}
                                 /\ (f = "host1" => a.client.hasServer # "")
                              THEN a[r][f] ELSE m[r][f]
  <2>1. target'[r][f] = IF has(r, f) THEN a[r][f] ELSE m[r][f]
    BY <1>10
  <2> DEFINE chosen == r \in {q1 \in Roles : a.common[q1] # ""}
             read == f = "host1" => a.client.hasServer # ""
  <2>2. chosen <=> r \in Given(e)
    BY <1>12
  <2>3. has(r, f) <=> r \in Given(e) /\ read
    BY DEF has
  <2> HIDE DEF chosen, read
  <2>4. target'[r][f] = IF chosen /\ read THEN a[r][f] ELSE m[r][f]
    <3>1. CASE has(r, f)
      BY <2>1, <2>2, <2>3, <3>1
    <3>2. CASE ~has(r, f)
      BY <2>1, <2>2, <2>3, <3>2
    <3> QED BY <3>1, <3>2
  <2> QED BY <2>4 DEF chosen, read
<1>16. Agrees(target', a, m)
  BY <1>13, <1>14, <1>15 DEF Agrees
<1> QED BY <1>5, <1>16, AgreementIs

------------------------------------------------------------------------------
(* The invariant *)

LEMMA BoundsAre == MaxEntries \in Nat /\ MaxSlips \in Nat
BY WebInstallAssumption DEF WebInstallAssumption

LEMMA InstallStarts == InstallInit => InstallInv
<1> SUFFICES ASSUME InstallInit PROVE InstallInv
  OBVIOUS
<1>1. InstalledAsAgreed
  BY AgreementIs DEF InstallInit, NotYet
<1>2. entries \in [user : 0 .. MaxEntries, slips : 0 .. MaxSlips]
  BY BoundsAre DEF InstallInit
<1> QED BY <1>1, <1>2 DEF InstallInit, InstallInv, NothingYet

(* Of the record of a bounded thing one field grows. *)
LEMMA EntriesCount ==
    ASSUME entries \in [user : 0 .. MaxEntries, slips : 0 .. MaxSlips], Entry \/ Slip
    PROVE  entries' \in [user : 0 .. MaxEntries, slips : 0 .. MaxSlips]
BY BoundsAre DEF Entry, Slip

(* The agreement only speaks of the machine and the request that installed it. *)
LEMMA AgreementStays ==
    ASSUME InstalledAsAgreed, UNCHANGED <<target, origin>> PROVE InstalledAsAgreed'
BY AgreementIs

LEMMA NothingAgreed == ASSUME origin' = NotYet PROVE InstalledAsAgreed'
BY AgreementIs DEF NotYet

(* Before a page is opened nothing else can happen. *)
LEMMA OnlyOpens ==
    ASSUME NothingYet, InstallNext PROVE \E m \in Machines : OpenWizard(m)
<1>1. ~setup.show /\ target.installed /\ DOMAIN asks = {}
  BY DEF NothingYet, NoPage, NoMachine
<1> QED BY <1>1 DEF InstallNext, handlePrev, handleNext, Next1, Enter, handleInstall, handleImport, Ask,
              GivenUp, ConfigCame, InstalledElsewhere

LEMMA OpenStep ==
    ASSUME InstallInv, NEW m \in Machines, OpenWizard(m) PROVE InstallInv'
<1>1. m.pc \in BOOLEAN /\ m.anonymous \in {"", "a"}
  BY WebInstallAssumption DEF WebInstallAssumption
<1>2. Settings(m) \in Targets
  BY <1>1 DEF Settings, Targets, Words, Roles
<1>3. NoPage \notin Wizards
  BY DEF NoPage, Wizards
<1>4. setup' \in Wizards /\ target' \in Targets
  BY <1>1, <1>2, OpenedIsWizard DEF OpenWizard
<1>5. origin' = NotYet
  BY <1>3 DEF OpenWizard, InstallInv, NothingYet
<1>6. InstalledAsAgreed'
  BY <1>5, NothingAgreed
<1> QED BY <1>4, <1>6 DEF InstallInv, OpenWizard

(* Inputs change the form that is shown and nothing else. *)
LEMMA EnterStep ==
    ASSUME InstallInv, setup \in Wizards, target \in Targets, NEW f, NEW v, Enter(f, v)
    PROVE  InstallInv'
<1>1. f \in DOMAIN setup.sheet /\ v \in Words
  BY DEF Enter, Entries, Words
<1>2. setup.sheet \in [Fields1[Steps[setup.step]] -> Words] /\ setup.step \in 1 .. 4
  BY DEF Wizards
<1> DEFINE sheet == [setup.sheet EXCEPT ![f] = v]
<1>3. sheet \in [Fields1[Steps[setup.step]] -> Words]
  BY <1>1, <1>2
<1>4. sheet \in Sheets
  <2>1. Steps[setup.step] \in DOMAIN Fields1
    BY <1>2, StepsAre, FieldsAre DEF Forms
  <2> QED BY <1>3, <2>1 DEF Sheets
<1>5. setup' = [setup EXCEPT !.sheet = sheet]
  BY DEF Enter
<1> HIDE DEF sheet
<1>6. setup' \in Wizards
  BY <1>3, <1>4, <1>5 DEF Wizards
<1>7. entries' \in [user : 0 .. MaxEntries, slips : 0 .. MaxSlips]
  BY EntriesCount DEF Enter, InstallInv
<1>8. InstalledAsAgreed'
  BY AgreementStays DEF Enter, InstallInv
<1> QED BY <1>6, <1>7, <1>8 DEF InstallInv, Enter

(* A request to install is sent when all forms were left. *)
LEMMA AskStep ==
    ASSUME InstallInv, setup \in Wizards, target \in Targets, handleInstall \/ handleImport
    PROVE  InstallInv'
<1>1. PICK kind \in {"install", "import"} :
          Ask(kind) /\ (kind = "install" => Steps[setup.step] = "finish")
  BY DEF handleInstall, handleImport, Shows2
<1>2. setup.step \in 1 .. 4 /\ ReadUpTo(setup.step, setup.json, setup.agreed)
  BY DEF Wizards
<1>3. kind = "install" => ReadUpTo(4, setup.json, setup.agreed)
  <2>1. kind = "install" => setup.step = 4
    BY <1>1, <1>2, StepsAre
  <2> QED BY <1>2, <2>1
<1> DEFINE q == [kind |-> kind, json |-> setup.json, agreed |-> setup.agreed, waits |-> TRUE]
<1>4. q \in Questions
  BY <1>1, <1>3 DEF Questions, Wizards
<1>5. asks' = Append(asks, q)
  BY <1>1 DEF Ask
<1> HIDE DEF q
<1>6. asks' \in Seq(Questions)
  BY <1>4, <1>5, AppendProperties DEF InstallInv
<1>7. entries' \in [user : 0 .. MaxEntries, slips : 0 .. MaxSlips]
  BY <1>1, EntriesCount DEF Ask, InstallInv
<1>8. InstalledAsAgreed'
  BY <1>1, AgreementStays DEF Ask, InstallInv
<1> QED BY <1>1, <1>6, <1>7, <1>8 DEF InstallInv, Ask

(* The machine takes a request, and its answer reaches the page or not. *)
LEMMA HandledStep ==
    ASSUME InstallInv, setup \in Wizards, target \in Targets, NEW i \in DOMAIN asks, Handled(i)
    PROVE  InstallInv'
<1> DEFINE r == asks[i]
           others == SubSeq(asks, 1, i - 1) \o SubSeq(asks, i + 1, Len(asks))
           done(refused) == IF r.kind = "install" THEN Install(target, r.json)
                            ELSE IF refused THEN target ELSE Save1(target)
<1>1. r \in Questions /\ others \in Seq(Questions)
  BY OneIsGone DEF InstallInv
<1>2. PICK refused \in BOOLEAN :
         /\ refused => r.kind = "import"
         /\ target' = done(refused)
         /\ origin' = IF done(refused) = target THEN origin
                      ELSE IF r.kind = "import" THEN NotYet
                      ELSE [by |-> "wizard", agreed |-> r.agreed, before |-> target]
         /\ IF r.waits /\ ~refused
            THEN /\ setup' = Opened(setup.pc, done(refused))
                 /\ asks' = [j \in DOMAIN others |-> [others[j] EXCEPT !.waits = FALSE]]
            ELSE asks' = others /\ UNCHANGED setup
  BY DEF Handled
<1>3. entries' = entries
  BY DEF Handled
<1> HIDE DEF r, others
<1>4. r.kind \in {"install", "import"} /\ r.json \in Entered
  BY <1>1 DEF Questions
<1>5. done(refused) \in Targets
  BY <1>4, InstallTypes
<1>6. InstalledAsAgreed'
  <2>1. CASE done(refused) = target
    BY <1>2, <2>1, AgreementStays DEF InstallInv
  <2>2. CASE done(refused) # target /\ r.kind = "import"
    BY <1>2, <2>2, NothingAgreed
  <2>3. CASE done(refused) # target /\ r.kind = "install"
    <3>1. target' = Install(target, r.json)
      BY <1>2, <2>3
    <3>2. ~target.installed
      BY <2>3 DEF Install
    <3>3. origin' = [by |-> "wizard", agreed |-> r.agreed, before |-> target]
      BY <1>2, <2>3
    <3> QED BY <1>1, <2>3, <3>1, <3>2, <3>3, InstallsAgreed
  <2> QED BY <1>4, <2>1, <2>2, <2>3
<1> HIDE DEF done
<1>7. setup' \in Wizards /\ asks' \in Seq(Questions)
  <2>1. CASE r.waits /\ ~refused
    <3>1. setup.pc \in BOOLEAN
      BY DEF Wizards
    <3> QED BY <1>1, <1>2, <1>5, <2>1, <3>1, OpenedIsWizard, NoneWaits
  <2>2. CASE ~(r.waits /\ ~refused)
    BY <1>1, <1>2, <2>2
  <2> QED BY <2>1, <2>2
<1>8. target' \in Targets
  BY <1>2, <1>5
<1> QED BY <1>3, <1>6, <1>7, <1>8 DEF InstallInv

LEMMA InstallStep == InstallInv /\ [InstallNext]_installVars => InstallInv'
<1> SUFFICES ASSUME InstallInv, [InstallNext]_installVars PROVE InstallInv'
  OBVIOUS
<1>1. CASE UNCHANGED installVars
  BY <1>1 DEF installVars, InstallInv, NothingYet, InstalledAsAgreed
<1>2. CASE NothingYet /\ InstallNext
  BY <1>2, OnlyOpens, OpenStep
<1>3. CASE setup \in Wizards /\ target \in Targets /\ InstallNext
  <2> USE <1>3
  <2>1. ASSUME NEW m \in Machines, OpenWizard(m) PROVE InstallInv'
    BY <2>1, OpenStep
  <2>2. CASE handlePrev
    <3>1. setup' \in Wizards
      BY <2>2, PrevIsWizard DEF handlePrev
    <3>2. InstalledAsAgreed'
      BY <2>2, AgreementStays DEF handlePrev, InstallInv
    <3> QED BY <2>2, <3>1, <3>2 DEF handlePrev, InstallInv
  <2>3. CASE handleNext
    <3>1. setup' \in Wizards
      BY <2>3, NextIsWizard DEF handleNext, Next1
    <3>2. InstalledAsAgreed'
      BY <2>3, AgreementStays DEF handleNext, Next1, InstallInv
    <3> QED BY <2>3, <3>1, <3>2 DEF handleNext, Next1, InstallInv
  <2>4. ASSUME NEW f, NEW v, Enter(f, v) PROVE InstallInv'
    BY <2>4, EnterStep
  <2>5. CASE handleInstall \/ handleImport
    BY <2>5, AskStep
  <2>6. ASSUME NEW i \in DOMAIN asks, Handled(i) PROVE InstallInv'
    BY <2>6, HandledStep
  <2>7. CASE GivenUp
    <3>1. asks' \in Seq(Questions)
      BY <2>7, NoneWaits DEF GivenUp, InstallInv
    <3>2. InstalledAsAgreed'
      BY <2>7, AgreementStays DEF GivenUp, InstallInv
    <3>3. entries' \in [user : 0 .. MaxEntries, slips : 0 .. MaxSlips]
      BY <2>7, EntriesCount DEF GivenUp, InstallInv
    <3> QED BY <2>7, <3>1, <3>2, <3>3 DEF GivenUp, InstallInv
  <2>8. CASE ConfigCame
    <3>1. setup' \in Wizards
      BY <2>8 DEF ConfigCame, Wizards
    <3>2. InstalledAsAgreed'
      BY <2>8, AgreementStays DEF ConfigCame, InstallInv
    <3> QED BY <2>8, <3>1, <3>2 DEF ConfigCame, InstallInv
  <2>9. CASE InstalledElsewhere
    <3>1. target' \in Targets
      BY <2>9, BlankIsEntered, InstallTypes DEF InstalledElsewhere
    <3>2. InstalledAsAgreed'
      BY <2>9, NothingAgreed DEF InstalledElsewhere
    <3>3. entries' \in [user : 0 .. MaxEntries, slips : 0 .. MaxSlips]
      BY <2>9, EntriesCount DEF InstalledElsewhere, InstallInv
    <3> QED BY <2>9, <3>1, <3>2, <3>3 DEF InstalledElsewhere, InstallInv
  <2> QED BY <2>1, <2>2, <2>3, <2>4, <2>5, <2>6, <2>7, <2>8, <2>9 DEF InstallNext
<1> QED BY <1>1, <1>2, <1>3 DEF InstallInv, NothingYet

LEMMA InstallShows == InstallInv => InstallTypeOK /\ InstallsAsRead
<1> SUFFICES ASSUME InstallInv PROVE InstallTypeOK /\ InstallsAsRead
  OBVIOUS
<1>1. Len(asks) \in Nat /\ \A i \in DOMAIN asks : asks[i].kind \in {"install", "import"}
  <2>1. \A i \in 1 .. Len(asks) : asks[i] \in Questions
    BY ElementOfSeq DEF InstallInv
  <2>2. DOMAIN asks = 1 .. Len(asks) /\ Len(asks) \in Nat
    BY LenProperties DEF InstallInv
  <2> QED BY <2>1, <2>2 DEF Questions
<1>2. entries.user \in 0 .. MaxEntries /\ entries.slips \in 0 .. MaxSlips
  BY DEF InstallInv
<1>3. CASE NothingYet
  <2>1. InstallTypeOK
    BY <1>1, <1>2, <1>3 DEF NothingYet, NoMachine, InstallTypeOK
  <2>2. PartsAsChosen
    BY <1>3 DEF NothingYet, NoPage, PartsAsChosen
  <2> QED BY <2>1, <2>2 DEF InstallInv, InstallsAsRead
<1>4. CASE setup \in Wizards /\ target \in Targets
  <2>1. setup.step \in DOMAIN Steps /\ DOMAIN setup.sheet = Fields1[Steps[setup.step]]
    BY <1>4, StepsAre DEF Wizards
  <2>2. \A p \in DOMAIN Blank : DOMAIN setup.json[p] = Fields1[p]
    BY <1>4 DEF Blank, Wizards, Entered, Forms
  <2>3. target.installed \in BOOLEAN
    BY <1>4 DEF Targets
  <2>4. PartsAsChosen
    BY <1>4 DEF Wizards, PartsAsChosen, Shows2, Given
  <2> QED BY <1>1, <1>2, <2>1, <2>2, <2>3, <2>4 DEF InstallTypeOK, InstallInv, InstallsAsRead
<1> QED BY <1>3, <1>4 DEF InstallInv, NothingYet

LEMMA InstallHolds == InstallSpec => []InstallInv
BY InstallStarts, InstallStep, PTL DEF InstallSpec

(* The types of the variables of the installation. *)
THEOREM InstallTypeCorrect == InstallSpec => []InstallTypeOK
BY InstallHolds, InstallShows, PTL

(* The wizard shows no part of a role that was not chosen, and a machine it
   installs gets the roles that were chosen last and of each exactly what the
   user read in its form, for any number of steps back and forth, and of
   requests given up and handled later. *)
THEOREM WizardInstallsAsRead == InstallSpec => []InstallsAsRead
BY InstallHolds, InstallShows, PTL
===============================================================================
