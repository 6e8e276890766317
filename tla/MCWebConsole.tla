--------------------------- MODULE MCWebConsole ---------------------------
(* Instances for TLC.  Of pages that look alike in all that is modelled,   *)
(* one is followed.                                                        *)
EXTENDS WebConsole

MCLoop == <<"config">>

Part(c, i) == [of |-> c, loops |-> <<Components[c].loops[i]>>, events |-> 2]
AllParts == UNION {{Part(c, i) : i \in DOMAIN Components[c].loops} : c \in DOMAIN Components}
PartLook(p) == <<[Loop[p.loops[1]] EXCEPT !.hash = (@ = "none")],
                 Components[p.of].offers, Components[p.of].clears>>
MCParts ==
    {p \in AllParts :
        \/ p.of \in {"FlowIndex", "ServerFlowRelay", "ServerFlowForward", "ServerFlowTunnel",
                      "OnlineMap", "PlanList", "ServerVersion"}
        \/ p.of = "ListIndex" /\ p.loops[1] \in {"signList1", "tuntap", "tunnel", "p2pOperating",
                                                 "forwardConnections"}}
    \union {[of |-> "ListIndex", loops |-> <<"tuntapConnections", "socks5Connections">>, events |-> 1]}

MCLists == DOMAIN Tables \ {"CdkeyMy"}

AllDialogs == UNION {{[of |-> d, fields |-> {f}] : f \in DOMAIN DialogOf[d].fields} :
                        d \in DOMAIN DialogOf}
DialogLook(d) == <<{DialogOf[d.of].fields[f] : f \in d.fields},
                   [DialogOf[d.of] EXCEPT !.fields = {}]>>
MCDialogs ==
    {d \in AllDialogs :
        /\ d.of \notin {"TunnelEdit", "ForwardNodes", "Action"}
        /\ d.fields \intersect {"Lans", "Forwards", "ForwardRow", "DstPort"} = {}
        /\ ~(d.of \in {"ForwardEditNode", "WlistAdd"} /\ "Name" \in d.fields)}
    \union {[of |-> "TuntapEdit", fields |-> {"IP", "LanRow"}]}

AllGrids == DOMAIN GridOf

MCMachines == {[pc |-> TRUE, anonymous |-> "a"], [pc |-> FALSE, anonymous |-> ""]}

ASSUME \A p \in AllParts : \E q \in MCParts : PartLook(p) = PartLook(q)
ASSUME \A l \in DOMAIN Tables : \E m \in MCLists : Tables[l] = Tables[m]
ASSUME \A d \in AllDialogs : \E e \in MCDialogs : DialogLook(d) = DialogLook(e)
=============================================================================
