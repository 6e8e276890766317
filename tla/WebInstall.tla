----------------------------- MODULE WebInstall -----------------------------
(***************************************************************************)
(* The installation of a machine from the web console                      *)
(* (views/layout/full/install): a wizard asks for the roles of the machine *)
(* and the settings of each role, or an exported configuration is pasted   *)
(* or fetched from a server.  Meanwhile the connection may break, others   *)
(* may install the machine, and a request that was given up may still be   *)
(* handled.                                                                *)
(*                                                                         *)
(* Of each role the settings are followed that the wizard treats           *)
(* differently: required ones, check boxes, and those that are only shown  *)
(* when a box is checked.  "" is an empty text and a box not checked.      *)
(***************************************************************************)
EXTENDS Naturals, Sequences

CONSTANTS
    Machines,       \* [pc |-> does the page run on a computer, anonymous |-> a setting]
    MaxEntries,     \* what the user types, and requests of his
    MaxSlips        \* connections that break, installations by others

VARIABLES
    setup,          \* the page with the wizard, NoPage before it is opened:
                    \* pc: globalData.isPc; show: is the wizard there; step: step.step;
                    \* json: step.json and step.form, which hold the same, each form as it
                    \* was left; sheet: the form that is shown; config: globalData.config;
                    \* agreed: what the user read in each form when he left it by "next"
    asks,           \* requests under way
    target,         \* the machine: installed, its roles, the settings of each
    origin,         \* the request of the wizard that installed the machine, see NotYet
    entries         \* how often the bounded things happened

installVars == <<setup, asks, target, origin, entries>>

Roles == {"client", "server"}
Steps == <<"common", "server", "client", "finish">>
Fields1 == [common |-> Roles, server |-> {"port", "anonymous"},
            client |-> {"name", "hasServer", "host1"}, finish |-> {}]
Required == {"port", "name"}
Boxes == Roles \union {"anonymous", "hasServer"}
Entries(f) == IF f \in Boxes THEN {"", "a"} ELSE {"", "b"}

On(e, p, f) == e[p][f] # ""
Or(x, y) == IF x = "" THEN y ELSE x

ASSUME WebInstallAssumption ==
    /\ Machines \subseteq [pc : BOOLEAN, anonymous : {"", "a"}]
    /\ MaxEntries \in Nat /\ MaxSlips \in Nat

-----------------------------------------------------------------------------
(* The steps of the wizard *)

Blank == [p \in {"common", "server", "client"} |-> [f \in Fields1[p] |-> ""]]

\* A form starts with what was entered, else with the configuration.  The box of
\* the client is checked whenever its form appears.
Default1(p, f, config) ==
    CASE f = "client" -> "a"
      [] f \in {"server", "hasServer"} -> ""
      [] OTHER -> config[p][f]
Form1(p, e, config) ==
    [f \in Fields1[p] |-> Or(IF p = "finish" THEN "" ELSE e[p][f], Default1(p, f, config))]

\* The part of a role that was not chosen goes on in the direction of the step
\* as soon as it is there.  Of the two one is always chosen.
Skipped(s, e) == Steps[s] \in Roles /\ ~On(e, "common", Steps[s])
Arrived(s, increment, e) == IF Skipped(s, e) THEN s + increment ELSE s

NoPage == [show |-> FALSE]
Shows2(part) == Steps[setup.step] = part

StepTo(s, increment, e) ==
    LET t == Arrived(s, increment, e)
    IN [setup EXCEPT !.step = t, !.json = e, !.sheet = Form1(Steps[t], e, setup.config)]

handlePrev ==
    /\ setup.show /\ setup.step > 1
    /\ setup' = StepTo(setup.step - 1, 0 - 1, setup.json)
    /\ UNCHANGED <<asks, target, origin, entries>>

Chosen == \E r \in Roles : setup.sheet[r] # ""
Complete == \A f \in DOMAIN setup.sheet \intersect Required : setup.sheet[f] # ""
handleValidate == IF Shows2("common") THEN Chosen ELSE Complete

\* A choice of roles has the forms of these read again.
Agreed ==
    [(IF Shows2("common") THEN Blank ELSE setup.agreed) EXCEPT ![Steps[setup.step]] = setup.sheet]

Next1(entered) ==
    /\ setup.show /\ ~Shows2("finish") /\ handleValidate
    /\ setup' = [StepTo(setup.step + 1, 1, [setup.json EXCEPT ![Steps[setup.step]] = entered])
                   EXCEPT !.agreed = Agreed]
    /\ UNCHANGED <<asks, target, origin, entries>>

\* Mutant: what was entered earlier stays.
handleNextKept ==
    Next1([f \in DOMAIN setup.sheet |-> Or(setup.json[Steps[setup.step]][f], setup.sheet[f])])

handleNext == Next1(setup.sheet)

\* Without a computer the machine is no server.
Visible(f) == (f = "server" => setup.pc) /\ (f = "host1" => setup.sheet.hasServer # "")

Entry == entries.user < MaxEntries /\ entries' = [entries EXCEPT !.user = @ + 1]

Enter(f, v) ==
    /\ setup.show /\ Entry
    /\ f \in DOMAIN setup.sheet /\ Visible(f) /\ v \in Entries(f) \ {setup.sheet[f]}
    /\ setup' = [setup EXCEPT !.sheet[f] = v]
    /\ UNCHANGED <<asks, target, origin>>

-----------------------------------------------------------------------------
(* Requests.  waits: does the page still wait for the answer.  agreed: what  *)
(* the user had read when he sent it.                                        *)

Ask(kind) ==
    /\ setup.show /\ Entry
    /\ asks' = Append(asks, [kind |-> kind, json |-> setup.json, agreed |-> setup.agreed,
                             waits |-> TRUE])
    /\ UNCHANGED <<setup, target, origin>>

\* A configuration is pasted or fetched at any step.
handleInstall == setup.show /\ Shows2("finish") /\ Ask("install")
handleImport == Ask("import")

Given(e) == {r \in Roles : On(e, "common", r)}

NotYet == [by |-> "none"]

\* A machine that is installed answers the same and takes nothing.
Install(m, e) ==
    IF m.installed THEN m
    ELSE [m EXCEPT
            !.installed = TRUE, !.modes = Given(e),
            !.client = IF "client" \notin Given(e) THEN @
                       ELSE [name |-> e.client.name,
                             host1 |-> IF On(e, "client", "hasServer") THEN e.client.host1
                                       ELSE @.host1],
            !.server = IF "server" \notin Given(e) THEN @ ELSE e.server]

\* What another machine exports is a client that is installed.
Save1(m) ==
    [m EXCEPT !.installed = TRUE, !.modes = {"client"}, !.client = [name |-> "c", host1 |-> "c"]]

Slip == entries.slips < MaxSlips /\ entries' = [entries EXCEPT !.slips = @ + 1]

Opened(computer, t) ==
    [pc |-> computer, show |-> ~t.installed, step |-> 1, json |-> Blank,
     sheet |-> Form1("common", Blank, t), config |-> t, agreed |-> Blank]

\* The machine answers in order, except for a connection that broke, whose
\* requests it handles beside.  A configuration that cannot be fetched or decoded
\* is refused; any other answer has the page load itself again.
Handled(i) ==
    /\ \A j \in 1 .. i - 1 : ~asks[j].waits
    /\ \E refused \in BOOLEAN :
          LET r == asks[i]
              others == SubSeq(asks, 1, i - 1) \o SubSeq(asks, i + 1, Len(asks))
              done == IF r.kind = "install" THEN Install(target, r.json)
                      ELSE IF refused THEN target ELSE Save1(target)
          IN /\ refused => r.kind = "import"
             /\ target' = done
             /\ origin' = IF done = target THEN origin
                          ELSE IF r.kind = "import" THEN NotYet
                          ELSE [by |-> "wizard", agreed |-> r.agreed, before |-> target]
             /\ IF r.waits /\ ~refused
                THEN /\ setup' = Opened(setup.pc, done)
                     /\ asks' = [j \in DOMAIN others |-> [others[j] EXCEPT !.waits = FALSE]]
                ELSE asks' = others /\ UNCHANGED setup
    /\ UNCHANGED entries

\* The connection breaks, or the time of a request is up: it failed for the page,
\* and may be handled later or never.
GivenUp ==
    /\ Slip /\ \E i \in DOMAIN asks : asks[i].waits
    /\ asks' = [i \in DOMAIN asks |-> [asks[i] EXCEPT !.waits = FALSE]]
    /\ UNCHANGED <<setup, target, origin>>

\* The page follows the configuration (WebApi); the wizard stays.
ConfigCame ==
    /\ setup.show /\ setup.config # target
    /\ setup' = [setup EXCEPT !.config = target]
    /\ UNCHANGED <<asks, target, origin, entries>>

\* Somebody installs the machine from another page.
InstalledElsewhere ==
    /\ Slip /\ ~target.installed
    /\ target' = Save1(target) /\ origin' = NotYet
    /\ UNCHANGED <<setup, asks>>

-----------------------------------------------------------------------------

NoMachine == [installed |-> TRUE]

InstallInit ==
    /\ setup = NoPage /\ asks = <<>> /\ target = NoMachine /\ origin = NotYet
    /\ entries = [user |-> 0, slips |-> 0]

Settings(m) ==
    [installed |-> FALSE, modes |-> {}, client |-> [name |-> "a", host1 |-> "a"],
     server |-> [port |-> "a", anonymous |-> m.anonymous]]

\* A page is opened of a machine that is not installed.
OpenWizard(m) ==
    /\ setup = NoPage
    /\ target' = Settings(m) /\ setup' = Opened(m.pc, Settings(m))
    /\ UNCHANGED <<asks, origin, entries>>

InstallNext ==
    \/ \E m \in Machines : OpenWizard(m)
    \/ handlePrev \/ handleNext
    \/ \E f \in UNION {Fields1[p] : p \in DOMAIN Fields1}, v \in {"", "a", "b"} : Enter(f, v)
    \/ handleInstall \/ handleImport
    \/ \E i \in DOMAIN asks : Handled(i)
    \/ GivenUp \/ ConfigCame \/ InstalledElsewhere

InstallSpec == InstallInit /\ [][InstallNext]_installVars

-----------------------------------------------------------------------------
(* Properties *)

\* Types of the variables.
InstallTypeOK ==
    /\ setup # NoPage =>
          /\ setup.step \in DOMAIN Steps /\ DOMAIN setup.sheet = Fields1[Steps[setup.step]]
          /\ \A p \in DOMAIN Blank : DOMAIN setup.json[p] = Fields1[p]
    /\ target.installed \in BOOLEAN /\ \A i \in DOMAIN asks : asks[i].kind \in {"install", "import"}
    /\ entries.user \in 0 .. MaxEntries /\ entries.slips \in 0 .. MaxSlips

\* The wizard shows no part of a role that was not chosen.
PartsAsChosen == setup.show => \A r \in Roles : Shows2(r) => On(setup.json, "common", r)

\* A machine that was installed by the wizard has the roles that were chosen
\* last, and of each of these roles exactly the settings that the user read in
\* its form after he had chosen it; the rest is as it was before, however often
\* he went back and forth, chose other roles, or sent what he entered again.
InstalledAsAgreed ==
    origin.by = "wizard" =>
        LET chosen == {r \in Roles : origin.agreed.common[r] # ""}
            has(r, f) == r \in chosen /\ (f = "host1" => origin.agreed.client.hasServer # "")
        IN /\ ~origin.before.installed /\ target.modes = chosen
           /\ \A r \in Roles : \A f \in DOMAIN target[r] :
                 target[r][f] = IF has(r, f) THEN origin.agreed[r][f] ELSE origin.before[r][f]

\* Both: what is installed is what was chosen and read.
InstallsAsRead == PartsAsChosen /\ InstalledAsAgreed
=============================================================================
