--------------------------- MODULE LiveCaptureForm ---------------------------
(***************************************************************************)
(* The live capture form in its dialog (live_capture_form.cpp), with the   *)
(* options of an extcap (extcap_options.cpp): what the user chooses, the   *)
(* listings that run on worker threads meanwhile, and whether Start is     *)
(* offered.                                                                *)
(*                                                                         *)
(* The form counts the changes of source and device, and shows a listing   *)
(* only if none came after it started: `current' holds while that is so.   *)
(* The extcap's options do the same for their own target.                  *)
(***************************************************************************)
EXTENDS LiveSourceKinds

CONSTANTS
    MaxListings,  \* bound: the listings, or questions to an extcap, at once
    MaxEdits      \* bound: what the user changes

ASSUME FormAssumption == MaxListings \in Nat /\ MaxEdits \in Nat

VARIABLES
    available,  \* the kinds whose program is installed
    source,     \* the source picked
    device,     \* what the device's field holds
    interface,  \* what the interface's field holds
    common,     \* what is wrong with the filter, the snaplen, the limits
    options,    \* the options of each source
    wanted,     \* wanted_: the choice shown, or chosen as Refresh was pressed
    cannot,     \* cannotCapture_
    listings,   \* the listings running
    listed,     \* history: <<kind, device>> the interface's list is of, or <<>>
    target,     \* the extcap's options: the device and interface they are of
    pending,     \* ... whether they are being asked for, or will be
    asks,       \* ... the questions running
    known,      \* knownArgs_: the <<extcap, interface>> whose arguments are known
    start,      \* whether the Start button is enabled
    edits       \* bound: the changes the user made

chosenVars == <<source, device, interface, common, options>>
extcapVars == <<target, pending, asks, known>>
formVars == <<available, chosenVars, wanted, cannot, listings, listed, extcapVars, start, edits>>

Listing == [what : {"devices", "interfaces"}, kind : Kinds, device : Texts(Devices),
            options : UNION {OptionsOf(kind) : kind \in Kinds}, current : BOOLEAN]
Question == [target : Texts(Devices) \X (Texts(Interfaces) \cup {"any"}), current : BOOLEAN,
             answer : {"none", "args", "error"}]

FormTypeOK ==
    /\ available \subseteq Kinds
    /\ source \in Kinds
    /\ device \in Texts(Devices)
    /\ interface \in Texts(Interfaces) \cup {"any"}
    /\ common \in {"", "snaplen", "filter", "limits"}
    /\ options \in [Kinds -> UNION {OptionsOf(kind) : kind \in Kinds}]
    /\ cannot \in {"", "denied"}
    /\ listings \subseteq Listing
    /\ asks \subseteq Question
    /\ pending \in BOOLEAN /\ start \in BOOLEAN /\ edits \in 0..MaxEdits

\* LiveCaptureForm::choice()
choice == [source |-> source, device |-> IF DevicesOf(source) = "none" THEN "" ELSE device,
           interface |-> interface, common |-> common, options |-> options[source]]

\* LiveCaptureForm::problem(), with ExtcapOptionsWidget::problem().
problem ==
    IF cannot # "" THEN cannot
    ELSE IF liveChoiceProblem(choice, available, known) # ""
         THEN liveChoiceProblem(choice, available, known)
    ELSE IF source = "extcap" /\ pending /\ target[1] # "" /\ target[2] # "" THEN "asking"
    ELSE ""

\* changed(): the dialog asks problem() again.
Changed == start' = (problem' = "")

\* A listing starts: runListing().
Stale(running) == {[l EXCEPT !.current = FALSE] : l \in running}
Start(what, kind, of, running) ==
    running \cup {[what |-> what, kind |-> kind, device |-> of, options |-> options[kind],
                   current |-> TRUE]}

\* ExtcapOptionsWidget::setTarget(), which says changed() too.
setTarget(new) ==
    IF new = target THEN UNCHANGED <<target, pending, asks>>
    ELSE /\ target' = new
         /\ pending' = TRUE
         /\ asks' = Stale(asks)

\* tellTarget(), for the device and interface the fields hold next.
tellTarget ==
    IF source = "extcap" THEN setTarget(<<device', interface'>>) ELSE UNCHANGED <<target, pending, asks>>

-----------------------------------------------------------------------------
(* The source.                                                             *)

\* sourceChanged() to kind: another extcap's options are gone, the questions
\* with them.
sourceChanged(kind, remembered) ==
    /\ source' = kind
    /\ device' = IF remembered.source = kind /\ DevicesOf(kind) = "typed" THEN remembered.device ELSE ""
    /\ interface' = IF remembered.source = kind THEN remembered.interface ELSE ""
    /\ cannot' = ""
    /\ listed' = <<>>
    /\ listings' = IF kind \in available
                   THEN Start(IF DevicesOf(kind) = "none" THEN "interfaces" ELSE "devices", kind, "",
                              Stale(listings))
                   ELSE Stale(listings)
    /\ target' = IF kind = "extcap" THEN <<"", interface'>> ELSE <<"", "">>
    /\ pending' = (target' # <<"", "">>)
    /\ asks' = {}

Room == Cardinality(listings) < MaxListings

PickSource(kind) ==
    /\ Room
    /\ sourceChanged(kind, wanted)
    /\ UNCHANGED <<available, common, options, wanted, known>>
    /\ Changed

\* setChoice(): a choice remembered is shown.
setChoice(remembered) ==
    /\ Room
    /\ wanted' = remembered
    /\ common' = remembered.common
    /\ options' = [options EXCEPT ![remembered.source] = remembered.options]
    /\ sourceChanged(remembered.source, remembered)
    /\ UNCHANGED <<available, known>>
    /\ Changed

\* The program of a kind is installed; nothing tells the form.
Install(kind) ==
    /\ kind \notin available
    /\ available' = available \cup {kind}
    /\ UNCHANGED <<chosenVars, wanted, cannot, listings, listed, extcapVars, start>>

\* refresh()
refresh ==
    /\ Room
    /\ UNCHANGED <<available, common, options, known>>
    /\ IF source \notin available
       THEN UNCHANGED wanted /\ sourceChanged(source, wanted) /\ Changed
       ELSE /\ wanted' = choice
            /\ listings' = Start(IF DevicesOf(source) = "none" THEN "interfaces" ELSE "devices",
                                 source, "", Stale(listings))
            /\ UNCHANGED <<source, device, interface, cannot, listed, target, pending, asks, start>>

-----------------------------------------------------------------------------
(* The fields.                                                             *)

\* A device is chosen from the list, or entered: its interfaces.
PickDevice(picked) ==
    /\ DevicesOf(source) # "none"
    /\ source \in available
    /\ Room
    /\ device' = picked
    /\ listings' = Start("interfaces", source, picked, Stale(listings))
    /\ UNCHANGED interface
    /\ tellTarget
    /\ UNCHANGED <<available, source, common, options, wanted, cannot, listed, known>>
    /\ IF target' = target THEN UNCHANGED start ELSE Changed

\* A host is typed: only the options are told.
TypeDevice(text) ==
    /\ DevicesOf(source) = "typed"
    /\ source \in available
    /\ device' = text
    /\ UNCHANGED <<available, source, interface, common, options, wanted, cannot, listings, listed,
                   extcapVars, start>>

PickInterface(picked) ==
    /\ source \in available
    /\ interface' = picked
    /\ UNCHANGED device
    /\ tellTarget
    /\ UNCHANGED <<available, source, common, options, wanted, cannot, listings, listed, known>>
    /\ Changed

EditCommon(wrong) ==
    /\ common' = wrong
    /\ UNCHANGED <<available, source, device, interface, options, wanted, cannot, listings, listed,
                   extcapVars>>
    /\ Changed

\* An option of the source; ssh lists its interfaces anew, beside the listing
\* that may run (showOptionsWidget()).
EditOptions(value) ==
    /\ source \in available
    /\ value \in OptionsOf(source) \ {options[source]}
    /\ Room
    /\ options' = [options EXCEPT ![source] = value]
    /\ listings' = IF source = "ssh" /\ device # ""
                   THEN listings \cup {[what |-> "interfaces", kind |-> source, device |-> device,
                                        options |-> value, current |-> TRUE]}
                   ELSE listings
    /\ UNCHANGED <<available, source, device, interface, common, wanted, cannot, listed, extcapVars>>
    /\ Changed

-----------------------------------------------------------------------------
(* The answers.                                                            *)

\* fill(): what the field may hold then.
Fill(targets, remembered, before) ==
    IF remembered \in targets THEN {remembered}
    ELSE IF before \in targets THEN {before}
    ELSE targets \cup {""}

\* The wanted device or interface, if it is of the listing's kind.
Wanted(kind, field) == IF wanted.source = kind THEN field ELSE ""

\* Variant: an answer for a source no longer chosen is shown.
FormerShown(l) == TRUE
\* Whether an answer is shown.
IsShown(l) == l.current

Drop(l) ==
    /\ ~IsShown(l)
    /\ listings' = listings \ {l}
    /\ UNCHANGED <<available, chosenVars, wanted, cannot, listed, extcapVars, start>>

\* What the form does with the devices: listDevices().
DevicesListed(l, answer) ==
    /\ device' \in IF DevicesOf(l.kind) = "typed"
                   THEN {IF device = "" THEN Wanted(l.kind, wanted.device) ELSE device}
                   ELSE Fill(answer.targets, Wanted(l.kind, wanted.device), device)
    /\ UNCHANGED interface
    /\ tellTarget
    /\ UNCHANGED <<available, source, common, options, wanted, listed, known>>
    /\ IF answer.error # "" \/ device' = ""
       THEN /\ cannot' = answer.cannotCapture
            /\ listings' = listings \ {l}
            /\ Changed
       ELSE /\ listings' = Start("interfaces", source, device', listings \ {l})
            /\ UNCHANGED cannot
            /\ IF target' = target THEN UNCHANGED start ELSE Changed

\* ... and the interfaces: listInterfaces().
InterfacesListed(l, answer) ==
    LET remembered == Wanted(l.kind, wanted.interface)
    IN  /\ interface' \in IF remembered \notin answer.targets /\ remembered # "" THEN {remembered}
                          ELSE IF answer.targets = {} /\ interface # "" THEN {interface}
                          ELSE Fill(answer.targets, remembered, interface)
        /\ cannot' = answer.cannotCapture
        /\ listings' = listings \ {l}
        /\ listed' = <<l.kind, l.device>>
        /\ UNCHANGED device
        /\ tellTarget
        /\ UNCHANGED <<available, source, common, options, wanted, known>>
        /\ Changed

Answered(l) ==
    /\ IsShown(l)
    /\ \/ /\ l.what = "devices"
          /\ \E answer \in DeviceAnswers(l.kind, l.kind \in available) : DevicesListed(l, answer)
       \/ /\ l.what = "interfaces"
          /\ \E answer \in InterfaceAnswers(l.kind, l.device, l.kind \in available) :
                InterfacesListed(l, answer)

-----------------------------------------------------------------------------
(* The extcap's arguments.                                                 *)

\* The target has settled: ExtcapOptionsWidget::list().
AskExtcap ==
    /\ source = "extcap" /\ pending
    /\ ~\E q \in asks : q.current
    /\ Cardinality(asks) < MaxListings
    /\ IF "" \in {target[1], target[2]}
       THEN pending' = FALSE /\ UNCHANGED asks
       ELSE /\ asks' = asks \cup {[target |-> target, current |-> TRUE, answer |-> "none"]}
            /\ UNCHANGED pending
    /\ UNCHANGED <<available, chosenVars, wanted, cannot, listings, listed, target, known>>
    /\ Changed

\* ExtcapSourceKind::config() on its thread: one that was cancelled fails.
config(q) ==
    /\ q.answer = "none"
    /\ \E answer \in IF q.current THEN {"args", "error"} ELSE {"error"} :
        /\ asks' = (asks \ {q}) \cup {[q EXCEPT !.answer = answer]}
        /\ known' = IF answer = "args" THEN known \cup {q.target} ELSE known \ {q.target}
    /\ UNCHANGED <<available, chosenVars, wanted, cannot, listings, listed, target, pending, start>>

\* Its answer comes to the widget: show(), if it is for the target.
Show(q) ==
    /\ q.answer # "none"
    /\ asks' = asks \ {q}
    /\ UNCHANGED <<available, chosenVars, wanted, cannot, listings, listed, target, known>>
    /\ IF q.current THEN pending' = FALSE /\ Changed ELSE UNCHANGED <<pending, start>>

-----------------------------------------------------------------------------
NoChoice == [source |-> "local", device |-> "", interface |-> "", common |-> "", options |-> ""]

FormInit ==
    /\ available \in {Kinds, Kinds \ {"adb"}}
    /\ source = "local" /\ device = "" /\ interface = "" /\ common = ""
    /\ options = [kind \in Kinds |-> IF kind = "ssh" THEN "sudo" ELSE ""]
    /\ wanted = NoChoice
    /\ cannot = ""
    /\ listings = {[what |-> "interfaces", kind |-> "local", device |-> "", options |-> "",
                    current |-> TRUE]}
    /\ listed = <<>>
    /\ target = <<"", "">> /\ pending = FALSE /\ asks = {} /\ known = {}
    /\ start = FALSE /\ edits = 0

\* The choices settings.ini may remember, of the kinds there are.
Remembered == {c \in Choice : /\ c.options \in OptionsOf(c.source) /\ c.common = ""
                              /\ "bad" \notin {c.device, c.interface, c.options}
                              /\ c.device = "" <=> DevicesOf(c.source) = "none"}

\* What the user does, and what comes of it.
Edit ==
    \/ \E kind \in Kinds : PickSource(kind)
    \/ \E c \in Remembered : setChoice(c)
    \/ refresh
    \/ \E d \in Devices : PickDevice(d)
    \/ \E text \in Texts(Devices) : TypeDevice(text)
    \/ \E i \in Texts(Interfaces) : PickInterface(i)
    \/ \E wrong \in {"", "filter"} : EditCommon(wrong)
    \/ \E value \in OptionsOf(source) : EditOptions(value)

Answer ==
    \/ \E kind \in Kinds : Install(kind)
    \/ \E l \in listings : Drop(l) \/ Answered(l)
    \/ AskExtcap
    \/ \E q \in asks : config(q) \/ Show(q)

FormNext ==
    \/ edits < MaxEdits /\ Edit /\ edits' = edits + 1
    \/ Answer /\ UNCHANGED edits

FormSpec == FormInit /\ [][FormNext]_formVars

-----------------------------------------------------------------------------
(* What the code must keep.                                                *)

\* Start is offered only for what can be captured: whatever answers meanwhile,
\* in whatever order, no change of the form leaves Start enabled with a
\* problem.  (A host that is typed is checked as it is entered, and as the
\* capture starts.)
StartIsTrue == start /\ DevicesOf(source) # "typed" => problem = ""

\* The interfaces offered are of the source chosen; once nothing is listed any
\* more they are of the device chosen too, unless the devices could not be
\* listed then.
ListIsOfTheChoice ==
    listed # <<>> =>
        /\ listed[1] = source
        /\ (\A l \in listings : ~l.current) /\ DevicesOf(source) = "listed" =>
                listed[2] = device \/ device = ""

\* The form offers what can be captured: Start, and the interfaces of the choice made
\* last, in whatever order the listings answer.
FormIsTrue == FormTypeOK /\ StartIsTrue /\ ListIsOfTheChoice
=============================================================================
