--------------------------- MODULE LiveSourceKinds ---------------------------
(***************************************************************************)
(* The Live Source Kinds: what each of the five lists, and why it cannot   *)
(* capture a choice (live_source.cpp, local_source.cpp, adb_source.cpp,    *)
(* ssh_source.cpp, extcap_source.cpp, command_source.cpp).                 *)
(*                                                                         *)
(* Texts are abstract: "" is empty, "bad" one the kind refuses.  A reason  *)
(* is the name of its check; "" is none.  What a program that lists said   *)
(* is a record of Said; which options a kind has, OptionsOf.               *)
(***************************************************************************)
EXTENDS Integers, FiniteSets

CONSTANTS
    Devices,    \* the devices there are: serials, hosts, extcaps
    Interfaces  \* their interfaces

\* No device and no interface is empty, or refused.
ASSUME TextsAssumption == {"", "bad"} \cap (Devices \cup Interfaces) = {}

Kinds == {"local", "adb", "ssh", "extcap", "command"}

\* LiveSourceKind::devices()
DevicesOf(kind) ==
    IF kind \in {"adb", "extcap"} THEN "listed" ELSE IF kind = "ssh" THEN "typed" ELSE "none"

\* The options of a kind: ssh's sudo; the value of an argument an extcap
\* requires; whether the custom command is empty, refused or uses {interface}.
OptionsOf(kind) ==
    IF kind = "ssh" THEN {"sudo", "plain"}
    ELSE IF kind = "extcap" THEN {"", "value"}
    ELSE IF kind = "command" THEN {"", "bad", "line", "line {interface}"}
    ELSE {""}

\* LiveChoice; of the filter, the snaplen and the limits, what is wrong.
Texts(known) == known \cup {"", "bad"}
Choice == [source : Kinds, device : Texts(Devices), interface : Texts(Interfaces),
           common : {"", "snaplen", "filter", "limits"},
           options : UNION {OptionsOf(kind) : kind \in Kinds}]

-----------------------------------------------------------------------------
(* Listings.                                                               *)

\* What came of a program that lists: runListing(), its exit code (255 is ssh's
\* own), the interfaces it wrote, and what it wrote to stderr.
Said == [error : BOOLEAN, code : {0, 1, 255}, lines : SUBSET Interfaces,
         denied : BOOLEAN]

Nothing(why) == [targets |-> {}, error |-> why, cannotCapture |-> ""]
Listed(targets) == [targets |-> targets, error |-> "", cannotCapture |-> ""]

\* LocalSourceKind::listInterfaces(): macOS lists interfaces it may not open.
LocalListing(available, said, bpfUnreadable) ==
    IF ~available THEN Nothing("install")
    ELSE IF said.error THEN Nothing("listing")
    ELSE IF said.code # 0
         THEN [targets |-> said.lines, error |-> "exited",
               cannotCapture |-> IF said.denied THEN "denied" ELSE ""]
    ELSE IF said.lines = {} THEN Nothing("none listed")
    ELSE IF bpfUnreadable
         THEN [targets |-> said.lines, error |-> "denied", cannotCapture |-> "denied"]
    ELSE Listed(said.lines)

\* CustomCommandSourceKind::listInterfaces(): a suggestion, which never fails.
CommandListing(local) ==
    IF local.error # "" \/ local.targets = {} THEN Nothing("type it") ELSE local

\* SshDestination::parse()
HostProblem(device) == IF device = "" THEN "enter a host" ELSE IF device = "bad" THEN "no host" ELSE ""

\* explainSshFailure(): the first of these that the error shows.
SshFailures == <<"host key changed", "host key unknown", "key refused", "sudo password",
                 "no tcpdump", "no sudo", "denied", "unreachable">>
ExplainSsh(shown) ==
    IF \E i \in DOMAIN SshFailures : SshFailures[i] \in shown
    THEN SshFailures[CHOOSE i \in DOMAIN SshFailures :
                        /\ SshFailures[i] \in shown
                        /\ \A j \in 1..(i - 1) : SshFailures[j] \notin shown]
    ELSE ""

\* SshSourceKind::listInterfacesWith(): ip -o link lists what tcpdump -D does not.
SshListing(device, available, said, fromIp) ==
    IF HostProblem(device) # "" THEN Nothing(HostProblem(device))
    ELSE IF ~available THEN Nothing("install")
    ELSE IF said.error THEN Nothing("listing")
    ELSE [targets |-> said.lines,
          error |-> IF said.code = 0 /\ fromIp /\ said.lines # {} THEN "tcpdump listed nothing"
                    ELSE IF said.code # 0
                    THEN IF said.denied THEN ExplainSsh({"denied"}) ELSE "exited"
                    ELSE IF said.lines = {} THEN "none listed" ELSE "",
          cannotCapture |-> ""]

\* AdbSourceKind::listDevices(), and listInterfaces(), which probes the device.
AdbDevices(available, said, seen) ==
    IF ~available THEN Nothing("install")
    ELSE IF said.error \/ said.code # 0 THEN Nothing("listing")
    ELSE IF seen = {} THEN Nothing("no device")
    ELSE Listed(seen)
AdbListing(device, available, said, root) ==
    IF device = "" THEN Nothing("")
    ELSE IF ~available THEN Nothing("install")
    ELSE IF said.error \/ said.code # 0 THEN Nothing("listing")
    ELSE [targets |-> said.lines \cup {"any"}, error |-> IF root THEN "" ELSE "no root",
          cannotCapture |-> ""]

\* ExtcapSourceKind::listDevices(), listInterfaces(): one after another within
\* the timeout; one that fails is listed with why.
ExtcapDevices(there) == IF there = {} THEN Nothing("install") ELSE Listed(there)
ExtcapListing(device, there, said) ==
    IF device \notin there THEN Nothing("no extcap")
    ELSE IF said.error \/ said.code # 0 THEN Nothing("listing")
    ELSE IF said.lines = {} THEN Nothing("none listed")
    ELSE Listed(said.lines)

\* What a listing of a kind may answer.
DeviceAnswers(kind, available) ==
    IF kind = "adb" THEN {AdbDevices(available, said, seen) : said \in Said, seen \in SUBSET Devices}
    ELSE IF kind = "extcap" THEN {ExtcapDevices(IF available THEN Devices ELSE {})}
    ELSE {Listed(hosts) : hosts \in SUBSET Devices}

InterfaceAnswers(kind, device, available) ==
    IF kind = "local"
    THEN {LocalListing(available, said, bpf) : said \in Said, bpf \in BOOLEAN}
    ELSE IF kind = "command"
    THEN {CommandListing(LocalListing(there, said, bpf)) :
            said \in Said, bpf \in BOOLEAN, there \in BOOLEAN}
    ELSE IF kind = "ssh"
    THEN {SshListing(device, available, said, ip) : said \in Said, ip \in BOOLEAN}
    ELSE IF kind = "adb"
    THEN {AdbListing(device, available, said, root) : said \in Said, root \in BOOLEAN}
    ELSE {ExtcapListing(device, IF available THEN Devices ELSE {}, said) : said \in Said}

-----------------------------------------------------------------------------
(* Checks of a choice.                                                     *)

\* LiveSourceKind::validate()
InterfaceProblem(choice) == IF choice.interface = "" THEN "choose an interface" ELSE ""

\* A text the kind refuses: control characters, a name no device has.
RefusedInterface(choice) ==
    IF choice.interface = "bad" THEN "no interface" ELSE InterfaceProblem(choice)

AdbProblem(choice) ==
    IF choice.device = "" THEN "choose a device"
    ELSE IF choice.device = "bad" THEN "no serial"
    ELSE RefusedInterface(choice)

SshProblem(choice) ==
    IF HostProblem(choice.device) # "" THEN HostProblem(choice.device)
    ELSE RefusedInterface(choice)

\* ExtcapSourceKind::validate(): the arguments' rules once they are known.
extcapArgumentProblem(options) == IF options = "" THEN "required" ELSE ""
ExtcapProblem(choice, there, known) ==
    IF choice.device = "" THEN "choose an extcap"
    ELSE IF choice.device \notin there THEN "no extcap"
    ELSE IF InterfaceProblem(choice) # "" THEN InterfaceProblem(choice)
    ELSE IF <<choice.device, choice.interface>> \in known THEN extcapArgumentProblem(choice.options)
    ELSE ""

\* customCommand()
CommandProblem(choice) ==
    IF choice.options = "" THEN "enter a command"
    ELSE IF choice.options = "bad" THEN "no command"
    ELSE IF choice.options = "line {interface}" /\ choice.interface = "bad" THEN "no interface"
    ELSE IF choice.options = "line {interface}" THEN InterfaceProblem(choice)
    ELSE ""

\* liveChoiceProblem(), for the kinds that are available and the extcap
\* interfaces whose arguments are known.
liveChoiceProblem(choice, available, known) ==
    IF choice.source \notin Kinds THEN "no source"
    ELSE IF choice.source \notin available THEN "unavailable"
    ELSE IF choice.common # "" THEN choice.common
    ELSE IF choice.source = "local" THEN InterfaceProblem(choice)
    ELSE IF choice.source = "adb" THEN AdbProblem(choice)
    ELSE IF choice.source = "ssh" THEN SshProblem(choice)
    ELSE IF choice.source = "extcap" THEN ExtcapProblem(choice, Devices, known)
    ELSE CommandProblem(choice)
=============================================================================
