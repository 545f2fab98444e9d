---------------------------- MODULE MCPacketPanel ----------------------------
(***************************************************************************)
(* What the sidebar shows, for TLC: the Packet Panel over the catalog, and *)
(* the Stream tab as the user works in it, and the Conversations table,    *)
(* each explored by itself.                                                *)
(***************************************************************************)
EXTENDS PacketPanel, ConversationTable

CONSTANT Parts  \* the parts explored
VARIABLE part   \* the one explored

Chunk(d, m, b) == [direction |-> d, missing |-> m, bytes |-> b]
Tcp == [udp |-> FALSE, packets |-> <<Chunk(0, 0, <<"x", "x">>), Chunk(0, 0, <<"x">>), Chunk(1, 2, <<>>)>>]
Udp == [udp |-> TRUE, packets |-> <<Chunk(1, 0, <<"x">>), Chunk(1, 0, <<"x", "nl">>)>>]
Tab == [file |-> "", number |-> 0]
\* The streams of the captures shown are one packet long.
MCContents == [s \in Indexes \X {1, 2} |->
    IF s[1] = Tab THEN IF s[2] = 1 THEN Tcp ELSE Udp ELSE [Tcp EXCEPT !.packets = <<@[1]>>]]

Line(is, number, stream) == [result |-> "lines", isPacketLine |-> is, packet |-> [number |-> number, stream |-> stream]]
MCSelections ==
    {Line(TRUE, 1, "numbered"), Line(TRUE, 2, "unnumbered"),
     [Line(TRUE, 1, "numbered") EXCEPT !.result = "no selection"]}

Row(id, bytes, packets) == [id |-> id, bytes |-> bytes, packets |-> packets]
MCSnapshots ==
    {[rows |-> <<Row(1, 5, 2), Row(2, 3, 2)>>, other |-> 0],
     [rows |-> <<Row(1, 5, 2), Row(2, 9, 4), Row(3, 5, 1)>>, other |-> 2],
     [rows |-> <<Row(3, 1, 1)>>, other |-> 0]}

allVars == <<part, catalogVars, panelVars, viewVars, tableVars>>

PartsInit == part \in Parts /\ CatalogInit /\ PanelInit /\ ViewInit /\ TableInit /\ (part # "table" => saved = {})

\* The streams of the Stream tab by itself are those of one index.
ViewNext ==
    \/ UserInView \/ (view.generation < 3 /\ ClearView)
    \/ \E n \in {1, 2} : Follow(<<Tab, n>>) \/ FileChanges(<<Tab, n>>)
    \/ ReadStep \/ ExportBegins \/ ExportStep \/ Told

\* The panel's part follows one stream, and begins no read of it anew.
PartsNext ==
    \/ part = "panel" /\ PanelNext /\ view'.task <= 1 /\ UNCHANGED <<part, tableVars>>
    \/ part = "panel" /\ (ReadStep \/ Told) /\ UNCHANGED <<part, catalogVars, panelVars, tableVars>>
    \/ part = "view" /\ ViewNext /\ UNCHANGED <<part, catalogVars, panelVars, tableVars>>
    \/ part = "table" /\ TableNext /\ UNCHANGED <<part, catalogVars, panelVars, viewVars>>

PartsSpec == PartsInit /\ [][PartsNext]_allVars


=============================================================================
