------------------------- MODULE PacketPanelProofs -------------------------
(***************************************************************************)
(* Proofs about the sidebar: the Capture Catalog, the Stream tab, the      *)
(* Packet Panel over them, and the Conversations table.  What is shown is  *)
(* of the tab in front, of the stream followed, and of the last summary.   *)
(***************************************************************************)
EXTENDS PacketPanel, ConversationTable, FoldProofs, FiniteSetTheorems, SequenceTheorems

-----------------------------------------------------------------------------
(* The Capture Catalog.                                                    *)

(***************************************************************************)
(* The inductive invariant, in three parts.  That the sidebar drew what is *)
(* in front is kept as each change that concerns the front is announced,   *)
(* and a capture that starts or ends concerns it through its live files    *)
(* alone.  One entry at most has the hint, as none has it before it is     *)
(* shown.                                                                  *)
(***************************************************************************)

\* The types, and the bound of the changes.
TypeInv ==
    /\ CatalogTypeOK
    /\ updates \in 0..MaxUpdates

\* None has the hint before it was shown, and one at most has it.
HintInv ==
    /\ ~formatHintShown => \A k \in Kept : ~entries[k].withFormatHint
    /\ \A k, l \in Kept : entries[k].withFormatHint /\ entries[l].withFormatHint => k = l

\* The files of a running capture are kept, as captures that are raw.
LiveInv == \A k \in liveKeys : isKept(k) /\ entries[k].raw

\* What was drawn is what is in front.
FrontInv == shown = front

USE CatalogAssumption

-----------------------------------------------------------------------------
(* The types.                                                              *)

\* An entry that is not there is an entry, too.
LEMMA NoEntryType == NoEntry \in Entry
BY DEF NoEntry, Entry, Indexes

\* The index of a change is one of its file.
LEMMA NextIndex ==
    ASSUME TypeInv, Changed, NEW key \in Kept
    PROVE  /\ [file |-> key, number |-> updates + 1] \in Indexes
           /\ updates + 1 \in 0..MaxUpdates
BY DEF TypeInv, Changed, Indexes

\* An entry that is kept becomes the key's, with the hint or without.
LEMMA KeepType ==
    ASSUME TypeInv, NEW key \in Kept, NEW entry \in Entry, Keep(key, entry)
    PROVE  /\ entries' \in [Kept -> Entry] /\ formatHintShown' \in BOOLEAN
           /\ updates' \in 0..MaxUpdates
<1>1. [entry EXCEPT !.withFormatHint = ~formatHintShown] \in Entry
    BY DEF Entry, TypeInv, CatalogTypeOK
<1>2. entries' \in [Kept -> Entry]
    BY <1>1 DEF TypeInv, CatalogTypeOK, Keep
<1>3. updates' \in 0..MaxUpdates
    BY DEF TypeInv, Keep, Changed
<1> QED
    BY <1>2, <1>3 DEF Keep

\* Every step of the catalog keeps the types.
LEMMA TypeStep == TypeInv /\ [CatalogNext]_catalogVars => TypeInv'
<1> SUFFICES ASSUME TypeInv, [CatalogNext]_catalogVars PROVE TypeInv'
    OBVIOUS
<1>k. Converted \subseteq Kept /\ LiveFiles \subseteq Kept /\ Kept \subseteq Keys
    BY DEF Kept, Keys
<1>1. CASE startLive \/ endLive
    <2>1. UNCHANGED <<entries, frontKey, formatHintShown>> /\ liveKeys' \subseteq liveKeys
        BY <1>1 DEF startLive, endLive
    <2>2. capturing' \in BOOLEAN
        BY <1>1 DEF startLive, endLive
    <2>3. updates' \in 0..MaxUpdates
        BY <1>1 DEF TypeInv, startLive, endLive, Changed
    <2> QED
        BY <2>1, <2>2, <2>3 DEF TypeInv, CatalogTypeOK
<1>2. ASSUME NEW k \in Converted, KeepConverted(k) PROVE TypeInv'
    <2>1. Changed /\ k \in Kept
        BY <1>2, <1>k DEF KeepConverted, Keep
    <2> DEFINE entry == [NoEntry EXCEPT !.index = [file |-> k, number |-> updates + 1],
                                        !.summary = updates + 1]
    <2>2. entry \in Entry
        BY <2>1, NextIndex, NoEntryType DEF Entry
    <2>3. Keep(k, entry)
        BY <1>2 DEF KeepConverted
    <2> HIDE DEF entry
    <2>4. /\ entries' \in [Kept -> Entry] /\ formatHintShown' \in BOOLEAN
          /\ updates' \in 0..MaxUpdates
        BY <2>1, <2>2, <2>3, KeepType
    <2> QED
        BY <1>2, <2>4 DEF TypeInv, CatalogTypeOK, KeepConverted
<1>3. ASSUME NEW k \in LiveFiles, openLiveFile(k) PROVE TypeInv'
    <2> DEFINE entry == [NoEntry EXCEPT !.raw = TRUE]
    <2>1. entry \in Entry
        BY NoEntryType DEF Entry
    <2>2. Keep(k, entry)
        BY <1>3 DEF openLiveFile
    <2> HIDE DEF entry
    <2>3. /\ entries' \in [Kept -> Entry] /\ formatHintShown' \in BOOLEAN
          /\ updates' \in 0..MaxUpdates
        BY <1>k, <2>1, <2>2, KeepType
    <2> QED
        BY <1>3, <2>3 DEF TypeInv, CatalogTypeOK, openLiveFile
<1>4. ASSUME NEW k \in LiveFiles, setFileError(k) PROVE TypeInv'
    <2>1. [entries[k] EXCEPT !.error = TRUE] \in Entry
        BY <1>k DEF TypeInv, CatalogTypeOK, Entry
    <2>2. entries' \in [Kept -> Entry]
        BY <1>4, <2>1 DEF setFileError, TypeInv, CatalogTypeOK
    <2> QED
        BY <1>4, <2>2 DEF TypeInv, CatalogTypeOK, setFileError, Changed
<1>5. ASSUME NEW k \in LiveFiles, NEW withIndex \in BOOLEAN, updateFile(k, withIndex)
      PROVE  TypeInv'
    <2>1. Changed /\ k \in Kept
        BY <1>5, <1>k DEF updateFile
    <2> DEFINE index == IF withIndex THEN [file |-> k, number |-> updates + 1] ELSE entries[k].index
    <2>2. index \in Indexes
        BY <2>1, NextIndex DEF TypeInv, CatalogTypeOK, Entry
    <2>3. [entries[k] EXCEPT !.summary = updates + 1, !.index = index] \in Entry
        BY <2>1, <2>2, NextIndex DEF TypeInv, CatalogTypeOK, Entry
    <2>4. entries' \in [Kept -> Entry]
        <3>1. CASE ~isKept(k)
            BY <1>5, <3>1 DEF updateFile, TypeInv, CatalogTypeOK
        <3>2. CASE isKept(k)
            <4>1. entries' = [entries EXCEPT ![k] = [entries[k] EXCEPT !.summary = updates + 1,
                                                                       !.index = index]]
                BY <1>5, <2>1, <3>2 DEF updateFile, TypeInv, CatalogTypeOK, Entry
            <4> HIDE DEF index
            <4> QED
                BY <4>1, <2>3 DEF TypeInv, CatalogTypeOK
        <3> QED
            BY <3>1, <3>2
    <2> QED
        BY <1>5, <2>4 DEF TypeInv, CatalogTypeOK, updateFile, Changed
<1>6. ASSUME NEW k \in Kept, updateSummary(k) PROVE TypeInv'
    <2>1. Changed
        BY <1>6 DEF updateSummary
    <2>2. [entries[k] EXCEPT !.summary = updates + 1] \in Entry
        BY <2>1, NextIndex DEF TypeInv, CatalogTypeOK, Entry
    <2>3. entries' \in [Kept -> Entry]
        BY <1>6, <2>2 DEF updateSummary, TypeInv, CatalogTypeOK
    <2> QED
        BY <1>6, <2>3 DEF TypeInv, CatalogTypeOK, updateSummary, Changed
<1>7. ASSUME NEW k \in Keys, setFront(k) PROVE TypeInv'
    BY <1>7 DEF TypeInv, CatalogTypeOK, setFront
<1>8. CASE UNCHANGED catalogVars
    BY <1>8 DEF TypeInv, CatalogTypeOK, catalogVars
<1> QED
    BY <1>1, <1>2, <1>3, <1>4, <1>5, <1>6, <1>7, <1>8 DEF CatalogNext

-----------------------------------------------------------------------------
(* The hint.                                                               *)

\* Keeping a live file's or a converted entry keeps the hint with one at most.
LEMMA KeepHint ==
    ASSUME TypeInv, HintInv, NEW key \in Kept, NEW entry \in Entry, Keep(key, entry)
    PROVE  HintInv'
<1>1. /\ formatHintShown' = TRUE
      /\ \A k \in Kept : entries'[k].withFormatHint =
             IF k = key THEN ~formatHintShown ELSE entries[k].withFormatHint
    BY DEF Keep, TypeInv, CatalogTypeOK, Entry
<1>2. ASSUME NEW k \in Kept, NEW l \in Kept, entries'[k].withFormatHint, entries'[l].withFormatHint
      PROVE  k = l
    <2>1. CASE formatHintShown
        BY <1>1, <1>2, <2>1 DEF HintInv
    <2>2. CASE ~formatHintShown
        BY <1>1, <1>2, <2>2 DEF HintInv
    <2> QED
        BY <2>1, <2>2
<1> QED
    BY <1>1, <1>2 DEF HintInv

\* What changes no entry's hint keeps it.
LEMMA SameHints ==
    ASSUME HintInv, formatHintShown' = formatHintShown,
           \A k \in Kept : entries'[k].withFormatHint = entries[k].withFormatHint
    PROVE  HintInv'
BY DEF HintInv

\* Every step of the catalog leaves one entry at most with the hint.
LEMMA HintStep == TypeInv /\ HintInv /\ [CatalogNext]_catalogVars => HintInv'
<1> SUFFICES ASSUME TypeInv, HintInv, [CatalogNext]_catalogVars PROVE HintInv'
    OBVIOUS
<1>k. Converted \subseteq Kept /\ LiveFiles \subseteq Kept
    BY DEF Kept
<1>1. ASSUME NEW k \in Converted, KeepConverted(k) PROVE HintInv'
    <2> DEFINE entry == [NoEntry EXCEPT !.index = [file |-> k, number |-> updates + 1],
                                        !.summary = updates + 1]
    <2>1. Changed /\ k \in Kept /\ Keep(k, entry)
        BY <1>1, <1>k DEF KeepConverted, Keep
    <2>2. entry \in Entry
        BY <2>1, NextIndex, NoEntryType DEF Entry
    <2> HIDE DEF entry
    <2> QED
        BY <2>1, <2>2, KeepHint
<1>2. ASSUME NEW k \in LiveFiles, openLiveFile(k) PROVE HintInv'
    <2> DEFINE entry == [NoEntry EXCEPT !.raw = TRUE]
    <2>1. Keep(k, entry) /\ k \in Kept
        BY <1>2, <1>k DEF openLiveFile
    <2>2. entry \in Entry
        BY NoEntryType DEF Entry
    <2> HIDE DEF entry
    <2> QED
        BY <2>1, <2>2, KeepHint
<1>3. ASSUME NEW f \in LiveFiles, setFileError(f) PROVE HintInv'
    <2>1. \A k \in Kept : entries'[k].withFormatHint = entries[k].withFormatHint
        BY <1>3 DEF setFileError, TypeInv, CatalogTypeOK, Entry
    <2> QED
        BY <1>3, <2>1, SameHints DEF setFileError
<1>4. ASSUME NEW f \in LiveFiles, NEW withIndex \in BOOLEAN, updateFile(f, withIndex)
      PROVE  HintInv'
    <2>1. \A k \in Kept : entries'[k].withFormatHint = entries[k].withFormatHint
        BY <1>4 DEF updateFile, TypeInv, CatalogTypeOK, Entry
    <2> QED
        BY <1>4, <2>1, SameHints DEF updateFile
<1>5. ASSUME NEW f \in Kept, updateSummary(f) PROVE HintInv'
    <2>1. \A k \in Kept : entries'[k].withFormatHint = entries[k].withFormatHint
        BY <1>5 DEF updateSummary, TypeInv, CatalogTypeOK, Entry
    <2> QED
        BY <1>5, <2>1, SameHints DEF updateSummary
<1>6. CASE UNCHANGED <<entries, formatHintShown>>
    BY <1>6, SameHints
<1> QED
    BY <1>1, <1>2, <1>3, <1>4, <1>5, <1>6
    DEF CatalogNext, startLive, endLive, setFront, catalogVars

\* A set of which no two elements differ has at most one.
LEMMA AtMostOne ==
    ASSUME NEW S, \A x, y \in S : x = y
    PROVE  Cardinality(S) <= 1
<1>1. CASE S = {}
    <2>1. Cardinality(S) = 0
        BY <1>1, FS_EmptySet
    <2> QED
        BY <2>1
<1>2. CASE S # {}
    <2>1. PICK x \in S : TRUE
        BY <1>2
    <2>2. S = {x}
        BY <2>1
    <2>3. Cardinality(S) = 1
        BY <2>2, FS_Singleton
    <2> QED
        BY <2>3
<1> QED
    BY <1>1, <1>2

\* Two entries that are the same one are counted as one.
LEMMA OneHint == HintInv => Cardinality({k \in Kept : entries[k].withFormatHint}) <= 1
BY AtMostOne DEF HintInv

-----------------------------------------------------------------------------
(* The live files.                                                         *)

\* Every step of the catalog keeps the live files.
LEMMA LiveStep == TypeInv /\ LiveInv /\ [CatalogNext]_catalogVars => LiveInv'
<1> SUFFICES ASSUME TypeInv, LiveInv, [CatalogNext]_catalogVars, NEW key \in liveKeys'
             PROVE  isKept(key)' /\ entries'[key].raw
    BY DEF LiveInv
<1>raw. ASSUME NEW entry \in Entry, entry.raw PROVE entry # NoEntry
    BY <1>raw DEF NoEntry
<1>in. ASSUME key \in liveKeys PROVE key \in LiveFiles /\ key \in Kept /\ entries[key].raw
    BY <1>in DEF LiveInv, TypeInv, CatalogTypeOK, Kept
<1>type. entries' \in [Kept -> Entry]
    BY TypeStep DEF TypeInv, CatalogTypeOK
<1> SUFFICES key \in Kept /\ entries'[key].raw
    BY <1>raw, <1>type DEF isKept
<1>1. CASE startLive
    BY <1>1 DEF startLive
<1>2. ASSUME NEW k \in Converted, KeepConverted(k) PROVE key \in Kept /\ entries'[key].raw
    <2>1. key \in liveKeys /\ key # k
        BY <1>2, <1>in DEF KeepConverted
    <2> QED
        BY <1>2, <1>in, <2>1 DEF KeepConverted, Keep, TypeInv, CatalogTypeOK
<1>3. ASSUME NEW k \in LiveFiles, openLiveFile(k) PROVE key \in Kept /\ entries'[key].raw
    <2>1. CASE key = k
        BY <1>3, <2>1 DEF openLiveFile, Keep, TypeInv, CatalogTypeOK, NoEntry, Kept
    <2>2. CASE key # k
        BY <1>3, <1>in, <2>2 DEF openLiveFile, Keep, TypeInv, CatalogTypeOK
    <2> QED
        BY <2>1, <2>2
<1>4. ASSUME NEW k \in LiveFiles, setFileError(k) PROVE key \in Kept /\ entries'[key].raw
    BY <1>4, <1>in DEF setFileError, TypeInv, CatalogTypeOK, Entry
<1>5. ASSUME NEW k \in LiveFiles, NEW withIndex \in BOOLEAN, updateFile(k, withIndex)
      PROVE  key \in Kept /\ entries'[key].raw
    BY <1>5, <1>in DEF updateFile, TypeInv, CatalogTypeOK, Entry
<1>6. ASSUME NEW k \in Kept, updateSummary(k) PROVE key \in Kept /\ entries'[key].raw
    BY <1>6, <1>in DEF updateSummary, TypeInv, CatalogTypeOK, Entry
<1>7. CASE UNCHANGED <<entries, liveKeys>>
    BY <1>7, <1>in
<1> QED
    BY <1>1, <1>2, <1>3, <1>4, <1>5, <1>6, <1>7 DEF CatalogNext, endLive, setFront, catalogVars

-----------------------------------------------------------------------------
(* What is drawn.                                                          *)

\* A change that leaves the front's entry, and whether it captures, need not be told.
LEMMA SameFront ==
    ASSUME FrontInv, shown' = shown, frontKey' = frontKey,
           frontKey \in Kept => entries'[frontKey] = entries[frontKey],
           (capturing' /\ frontKey \in liveKeys') = (capturing /\ frontKey \in liveKeys)
    PROVE  FrontInv'
BY DEF FrontInv, front, Drawn

\* One that is told is drawn.
LEMMA Announced ==
    ASSUME NEW is \in BOOLEAN, Announce(is), is
    PROVE  FrontInv'
BY DEF Announce, FrontInv, front

\* A change of one file's entry is told when that is in front.
LEMMA EntryAnnounced ==
    ASSUME TypeInv, FrontInv, NEW key \in Kept, Announce(key = frontKey), frontKey' = frontKey,
           \A k \in Kept : k # key => entries'[k] = entries[k],
           \A k \in Keys : k # key =>
               (capturing' /\ k \in liveKeys') = (capturing /\ k \in liveKeys)
    PROVE  FrontInv'
<1>1. CASE key = frontKey
    BY <1>1, Announced
<1>2. CASE key # frontKey
    <2>1. shown' = shown
        BY <1>2 DEF Announce
    <2>2. frontKey \in Keys
        BY DEF TypeInv, CatalogTypeOK
    <2> QED
        BY <1>2, <2>1, <2>2, SameFront
<1> QED
    BY <1>1, <1>2

\* Every step of the catalog that changes what is in front draws it.
LEMMA FrontStep == TypeInv /\ FrontInv /\ [CatalogNext]_catalogVars => FrontInv'
<1> SUFFICES ASSUME TypeInv, FrontInv, [CatalogNext]_catalogVars PROVE FrontInv'
    OBVIOUS
<1>k. Converted \subseteq Kept /\ LiveFiles \subseteq Kept
    BY DEF Kept
<1>1. CASE startLive
    BY <1>1, SameFront DEF startLive
<1>2. CASE endLive
    <2>1. CASE frontKey \in liveKeys
        BY <1>2, <2>1, Announced DEF endLive
    <2>2. CASE frontKey \notin liveKeys
        <3>1. shown' = shown
            BY <1>2, <2>2 DEF endLive, Announce
        <3> QED
            BY <1>2, <2>2, <3>1, SameFront DEF endLive
    <2> QED
        BY <2>1, <2>2
<1>3. ASSUME NEW k \in Converted, KeepConverted(k) PROVE FrontInv'
    <2>1. \A l \in Kept : l # k => entries'[l] = entries[l]
        BY <1>3 DEF KeepConverted, Keep, TypeInv, CatalogTypeOK
    <2> QED
        BY <1>3, <1>k, <2>1, EntryAnnounced DEF KeepConverted
<1>4. ASSUME NEW k \in LiveFiles, openLiveFile(k) PROVE FrontInv'
    <2>1. \A l \in Kept : l # k => entries'[l] = entries[l]
        BY <1>4 DEF openLiveFile, Keep, TypeInv, CatalogTypeOK
    <2>2. \A l \in Keys : l # k =>
              (capturing' /\ l \in liveKeys') = (capturing /\ l \in liveKeys)
        BY <1>4 DEF openLiveFile
    <2> QED
        BY <1>4, <1>k, <2>1, <2>2, EntryAnnounced DEF openLiveFile
<1>5. ASSUME NEW k \in LiveFiles, setFileError(k) PROVE FrontInv'
    <2>1. \A l \in Kept : l # k => entries'[l] = entries[l]
        BY <1>5 DEF setFileError, TypeInv, CatalogTypeOK
    <2> QED
        BY <1>5, <1>k, <2>1, EntryAnnounced DEF setFileError
<1>6. ASSUME NEW k \in LiveFiles, NEW withIndex \in BOOLEAN, updateFile(k, withIndex)
      PROVE  FrontInv'
    <2>1. CASE isKept(k)
        <3>1. \A l \in Kept : l # k => entries'[l] = entries[l]
            BY <1>6, <2>1 DEF updateFile, TypeInv, CatalogTypeOK
        <3>2. Announce(k = frontKey)
            BY <1>6, <2>1 DEF updateFile
        <3> QED
            BY <1>6, <1>k, <3>1, <3>2, EntryAnnounced DEF updateFile
    <2>2. CASE ~isKept(k)
        <3>1. entries' = entries /\ shown' = shown
            BY <1>6, <2>2 DEF updateFile, Announce
        <3> QED
            BY <1>6, <3>1, SameFront DEF updateFile
    <2> QED
        BY <2>1, <2>2
<1>7. ASSUME NEW k \in Kept, updateSummary(k) PROVE FrontInv'
    <2>1. \A l \in Kept : l # k => entries'[l] = entries[l]
        BY <1>7 DEF updateSummary, TypeInv, CatalogTypeOK
    <2> QED
        BY <1>7, <2>1, EntryAnnounced DEF updateSummary
<1>8. ASSUME NEW k \in Keys, setFront(k) PROVE FrontInv'
    <2>1. CASE k # frontKey
        BY <1>8, <2>1, Announced DEF setFront
    <2>2. CASE k = frontKey
        <3>1. shown' = shown /\ frontKey' = frontKey
            BY <1>8, <2>2 DEF setFront, Announce
        <3> QED
            BY <1>8, <3>1, SameFront DEF setFront
    <2> QED
        BY <2>1, <2>2
<1>9. CASE UNCHANGED catalogVars
    BY <1>9, SameFront DEF catalogVars
<1> QED
    BY <1>1, <1>2, <1>3, <1>4, <1>5, <1>6, <1>7, <1>8, <1>9 DEF CatalogNext

-----------------------------------------------------------------------------

\* The invariant holds of the catalog that is empty.
LEMMA CatalogStarts == CatalogInit => TypeInv /\ HintInv /\ LiveInv /\ FrontInv
<1> SUFFICES ASSUME CatalogInit PROVE TypeInv /\ HintInv /\ LiveInv /\ FrontInv
    OBVIOUS
<1>1. TypeInv
    <2>1. entries \in [Kept -> Entry]
        BY NoEntryType DEF CatalogInit
    <2>2. frontKey \in Keys /\ liveKeys \subseteq LiveFiles
        BY DEF CatalogInit, Keys
    <2>3. capturing \in BOOLEAN /\ formatHintShown \in BOOLEAN
        BY DEF CatalogInit
    <2>4. updates \in 0..MaxUpdates
        BY DEF CatalogInit
    <2> QED
        BY <2>1, <2>2, <2>3, <2>4 DEF TypeInv, CatalogTypeOK
<1>2. HintInv
    BY DEF CatalogInit, HintInv, NoEntry
<1>3. LiveInv
    BY DEF CatalogInit, LiveInv
<1>4. FrontInv
    <2>1. frontKey \notin Kept /\ frontKey \notin liveKeys
        BY DEF CatalogInit, Kept
    <2> QED
        BY <2>1 DEF CatalogInit, FrontInv, front, Drawn
<1> QED
    BY <1>1, <1>2, <1>3, <1>4

\* Whatever tabs come to the front while captures begin, grow, fail and end behind
\* them: what the sidebar drew is what the tab in front shows, one entry at most has
\* the Log Format hint, and the running capture's files are kept (keep(),
\* updateFile(), endLive(), setFront() and announceFront()).
THEOREM SidebarShowsTheFront == CatalogSpec => []DrawnIsTheFront
<1>1. HintInv /\ LiveInv /\ FrontInv => DrawnIsTheFront
    BY OneHint DEF LiveInv, FrontInv, DrawnIsTheFront
<1> QED
    BY <1>1, CatalogStarts, TypeStep, HintStep, LiveStep, FrontStep, PTL DEF CatalogSpec

HIDE CatalogAssumption

-----------------------------------------------------------------------------
(* The Stream tab.                                                         *)
(*                                                                         *)
(* A task may end when the tab is of another stream.  The invariant numbers *)
(* the streams followed by generations: a busy tab has one task of its own *)
(* generation, whose chunks go on where the tab's end, and any other was   *)
(* cancelled.  What the tab holds is the stream from its start up to its   *)
(* reader, and what it shows is that, rendered as chosen, unless it will   *)
(* be rendered anew when its task ends.                                    *)

-----------------------------------------------------------------------------
(* What a stream is rendered as.                                           *)

\* What a text is made of: line feeds and characters, gaps, and lines of a hex dump.
Piece == {<<"nl">>, <<"x">>} \cup ({"gap"} \X Nat) \cup ({0, 1} \X Nat \X Nat \X Nat)

\* A text, and the column it ends in.
Lines == [text : Seq(Piece), column : Nat]

\* The states of a renderer.
RendererOf ==
    [format : Formats, directions : SUBSET {0, 1}, udp : BOOLEAN, lastDirection : {-1, 0, 1},
     lastWasGap : BOOLEAN, column : Nat, offset : [{0, 1} -> Nat]]

\* A text, and the renderer that goes on with it.
Renders == [text : Seq(Piece), renderer : RendererOf]

\* What streamText() does with a byte.
Put(a, b) ==
    IF b = "nl" THEN [text |-> Append(a.text, <<"nl">>), column |-> 0]
    ELSE IF a.column > 0 /\ a.column + 1 > LineChars
         THEN [text |-> a.text \o <<<<"nl">>, <<b>>>>, column |-> 1]
         ELSE [text |-> Append(a.text, <<b>>), column |-> a.column + 1]

\* A text and another are one.
LEMMA JoinType ==
    ASSUME NEW a \in Seq(Piece), NEW b \in Seq(Piece)
    PROVE  a \o b \in Seq(Piece)
  OBVIOUS

\* A text grows by a byte.
LEMMA PutType ==
    ASSUME NEW a \in Lines, NEW b \in {"x", "nl"}
    PROVE  Put(a, b) \in Lines
  <1>1. <<"nl">> \in Piece /\ <<b>> \in Piece /\ a.text \in Seq(Piece) /\ a.column \in Nat
    BY DEF Piece, Lines
  <1>2. Append(a.text, <<"nl">>) \in Seq(Piece) /\ Append(a.text, <<b>>) \in Seq(Piece)
        /\ a.text \o <<<<"nl">>, <<b>>>> \in Seq(Piece)
    <2> DEFINE P == Piece
               c == <<"nl">>
               d == <<b>>
    <2>1. c \in P /\ d \in P /\ a.text \in Seq(P)
      BY <1>1
    <2> HIDE DEF P, c, d
    <2>2. Append(a.text, c) \in Seq(P) /\ Append(a.text, d) \in Seq(P) /\ a.text \o <<c, d>> \in Seq(P)
      BY <2>1
    <2>3. QED
      BY <2>2 DEF P, c, d
  <1>3. a.column + 1 \in Nat /\ 0 \in Nat /\ 1 \in Nat
    BY <1>1
  <1>4. QED
    BY <1>2, <1>3 DEF Put, Lines

\* A size grows by a chunk.
Plus(n, c) == n + Len(c.bytes)

\* A size stays a number as it grows.
LEMMA PlusType ==
    ASSUME NEW n \in Nat, NEW c \in StreamChunk
    PROVE  Plus(n, c) \in Nat
  BY DEF Plus, StreamChunk

\* A text is put together one byte after the other.
LEMMA TextSteps ==
    ASSUME NEW s \in Seq({"x", "nl"}), NEW column \in Nat
    PROVE  \E h : /\ h[0] = [text |-> <<>>, column |-> column]
                  /\ \A k \in 1..Len(s) : h[k] = Put(h[k - 1], s[k])
                  /\ \A k \in 0..Len(s) : h[k] \in Lines
                  /\ streamText(s, column) = h[Len(s)]
  <1> DEFINE n == Len(s)
             F == [p \in (1..n) \X Lines |-> Put(p[2], s[p[1]])]
             Is(g) == g = [t \in SUBSET (1..n) |-> IF t = {} THEN [text |-> <<>>, column |-> column] ELSE Put(g[t \ {Max(t)}], s[Max(t)])]
             G == CHOOSE g : Is(g)
             h == [k \in 0..n |-> G[1..k]]
  <1>1. n \in Nat /\ DOMAIN s = 1..n /\ \A i \in 1..n : s[i] \in {"x", "nl"}
    OBVIOUS
  <1>2. [text |-> <<>>, column |-> column] \in Lines
    BY DEF Lines
  <1>3. \E g : Is(g)
    <2>1. F \in [(1..n) \X Lines -> Lines]
      BY <1>1, PutType
    <2> HIDE DEF F, n
    <2>2. PICK g \in [SUBSET (1..n) -> Lines] : FoldsBy(g, n, [text |-> <<>>, column |-> column], F)
      BY <1>1, <1>2, <2>1, FoldRuns
    <2>3. ASSUME NEW t \in SUBSET (1..n), t # {}
          PROVE  F[<<Max(t), g[t \ {Max(t)}]>>] = Put(g[t \ {Max(t)}], s[Max(t)])
      <3>1. Max(t) \in 1..n
        BY <1>1, <2>3, MaxIs
      <3>2. g[t \ {Max(t)}] \in Lines
        BY <2>2
      <3>3. QED
        BY <3>1, <3>2 DEF F
    <2>4. Is(g)
      BY <2>2, <2>3 DEF FoldsBy
    <2>5. QED
      BY <2>4
  <1>4. Is(G)
    BY <1>3
  <1>5. streamText(s, column) = G[1..n]
    BY <1>1 DEF streamText, Put, FoldLeft, MapThenFoldSet
  <1> HIDE DEF G
  <1>6. G[1..0] = [text |-> <<>>, column |-> column] /\ \A k \in 1..n : G[1..k] = Put(G[1..(k - 1)], s[k])
    <2> DEFINE f == [t \in SUBSET (1..n) |-> Put(G[t \ {Max(t)}], s[Max(t)])]
    <2>1. G = [t \in SUBSET (1..n) |-> IF t = {} THEN [text |-> <<>>, column |-> column] ELSE f[t]]
      BY <1>4
    <2>2. G[1..0] = [text |-> <<>>, column |-> column] /\ \A k \in 1..n : G[1..k] = f[1..k]
      <3> DEFINE base == [text |-> <<>>, column |-> column]
      <3>1. G = [t \in SUBSET (1..n) |-> IF t = {} THEN base ELSE f[t]]
        BY <2>1
      <3> HIDE DEF f, n, base
      <3>2. G[1..0] = base /\ \A k \in 1..n : G[1..k] = f[1..k]
        BY <1>1, <3>1, FoldUpTo
      <3>3. QED
        BY <3>2 DEF base
    <2>3. \A k \in 1..n : f[1..k] = Put(G[1..(k - 1)], s[k])
      <3>1. SUFFICES ASSUME NEW k \in 1..n PROVE f[1..k] = Put(G[1..(k - 1)], s[k])
        OBVIOUS
      <3>2. k \in Nat \ {0} /\ 1..k \in SUBSET (1..n)
        BY <1>1
      <3>3. Max(1..k) = k /\ (1..k) \ {k} = 1..(k - 1)
        BY <3>2, MaxUpTo
      <3>4. QED
        BY <3>2, <3>3
    <2>4. QED
      BY <2>2, <2>3
  <1>7. h[0] = [text |-> <<>>, column |-> column] /\ \A k \in 1..n : h[k] = Put(h[k - 1], s[k])
    BY <1>1, <1>6
  <1>8. \A k \in 0..n : h[k] \in Lines
    <2> DEFINE T == {k \in 0..n : h[k] \in Lines}
    <2>1. 0 \in T
      BY <1>1, <1>2, <1>7
    <2>2. ASSUME NEW k \in 1..n, k - 1 \in T PROVE k \in T
      <3> HIDE DEF h, n
      <3>1. h[k - 1] \in Lines /\ k \in 0..n /\ s[k] \in {"x", "nl"} /\ h[k] = Put(h[k - 1], s[k])
        BY <1>1, <1>7, <2>2
      <3>2. h[k] \in Lines
        BY <3>1, PutType
      <3>3. QED
        BY <3>1, <3>2
    <2> HIDE DEF T
    <2>3. \A k \in 0..n : k \in T
      BY <1>1, <2>1, <2>2, CountsUp
    <2>4. QED
      BY <2>3 DEF T
  <1>9. h[n] = G[1..n]
    BY <1>1
  <1> HIDE DEF h
  <1>10. QED
    BY <1>5, <1>7, <1>8, <1>9

\* Sizes are added up one chunk after the other.
LEMMA SizeSteps ==
    ASSUME NEW s \in Seq(StreamChunk)
    PROVE  \E h : /\ h[0] = 0
                  /\ \A k \in 1..Len(s) : h[k] = Plus(h[k - 1], s[k])
                  /\ \A k \in 0..Len(s) : h[k] \in Nat
                  /\ SizeOfChunks(s) = h[Len(s)]
  <1> DEFINE n == Len(s)
             F == [p \in (1..n) \X Nat |-> Plus(p[2], s[p[1]])]
             Is(g) == g = [t \in SUBSET (1..n) |-> IF t = {} THEN 0 ELSE Plus(g[t \ {Max(t)}], s[Max(t)])]
             G == CHOOSE g : Is(g)
             h == [k \in 0..n |-> G[1..k]]
  <1>1. n \in Nat /\ DOMAIN s = 1..n /\ \A i \in 1..n : s[i] \in StreamChunk
    OBVIOUS
  <1>2. 0 \in Nat
    BY SMT
  <1>3. \E g : Is(g)
    <2>1. F \in [(1..n) \X Nat -> Nat]
      BY <1>1, PlusType
    <2> HIDE DEF F, n
    <2>2. PICK g \in [SUBSET (1..n) -> Nat] : FoldsBy(g, n, 0, F)
      BY <1>1, <1>2, <2>1, FoldRuns
    <2>3. ASSUME NEW t \in SUBSET (1..n), t # {}
          PROVE  F[<<Max(t), g[t \ {Max(t)}]>>] = Plus(g[t \ {Max(t)}], s[Max(t)])
      <3>1. Max(t) \in 1..n
        BY <1>1, <2>3, MaxIs
      <3>2. g[t \ {Max(t)}] \in Nat
        BY <2>2
      <3>3. QED
        BY <3>1, <3>2 DEF F
    <2>4. Is(g)
      BY <2>2, <2>3 DEF FoldsBy
    <2>5. QED
      BY <2>4
  <1>4. Is(G)
    BY <1>3
  <1>5. SizeOfChunks(s) = G[1..n]
    BY <1>1 DEF SizeOfChunks, Plus, FoldLeft, MapThenFoldSet
  <1> HIDE DEF G
  <1>6. G[1..0] = 0 /\ \A k \in 1..n : G[1..k] = Plus(G[1..(k - 1)], s[k])
    <2> DEFINE f == [t \in SUBSET (1..n) |-> Plus(G[t \ {Max(t)}], s[Max(t)])]
    <2>1. G = [t \in SUBSET (1..n) |-> IF t = {} THEN 0 ELSE f[t]]
      BY <1>4
    <2>2. G[1..0] = 0 /\ \A k \in 1..n : G[1..k] = f[1..k]
      <3> DEFINE base == 0
      <3>1. G = [t \in SUBSET (1..n) |-> IF t = {} THEN base ELSE f[t]]
        BY <2>1
      <3> HIDE DEF f, n, base
      <3>2. G[1..0] = base /\ \A k \in 1..n : G[1..k] = f[1..k]
        BY <1>1, <3>1, FoldUpTo
      <3>3. QED
        BY <3>2 DEF base
    <2>3. \A k \in 1..n : f[1..k] = Plus(G[1..(k - 1)], s[k])
      <3>1. SUFFICES ASSUME NEW k \in 1..n PROVE f[1..k] = Plus(G[1..(k - 1)], s[k])
        OBVIOUS
      <3>2. k \in Nat \ {0} /\ 1..k \in SUBSET (1..n)
        BY <1>1
      <3>3. Max(1..k) = k /\ (1..k) \ {k} = 1..(k - 1)
        BY <3>2, MaxUpTo
      <3>4. QED
        BY <3>2, <3>3
    <2>4. QED
      BY <2>2, <2>3
  <1>7. h[0] = 0 /\ \A k \in 1..n : h[k] = Plus(h[k - 1], s[k])
    BY <1>1, <1>6
  <1>8. \A k \in 0..n : h[k] \in Nat
    <2> DEFINE T == {k \in 0..n : h[k] \in Nat}
    <2>1. 0 \in T
      BY <1>1, <1>2, <1>7
    <2>2. ASSUME NEW k \in 1..n, k - 1 \in T PROVE k \in T
      <3> HIDE DEF h, n
      <3>1. h[k - 1] \in Nat /\ k \in 0..n /\ s[k] \in StreamChunk /\ h[k] = Plus(h[k - 1], s[k])
        BY <1>1, <1>7, <2>2
      <3>2. h[k] \in Nat
        BY <3>1, PlusType
      <3>3. QED
        BY <3>1, <3>2
    <2> HIDE DEF T
    <2>3. \A k \in 0..n : k \in T
      BY <1>1, <2>1, <2>2, CountsUp
    <2>4. QED
      BY <2>3 DEF T
  <1>9. h[n] = G[1..n]
    BY <1>1
  <1> HIDE DEF h
  <1>10. QED
    BY <1>5, <1>7, <1>8, <1>9

\* What a text is.
LEMMA TextType ==
    ASSUME NEW s \in Seq({"x", "nl"}), NEW column \in Nat
    PROVE  streamText(s, column) \in Lines
  <1>1. Len(s) \in 0..Len(s)
    OBVIOUS
  <1>2. PICK h : /\ h[0] = [text |-> <<>>, column |-> column]
                 /\ \A k \in 1..Len(s) : h[k] = Put(h[k - 1], s[k])
                 /\ \A k \in 0..Len(s) : h[k] \in Lines
                 /\ streamText(s, column) = h[Len(s)]
    BY TextSteps
  <1>3. QED
    BY <1>1, <1>2

\* What chunks come to.
LEMMA SizeType ==
    ASSUME NEW s \in Seq(StreamChunk)
    PROVE  SizeOfChunks(s) \in Nat
  <1>1. Len(s) \in 0..Len(s)
    OBVIOUS
  <1>2. QED
    BY <1>1, SizeSteps

\* What a chunk adds to a text.
LEMMA ChunkType ==
    ASSUME NEW r \in RendererOf, NEW c \in StreamChunk
    PROVE  TextOfChunk(r, c) \in Lines /\ HexLines(r, c) \in Seq(Piece)
  <1>1. c.direction \in {0, 1} /\ c.missing \in Nat /\ c.bytes \in Seq({"x", "nl"}) /\ Len(c.bytes) \in Nat
    BY DEF StreamChunk
  <1>2. r.column \in Nat /\ r.offset[c.direction] \in Nat
    BY <1>1 DEF RendererOf
  <1>3. HexLines(r, c) \in Seq(Piece)
    <2> DEFINE x == <<c.direction, r.offset[c.direction], c.missing, Len(c.bytes)>>
    <2>1. x \in Piece
      BY <1>1, <1>2 DEF Piece
    <2> HIDE DEF x
    <2>2. <<x>> \in Seq(Piece)
      BY <2>1
    <2>3. QED
      BY <2>2 DEF HexLines, x
  <1>4. TextOfChunk(r, c) \in Lines
    <2> DEFINE begin == IF BeginsALine(r, c) THEN <<<<"nl">>>> ELSE <<>>
               column == IF BeginsALine(r, c) THEN 0 ELSE r.column
               gap == <<<<"gap", c.missing>>, <<"nl">>>>
               s == streamText(c.bytes, column)
    <2>1. begin \in Seq(Piece) /\ gap \in Seq(Piece)
      <3> DEFINE x == <<"nl">>
                 y == <<"gap", c.missing>>
      <3>1. x \in Piece /\ y \in Piece
        BY <1>1 DEF Piece
      <3> HIDE DEF x, y
      <3>2. <<x>> \in Seq(Piece) /\ <<>> \in Seq(Piece) /\ <<y, x>> \in Seq(Piece)
        BY <3>1
      <3>3. QED
        BY <3>2 DEF x, y
    <2>2. column \in Nat
      BY <1>2
    <2>3. TextOfChunk(r, c) = IF c.missing > 0 THEN [text |-> begin \o gap, column |-> column]
                              ELSE [s EXCEPT !.text = begin \o s.text]
      BY DEF TextOfChunk
    <2> HIDE DEF begin, column, gap, s
    <2>4. s \in Lines
      BY <1>1, <2>2, TextType DEF s
    <2>5. begin \o gap \in Seq(Piece) /\ begin \o s.text \in Seq(Piece)
      <3>1. s.text \in Seq(Piece)
        BY <2>4 DEF Lines
      <3>2. QED
        BY <2>1, <3>1, JoinType
    <2>6. [text |-> begin \o gap, column |-> column] \in Lines /\ [s EXCEPT !.text = begin \o s.text] \in Lines
      BY <2>2, <2>4, <2>5 DEF Lines
    <2>7. QED
      BY <2>3, <2>6
  <1>5. QED
    BY <1>3, <1>4

\* What render() does with a chunk: it adds to the text, by what the renderer is.
LEMMA RenderAdds ==
    ASSUME NEW r \in RendererOf, NEW c \in StreamChunk
    PROVE  \E x \in Seq(Piece), q \in RendererOf : \A t \in Seq(Piece) :
              render([text |-> t, renderer |-> r], c) = [text |-> t \o x, renderer |-> q]
  <1>1. c.direction \in {0, 1} /\ c.missing \in Nat /\ Len(c.bytes) \in Nat
    BY DEF StreamChunk
  <1>2. CASE c.direction \notin r.directions
    <2>1. \A t \in Seq(Piece) : render([text |-> t, renderer |-> r], c) = [text |-> t \o <<>>, renderer |-> r]
      <3>1. SUFFICES ASSUME NEW t \in Seq(Piece)
                     PROVE  render([text |-> t, renderer |-> r], c) = [text |-> t \o <<>>, renderer |-> r]
        OBVIOUS
      <3>2. t \o <<>> = t
        OBVIOUS
      <3>3. QED
        BY <1>2, <3>2 DEF render
    <2>2. <<>> \in Seq(Piece)
      OBVIOUS
    <2>3. QED
      BY <2>1, <2>2
  <1>3. CASE c.direction \in r.directions /\ r.format = "hex"
    <2> DEFINE o == r.offset[c.direction] + c.missing + Len(c.bytes)
               q == [r EXCEPT !.offset[c.direction] = o]
    <2>1. o \in Nat
      <3>1. r.offset[c.direction] \in Nat
        BY <1>1 DEF RendererOf
      <3>2. QED
        BY <1>1, <3>1
    <2>2. \A t : render([text |-> t, renderer |-> r], c) = [text |-> t \o HexLines(r, c), renderer |-> q]
      BY <1>3 DEF render
    <2> HIDE DEF o
    <2>3. q \in RendererOf
      BY <1>1, <2>1 DEF RendererOf
    <2>4. QED
      BY <2>2, <2>3, ChunkType
  <1>4. CASE c.direction \in r.directions /\ r.format # "hex"
    <2> DEFINE l == TextOfChunk(r, c)
               gap == c.missing > 0
               q == [r EXCEPT !.column = l.column, !.lastDirection = c.direction, !.lastWasGap = gap]
    <2>1. \A t : render([text |-> t, renderer |-> r], c) = [text |-> t \o l.text, renderer |-> q]
      BY <1>4 DEF render
    <2>2. l.text \in Seq(Piece) /\ l.column \in Nat /\ gap \in BOOLEAN
      BY ChunkType DEF Lines
    <2> HIDE DEF l, gap
    <2>3. q \in RendererOf
      BY <1>1, <2>2 DEF RendererOf
    <2>4. QED
      BY <2>1, <2>2, <2>3
  <1>5. QED
    BY <1>2, <1>3, <1>4

\* What is rendered of one more chunk is a rendering.
LEMMA RenderType ==
    ASSUME NEW a \in Renders, NEW c \in StreamChunk
    PROVE  render(a, c) \in Renders
  <1>1. a.text \in Seq(Piece) /\ a.renderer \in RendererOf /\ a = [text |-> a.text, renderer |-> a.renderer]
    BY DEF Renders
  <1>2. PICK x \in Seq(Piece), q \in RendererOf :
          \A t \in Seq(Piece) : render([text |-> t, renderer |-> a.renderer], c) = [text |-> t \o x, renderer |-> q]
    BY <1>1, RenderAdds
  <1>3. render(a, c) = [text |-> a.text \o x, renderer |-> q]
    BY <1>1, <1>2
  <1>4. a.text \o x \in Seq(Piece)
    BY <1>1, JoinType
  <1>5. QED
    BY <1>3, <1>4 DEF Renders

\* Chunks are rendered one after the other.
LEMMA RenderSteps ==
    ASSUME NEW s \in Seq(StreamChunk), NEW r \in RendererOf
    PROVE  \E h : /\ h[0] = [text |-> <<>>, renderer |-> r]
                  /\ \A k \in 1..Len(s) : h[k] = render(h[k - 1], s[k])
                  /\ \A k \in 0..Len(s) : h[k] \in Renders
                  /\ Rendered(r, s) = h[Len(s)]
  <1> DEFINE n == Len(s)
             F == [p \in (1..n) \X Renders |-> render(p[2], s[p[1]])]
             Is(g) == g = [t \in SUBSET (1..n) |-> IF t = {} THEN [text |-> <<>>, renderer |-> r] ELSE render(g[t \ {Max(t)}], s[Max(t)])]
             G == CHOOSE g : Is(g)
             h == [k \in 0..n |-> G[1..k]]
  <1>1. n \in Nat /\ DOMAIN s = 1..n /\ \A i \in 1..n : s[i] \in StreamChunk
    OBVIOUS
  <1>2. [text |-> <<>>, renderer |-> r] \in Renders
    BY DEF Renders
  <1>3. \E g : Is(g)
    <2>1. F \in [(1..n) \X Renders -> Renders]
      BY <1>1, RenderType
    <2> HIDE DEF F, n
    <2>2. PICK g \in [SUBSET (1..n) -> Renders] : FoldsBy(g, n, [text |-> <<>>, renderer |-> r], F)
      BY <1>1, <1>2, <2>1, FoldRuns
    <2>3. ASSUME NEW t \in SUBSET (1..n), t # {}
          PROVE  F[<<Max(t), g[t \ {Max(t)}]>>] = render(g[t \ {Max(t)}], s[Max(t)])
      <3>1. Max(t) \in 1..n
        BY <1>1, <2>3, MaxIs
      <3>2. g[t \ {Max(t)}] \in Renders
        BY <2>2
      <3>3. QED
        BY <3>1, <3>2 DEF F
    <2>4. Is(g)
      BY <2>2, <2>3 DEF FoldsBy
    <2>5. QED
      BY <2>4
  <1>4. Is(G)
    BY <1>3
  <1>5. Rendered(r, s) = G[1..n]
    BY <1>1 DEF Rendered, FoldLeft, MapThenFoldSet
  <1> HIDE DEF G
  <1>6. G[1..0] = [text |-> <<>>, renderer |-> r] /\ \A k \in 1..n : G[1..k] = render(G[1..(k - 1)], s[k])
    <2> DEFINE f == [t \in SUBSET (1..n) |-> render(G[t \ {Max(t)}], s[Max(t)])]
    <2>1. G = [t \in SUBSET (1..n) |-> IF t = {} THEN [text |-> <<>>, renderer |-> r] ELSE f[t]]
      BY <1>4
    <2>2. G[1..0] = [text |-> <<>>, renderer |-> r] /\ \A k \in 1..n : G[1..k] = f[1..k]
      <3> DEFINE base == [text |-> <<>>, renderer |-> r]
      <3>1. G = [t \in SUBSET (1..n) |-> IF t = {} THEN base ELSE f[t]]
        BY <2>1
      <3> HIDE DEF f, n, base
      <3>2. G[1..0] = base /\ \A k \in 1..n : G[1..k] = f[1..k]
        BY <1>1, <3>1, FoldUpTo
      <3>3. QED
        BY <3>2 DEF base
    <2>3. \A k \in 1..n : f[1..k] = render(G[1..(k - 1)], s[k])
      <3>1. SUFFICES ASSUME NEW k \in 1..n PROVE f[1..k] = render(G[1..(k - 1)], s[k])
        OBVIOUS
      <3>2. k \in Nat \ {0} /\ 1..k \in SUBSET (1..n)
        BY <1>1
      <3>3. Max(1..k) = k /\ (1..k) \ {k} = 1..(k - 1)
        BY <3>2, MaxUpTo
      <3>4. QED
        BY <3>2, <3>3
    <2>4. QED
      BY <2>2, <2>3
  <1>7. h[0] = [text |-> <<>>, renderer |-> r] /\ \A k \in 1..n : h[k] = render(h[k - 1], s[k])
    BY <1>1, <1>6
  <1>8. \A k \in 0..n : h[k] \in Renders
    <2> DEFINE T == {k \in 0..n : h[k] \in Renders}
    <2>1. 0 \in T
      BY <1>1, <1>2, <1>7
    <2>2. ASSUME NEW k \in 1..n, k - 1 \in T PROVE k \in T
      <3> HIDE DEF h, n
      <3>1. h[k - 1] \in Renders /\ k \in 0..n /\ s[k] \in StreamChunk /\ h[k] = render(h[k - 1], s[k])
        BY <1>1, <1>7, <2>2
      <3>2. h[k] \in Renders
        BY <3>1, RenderType
      <3>3. QED
        BY <3>1, <3>2
    <2> HIDE DEF T
    <2>3. \A k \in 0..n : k \in T
      BY <1>1, <2>1, <2>2, CountsUp
    <2>4. QED
      BY <2>3 DEF T
  <1>9. h[n] = G[1..n]
    BY <1>1
  <1> HIDE DEF h
  <1>10. QED
    BY <1>5, <1>7, <1>8, <1>9

\* What chunks are rendered as.
LEMMA RenderedType ==
    ASSUME NEW s \in Seq(StreamChunk), NEW r \in RendererOf
    PROVE  Rendered(r, s) \in Renders
  <1>1. Len(s) \in 0..Len(s)
    OBVIOUS
  <1>2. QED
    BY <1>1, RenderSteps

\* No chunks are no text.
LEMMA RenderedNone ==
    ASSUME NEW r \in RendererOf
    PROVE  Rendered(r, <<>>) = [text |-> <<>>, renderer |-> r]
  <1> DEFINE s == <<>>
  <1>1. s \in Seq(StreamChunk) /\ Len(s) = 0
    OBVIOUS
  <1> HIDE DEF s
  <1>2. PICK h : /\ h[0] = [text |-> <<>>, renderer |-> r]
                 /\ \A k \in 1..Len(s) : h[k] = render(h[k - 1], s[k])
                 /\ \A k \in 0..Len(s) : h[k] \in Renders
                 /\ Rendered(r, s) = h[Len(s)]
    BY <1>1, RenderSteps
  <1>3. Rendered(r, s) = [text |-> <<>>, renderer |-> r]
    BY <1>1, <1>2
  <1>4. QED
    BY <1>3 DEF s

\* Two parts, one after the other, are shown as if at once.
LEMMA RenderedJoin ==
    ASSUME NEW a \in Seq(StreamChunk), NEW b \in Seq(StreamChunk), NEW r \in RendererOf
    PROVE  LET first == Rendered(r, a)
               then == Rendered(first.renderer, b)
           IN  Rendered(r, a \o b) = [text |-> first.text \o then.text, renderer |-> then.renderer]
  <1> DEFINE s == a \o b
             m == Len(a)
             n == Len(b)
             q == Rendered(r, a).renderer
  <1>1. /\ s \in Seq(StreamChunk) /\ Len(s) = m + n /\ m \in Nat /\ n \in Nat
        /\ (\A i \in 1..m : s[i] = a[i] /\ a[i] \in StreamChunk)
        /\ (\A i \in 1..n : s[m + i] = b[i] /\ b[i] \in StreamChunk)
    OBVIOUS
  <1>2. q \in RendererOf
    BY RenderedType DEF Renders
  <1>3. PICK h : /\ h[0] = [text |-> <<>>, renderer |-> r]
                 /\ \A k \in 1..Len(s) : h[k] = render(h[k - 1], s[k])
                 /\ \A k \in 0..Len(s) : h[k] \in Renders
                 /\ Rendered(r, s) = h[Len(s)]
    BY <1>1, RenderSteps
  <1>4. PICK f : /\ f[0] = [text |-> <<>>, renderer |-> r]
                 /\ \A k \in 1..m : f[k] = render(f[k - 1], a[k])
                 /\ \A k \in 0..m : f[k] \in Renders
                 /\ Rendered(r, a) = f[m]
    BY RenderSteps
  <1>5. PICK g : /\ g[0] = [text |-> <<>>, renderer |-> q]
                 /\ \A k \in 1..n : g[k] = render(g[k - 1], b[k])
                 /\ \A k \in 0..n : g[k] \in Renders
                 /\ Rendered(q, b) = g[n]
    BY <1>2, RenderSteps
  <1> DEFINE x == Rendered(r, a).text
  <1>6. x \in Seq(Piece)
    BY RenderedType DEF Renders
  <1> HIDE DEF s, m, n
  <1>7. \A k \in 0..m : h[k] = f[k]
    <2> DEFINE T == {k \in 0..m : h[k] = f[k]}
    <2>1. 0 \in T
      BY <1>1, <1>3, <1>4
    <2>2. ASSUME NEW k \in 1..m, k - 1 \in T PROVE k \in T
      BY <1>1, <1>3, <1>4, <2>2
    <2> HIDE DEF T
    <2>3. \A k \in 0..m : k \in T
      BY <1>1, <2>1, <2>2, CountsUp
    <2>4. QED
      BY <2>3 DEF T
  <1>8. h[m + 0] = [text |-> x \o g[0].text, renderer |-> g[0].renderer]
    <2>1. h[m] = Rendered(r, a) /\ m \in 0..m /\ m + 0 = m
      BY <1>1, <1>4, <1>7
    <2>2. Rendered(r, a) = [text |-> x, renderer |-> q]
      BY RenderedType DEF Renders
    <2>3. x \o <<>> = x
      BY <1>6
    <2> HIDE DEF x, q
    <2>4. QED
      BY <1>5, <2>1, <2>2, <2>3
  <1> HIDE DEF x, q
  <1>9. \A k \in 0..n : h[m + k] = [text |-> x \o g[k].text, renderer |-> g[k].renderer]
    <2> DEFINE T == {k \in 0..n : h[m + k] = [text |-> x \o g[k].text, renderer |-> g[k].renderer]}
    <2>1. 0 \in T
      BY <1>1, <1>8
    <2>2. ASSUME NEW k \in 1..n, k - 1 \in T PROVE k \in T
      <3> DEFINE w == g[k - 1]
                 c == b[k]
      <3>1. w \in Renders /\ c \in StreamChunk /\ g[k] = render(w, c) /\ k \in 0..n
        BY <1>1, <1>5
      <3>2. h[m + (k - 1)] = [text |-> x \o w.text, renderer |-> w.renderer]
        BY <2>2
      <3>3. m + k \in 1..Len(s) /\ (m + k) - 1 = m + (k - 1) /\ s[m + k] = c
        BY <1>1
      <3>4. h[m + k] = render([text |-> x \o w.text, renderer |-> w.renderer], c)
        BY <1>3, <3>2, <3>3
      <3> HIDE DEF w, c
      <3>5. w.text \in Seq(Piece) /\ w.renderer \in RendererOf /\ w = [text |-> w.text, renderer |-> w.renderer]
        BY <3>1 DEF Renders
      <3>6. PICK y \in Seq(Piece), p \in RendererOf :
              \A t \in Seq(Piece) : render([text |-> t, renderer |-> w.renderer], c) = [text |-> t \o y, renderer |-> p]
        BY <3>1, <3>5, RenderAdds
      <3>7. g[k] = [text |-> w.text \o y, renderer |-> p]
        BY <3>1, <3>5, <3>6
      <3>8. h[m + k] = [text |-> (x \o w.text) \o y, renderer |-> p]
        <4>1. x \o w.text \in Seq(Piece)
          BY <1>6, <3>5, JoinType
        <4>2. QED
          BY <3>4, <3>6, <4>1
      <3>9. (x \o w.text) \o y = x \o (w.text \o y)
        BY <1>6, <3>5, ConcatAssociative
      <3>10. h[m + k] = [text |-> x \o g[k].text, renderer |-> g[k].renderer]
        BY <3>7, <3>8, <3>9
      <3>11. QED
        BY <3>1, <3>10
    <2> HIDE DEF T
    <2>3. \A k \in 0..n : k \in T
      BY <1>1, <2>1, <2>2, CountsUp
    <2>4. QED
      BY <2>3 DEF T
  <1>10. h[m + n] = [text |-> x \o g[n].text, renderer |-> g[n].renderer]
    <2>1. n \in 0..n
      BY <1>1
    <2>2. QED
      BY <1>9, <2>1
  <1>11. QED
    BY <1>1, <1>3, <1>5, <1>10 DEF s, x, q

-----------------------------------------------------------------------------
(* The Stream tab, and the tasks of it.                                    *)

\* How a task ends, and what the tab tells of it.
Endings == {"", "Done", "More", "Cancelled", "Failed"}
Errors == Endings \cup {"export " \o status : status \in Endings}

\* The dialogs: none, and one that asks for a file of either kind.
Dialogs == {"", "raw", "text"}

\* The states of the tab.
ViewRecord ==
    [stream : Streams \cup {None}, reader : Nat, opened : BOOLEAN, generation : Nat, task : Nat,
     chunks : Seq(StreamChunk), shownBytes : Nat, content : Seq(Piece), renderer : RendererOf \cup {None},
     busy : BOOLEAN, more : BOOLEAN, rerenderPending : BOOLEAN, format : Formats, directions : Chosen,
     lastError : Errors, dialog : Dialogs]

\* What a stream gives, and what the tab's chunks are rendered as, all of them anew.
Given(stream) == Contents[stream].packets
Anew(v) == Rendered(Renderer(v.format, v.directions, Contents[v.stream].udp), v.chunks)

\* The tab holds its stream from the start up to where its reader stands.
Held(v) ==
    /\ v \in ViewRecord /\ v.task <= MaxTasks
    /\ v.stream # None => Len(v.chunks) <= Len(Given(v.stream)) /\ v.chunks = Prefix(Given(v.stream), Len(v.chunks))
    /\ v.reader > 0 => v.stream # None /\ v.reader = Len(v.chunks) + 1 /\ v.renderer \in RendererOf
    /\ v.reader > 0 /\ v.more => v.reader <= Len(Given(v.stream))
    /\ v.busy => v.reader > 0

\* It shows what it holds as chosen, unless it is to be shown anew as a task ends.
AsChosen(v) ==
    /\ v.rerenderPending /\ v.reader > 0 => v.busy
    /\ v.reader > 0 /\ ~v.rerenderPending =>
        v.content = Anew(v).text /\ (v.chunks # <<>> => v.renderer = Anew(v).renderer)

\* A task is at one of its stream's packets, or past them, an export read all before.
TaskIs(t) ==
    /\ t \in Task /\ t.next \in 1..(Len(Packets(t)) + 1)
    /\ t.kind = "export" => t.chunks = Prefix(Packets(t), t.next - 1)

\* A read of the tab's own goes on where the tab's chunks end.
GoesOnFrom(v, t) ==
    /\ t.stream = v.stream /\ Len(v.chunks) < t.next
    /\ t.chunks = SubSeq(Packets(t), Len(v.chunks) + 1, t.next - 1)

TaskOf(v, t) ==
    /\ TaskIs(t) /\ t.generation <= v.generation
    /\ t.kind = "read" /\ t.generation = v.generation => GoesOnFrom(v, t)

\* A task that waits or runs has packets to read, and was cancelled unless it is the tab's.
Waits(v, t) ==
    /\ TaskOf(v, t) /\ t.next <= Len(Packets(t))
    /\ t.cancel \/ (t.id = v.task /\ t.generation = v.generation)

\* One that ended early has packets left.
HasEnded(v, t) ==
    /\ TaskOf(v, t)
    /\ t.status \in {"More", "Cancelled"} => t.next <= Len(Packets(t))

\* A tab that is busy has one task of its own, one that is not has none.
OneTask(v, q) ==
    /\ \A i, j \in DOMAIN q : q[i].generation = v.generation /\ q[j].generation = v.generation => i = j
    /\ v.busy <=> \E i \in DOMAIN q : q[i].generation = v.generation

\* The tasks that wait, and those that ended.
TasksHold(v, ts, rs) ==
    /\ ts \in Seq(Task) /\ rs \in Seq(Task) /\ Len(rs \o ts) <= v.task
    /\ \A i \in DOMAIN ts : Waits(v, ts[i])
    /\ \A i \in DOMAIN rs : HasEnded(v, rs[i])
    /\ OneTask(v, rs \o ts)

\* The invariant of the tab, its tasks and what was exported.
TabInv ==
    /\ Held(view) /\ AsChosen(view) /\ TasksHold(view, tasks, results)
    /\ ExportIsWhole /\ gone \subseteq Streams

-----------------------------------------------------------------------------
(* What the tab holds and shows.                                           *)

\* What the streams give.
LEMMA StreamsGive ==
    ASSUME NEW s \in Streams
    PROVE  /\ Contents[s].udp \in BOOLEAN /\ Given(s) \in Seq(StreamChunk)
           /\ Len(Given(s)) \in Nat /\ Len(Given(s)) >= 1
  <1>1. Contents[s].udp \in BOOLEAN /\ Given(s) \in Seq(StreamChunk) /\ Given(s) # <<>>
    BY ViewAssumption DEF Given
  <1> DEFINE g == Given(s)
  <1> HIDE DEF g
  <1>2. g \in Seq(StreamChunk) /\ g # <<>>
    BY <1>1 DEF g
  <1>3. Len(g) \in Nat /\ Len(g) >= 1
    BY <1>2
  <1>4. QED
    BY <1>1, <1>3 DEF g

\* What is read of them.
LEMMA PrefixIs ==
    ASSUME NEW S, NEW s \in Seq(S), NEW n \in 0..Len(s)
    PROVE  /\ Prefix(s, n) \in Seq(S) /\ Len(Prefix(s, n)) = n
           /\ n = 0 => Prefix(s, n) = <<>>
           /\ n = Len(s) => Prefix(s, n) = s
           /\ n < Len(s) => Append(Prefix(s, n), s[n + 1]) = Prefix(s, n + 1)
  BY DEF Prefix

\* A part that follows another.
LEMMA PartIs ==
    ASSUME NEW S, NEW s \in Seq(S), NEW m \in 0..Len(s), NEW n \in m..Len(s)
    PROVE  /\ SubSeq(s, m + 1, n) \in Seq(S) /\ Len(SubSeq(s, m + 1, n)) = n - m
           /\ Prefix(s, m) \o SubSeq(s, m + 1, n) = Prefix(s, n)
           /\ n = m => SubSeq(s, m + 1, n) = <<>>
           /\ n < Len(s) => Append(SubSeq(s, m + 1, n), s[n + 1]) = SubSeq(s, m + 1, n + 1)
  BY DEF Prefix

\* A new renderer.
LEMMA RendererType ==
    ASSUME NEW f \in Formats, NEW d \in Chosen, NEW u \in BOOLEAN
    PROVE  Renderer(f, d, u) \in RendererOf
  <1>1. d \in SUBSET {0, 1}
    BY ViewAssumption
  <1>2. [e \in {0, 1} |-> 0] \in [{0, 1} -> Nat]
    OBVIOUS
  <1>3. QED
    BY <1>1, <1>2 DEF Renderer, RendererOf

\* What all is shown as.
LEMMA AnewType ==
    ASSUME NEW v \in ViewRecord, v.stream \in Streams
    PROVE  Anew(v) \in Renders
  <1>1. v.format \in Formats /\ v.directions \in Chosen /\ v.chunks \in Seq(StreamChunk)
    BY DEF ViewRecord
  <1>2. QED
    BY <1>1, StreamsGive, RendererType, RenderedType DEF Anew

\* Nothing but what is shown differs.
SameHeld(v, w) ==
    /\ w.stream = v.stream /\ w.reader = v.reader /\ w.opened = v.opened /\ w.generation = v.generation
    /\ w.task = v.task /\ w.chunks = v.chunks /\ w.shownBytes = v.shownBytes /\ w.busy = v.busy
    /\ w.more = v.more /\ w.format = v.format /\ w.directions = v.directions /\ w.lastError = v.lastError
    /\ w.dialog = v.dialog

\* Rendering anew shows what is held as chosen.
LEMMA RerenderShows ==
    ASSUME NEW v, Held(v)
    PROVE  Held(Rerender(v)) /\ AsChosen(Rerender(v)) /\ SameHeld(v, Rerender(v))
  <1>0. v \in ViewRecord
    BY DEF Held
  <1>1. CASE v.reader = 0
    <2> DEFINE w == [v EXCEPT !.rerenderPending = FALSE]
    <2>1. Rerender(v) = w
      BY <1>1 DEF Rerender
    <2>2. w \in ViewRecord /\ SameHeld(v, w) /\ w.rerenderPending = FALSE
      BY <1>0 DEF ViewRecord, SameHeld
    <2> HIDE DEF w
    <2>3. Held(w) /\ AsChosen(w)
      BY <1>1, <2>2 DEF Held, SameHeld, AsChosen
    <2>4. QED
      BY <2>1, <2>2, <2>3
  <1>2. CASE v.reader # 0
    <2>0. v.reader > 0 /\ v.stream \in Streams
      <3>1. v.reader \in Nat /\ v.stream \in Streams \cup {None}
        BY <1>0 DEF ViewRecord
      <3>2. v.reader > 0
        BY <1>2, <3>1
      <3>3. v.stream # None
        BY <3>2 DEF Held
      <3>4. QED
        BY <3>1, <3>2, <3>3
    <2> DEFINE x == Anew(v).text
               y == Anew(v).renderer
               w == [v EXCEPT !.rerenderPending = FALSE, !.content = x, !.renderer = y]
    <2>1. Rerender(v) = w
      BY <1>2 DEF Rerender, Anew
    <2>2. x \in Seq(Piece) /\ y \in RendererOf
      BY <1>0, <2>0, AnewType DEF Renders
    <2> HIDE DEF x, y
    <2>3. w \in ViewRecord /\ SameHeld(v, w) /\ w.rerenderPending = FALSE /\ w.content = x /\ w.renderer = y
      BY <1>0, <2>2 DEF ViewRecord, SameHeld
    <2> HIDE DEF w
    <2>4. Anew(w) = Anew(v)
      BY <2>3 DEF Anew, SameHeld
    <2>5. Held(w) /\ AsChosen(w)
      BY <2>2, <2>3, <2>4 DEF Held, SameHeld, AsChosen, x, y
    <2>6. QED
      BY <2>1, <2>3, <2>5
  <1>3. QED
    BY <1>1, <1>2

\* A tab without a stream.
LEMMA ClearedHolds ==
    ASSUME Held(view)
    PROVE  /\ Held(Cleared) /\ AsChosen(Cleared)
           /\ Cleared.generation = view.generation + 1 /\ Cleared.task = view.task /\ ~Cleared.busy
           /\ Cleared.format = view.format /\ Cleared.directions = view.directions
           /\ Cleared.chunks = <<>> /\ Cleared.stream = None /\ Cleared.content = <<>>
           /\ Cleared.opened = FALSE /\ Cleared.reader = 0 /\ Cleared.rerenderPending = FALSE
           /\ Cleared.more = FALSE
  <1>0. view \in ViewRecord /\ view.task <= MaxTasks
    BY DEF Held
  <1> DEFINE g == view.generation + 1
             c == Cleared
  <1>1. /\ g \in Nat /\ view.format \in Formats /\ view.directions \in Chosen /\ view.dialog \in Dialogs
        /\ view.task \in Nat
    <2>1. view.generation \in Nat /\ view.task \in Nat
      BY <1>0 DEF ViewRecord
    <2>2. view.format \in Formats
      BY <1>0 DEF ViewRecord
    <2>3. view.directions \in Chosen
      BY <1>0 DEF ViewRecord
    <2>4. view.dialog \in Dialogs
      BY <1>0 DEF ViewRecord
    <2>5. QED
      BY <2>1, <2>2, <2>3, <2>4
  <1>2. <<>> \in Seq(StreamChunk) /\ <<>> \in Seq(Piece) /\ 0 \in Nat
    OBVIOUS
  <1> DEFINE n == NoStream(g, view.format, view.directions, view.dialog)
  <1>3. c = [n EXCEPT !.task = view.task]
    BY DEF Cleared
  <1> HIDE DEF g, c
  <1>4. /\ n \in ViewRecord
        /\ n.generation = g /\ n.busy = FALSE /\ n.format = view.format
        /\ n.directions = view.directions /\ n.chunks = <<>> /\ n.stream = None /\ n.reader = 0
        /\ n.content = <<>> /\ n.opened = FALSE /\ n.rerenderPending = FALSE /\ n.more = FALSE
    <2>1. "" \in Errors
      BY DEF Errors, Endings
    <2>2. QED
      BY <1>1, <1>2, <2>1 DEF NoStream, ViewRecord
  <1> HIDE DEF n
  <1>5. /\ c \in ViewRecord /\ c.generation = g /\ c.task = view.task /\ c.busy = FALSE /\ c.format = view.format
        /\ c.directions = view.directions /\ c.chunks = <<>> /\ c.stream = None /\ c.reader = 0
        /\ c.content = <<>> /\ c.opened = FALSE /\ c.rerenderPending = FALSE /\ c.more = FALSE
    BY <1>1, <1>3, <1>4 DEF ViewRecord
  <1>6. Held(c) /\ AsChosen(c)
    BY <1>0, <1>5 DEF Held, AsChosen
  <1>7. QED
    BY <1>5, <1>6 DEF c, g

-----------------------------------------------------------------------------
(* The tasks, as they begin, go on, end and are told.                      *)

\* As many numbers are as many.
LEMMA SameCount ==
    ASSUME NEW a \in Nat, NEW b \in Nat, 1..a = 1..b
    PROVE  a = b
  <1>1. a <= b
    <2>1. CASE a = 0
      BY <2>1
    <2>2. CASE a # 0
      <3>1. a \in 1..a
        BY <2>2
      <3>2. QED
        BY <3>1
    <2>3. QED
      BY <2>1, <2>2
  <1>2. b <= a
    <2>1. CASE b = 0
      BY <2>1
    <2>2. CASE b # 0
      <3>1. b \in 1..b
        BY <2>2
      <3>2. QED
        BY <3>1
    <2>3. QED
      BY <2>1, <2>2
  <1>3. QED
    BY <1>1, <1>2

\* A list and another, one behind the other.
LEMMA BehindIs ==
    ASSUME NEW S, NEW a \in Seq(S), NEW b \in Seq(S)
    PROVE  /\ a \o b \in Seq(S) /\ Len(a \o b) = Len(a) + Len(b) /\ Len(a) \in Nat /\ Len(b) \in Nat
           /\ DOMAIN (a \o b) = 1..(Len(a) + Len(b)) /\ DOMAIN a = 1..Len(a) /\ DOMAIN b = 1..Len(b)
           /\ \A i \in 1..Len(a) : (a \o b)[i] = a[i] /\ a[i] \in S
           /\ \A i \in 1..Len(b) : (a \o b)[Len(a) + i] = b[i] /\ b[i] \in S
           /\ \A i \in (Len(a) + 1)..(Len(a) + Len(b)) : (a \o b)[i] = b[i - Len(a)]
  OBVIOUS

\* A list, but for its first.
LEMMA RestIs ==
    ASSUME NEW S, NEW s \in Seq(S), s # <<>>
    PROVE  /\ Tail(s) \in Seq(S) /\ Len(Tail(s)) = Len(s) - 1 /\ Len(s) \in Nat /\ Len(s) >= 1
           /\ Head(s) = s[1] /\ s[1] \in S /\ DOMAIN s = 1..Len(s) /\ 1 \in DOMAIN s
           /\ DOMAIN Tail(s) = 1..(Len(s) - 1)
           /\ \A i \in 1..(Len(s) - 1) : Tail(s)[i] = s[i + 1] /\ i + 1 \in DOMAIN s
           /\ <<s[1]>> \o Tail(s) = s
  OBVIOUS

\* A list with one more.
LEMMA MoreIs ==
    ASSUME NEW S, NEW s \in Seq(S), NEW x \in S
    PROVE  /\ Append(s, x) \in Seq(S) /\ Len(Append(s, x)) = Len(s) + 1 /\ Len(s) \in Nat
           /\ DOMAIN s = 1..Len(s) /\ DOMAIN Append(s, x) = 1..(Len(s) + 1)
           /\ \A i \in 1..Len(s) : Append(s, x)[i] = s[i]
           /\ Append(s, x)[Len(s) + 1] = x
  OBVIOUS

\* The tasks are of the same generations.
Alike(p, q) == DOMAIN p = DOMAIN q /\ \A i \in DOMAIN p : q[i].generation = p[i].generation

\* Tasks of the same generations are as busy.
LEMMA AlikeHolds ==
    ASSUME NEW v, NEW w, NEW p, NEW q, OneTask(v, p), Alike(p, q), w.generation = v.generation, w.busy = v.busy
    PROVE  OneTask(w, q)
  BY DEF OneTask, Alike

\* A tab that begins a task, and had none of that generation, has one.
LEMMA BeginHolds ==
    ASSUME NEW w, w.busy, NEW q \in Seq(Task), NEW t \in Task, t.generation = w.generation,
           \A i \in DOMAIN q : q[i].generation # w.generation
    PROVE  OneTask(w, Append(q, t))
  <1> DEFINE n == Len(q) + 1
             r == Append(q, t)
  <1>1. n \in DOMAIN r /\ r[n] = t /\ \A i \in DOMAIN r : i = n \/ (i \in DOMAIN q /\ r[i] = q[i])
    <2>1. /\ Len(q) \in Nat /\ DOMAIN q = 1..Len(q) /\ DOMAIN r = 1..(Len(q) + 1)
          /\ \A i \in 1..Len(q) : r[i] = q[i]
          /\ r[Len(q) + 1] = t
      BY MoreIs
    <2> HIDE DEF r
    <2>2. \A i \in 1..(Len(q) + 1) : i = Len(q) + 1 \/ i \in 1..Len(q)
      BY <2>1
    <2>3. QED
      BY <2>1, <2>2
  <1> HIDE DEF n, r
  <1>2. \A i \in DOMAIN r : r[i].generation = w.generation => i = n
    BY <1>1
  <1>3. OneTask(w, r)
    BY <1>1, <1>2 DEF OneTask
  <1>4. QED
    BY <1>3 DEF r

\* The first is told: the tab's own, which was the only one, or one of before.
LEMMA TellHolds ==
    ASSUME NEW v, NEW w, NEW q \in Seq(Task), q # <<>>, OneTask(v, q), w.generation = v.generation,
           IF q[1].generation = v.generation THEN ~w.busy ELSE w.busy = v.busy
    PROVE  /\ OneTask(w, Tail(q))
           /\ q[1].generation = v.generation => \A i \in DOMAIN Tail(q) : Tail(q)[i].generation # v.generation
  <1> DEFINE r == Tail(q)
  <1>1. /\ 1 \in DOMAIN q
        /\ \A i \in DOMAIN r : r[i] = q[i + 1] /\ i + 1 \in DOMAIN q /\ i + 1 # 1 /\ i \in Nat
        /\ \A i \in DOMAIN q : i = 1 \/ (i - 1 \in DOMAIN r /\ r[i - 1] = q[i])
    <2>1. /\ Len(q) \in Nat /\ Len(q) >= 1 /\ DOMAIN q = 1..Len(q) /\ DOMAIN r = 1..(Len(q) - 1)
          /\ \A i \in 1..(Len(q) - 1) : r[i] = q[i + 1]
      BY RestIs
    <2> HIDE DEF r
    <2>2. \A i \in 1..(Len(q) - 1) : i + 1 \in 1..Len(q) /\ i + 1 # 1 /\ i \in Nat
      BY <2>1
    <2>3. \A i \in 1..Len(q) : i = 1 \/ (i - 1 \in 1..(Len(q) - 1) /\ (i - 1) + 1 = i)
      BY <2>1
    <2>4. \A i \in 1..Len(q) : i = 1 \/ (i - 1 \in 1..(Len(q) - 1) /\ r[i - 1] = q[i])
      <3>1. SUFFICES ASSUME NEW i \in 1..Len(q), i # 1 PROVE i - 1 \in 1..(Len(q) - 1) /\ r[i - 1] = q[i]
        OBVIOUS
      <3>2. i - 1 \in 1..(Len(q) - 1) /\ (i - 1) + 1 = i
        BY <2>3, <3>1
      <3>3. QED
        BY <2>1, <3>2
    <2>5. QED
      BY <2>1, <2>2, <2>4
  <1> HIDE DEF r
  <1>2. \A i, j \in DOMAIN r : r[i].generation = v.generation /\ r[j].generation = v.generation => i = j
    <2>1. SUFFICES ASSUME NEW i \in DOMAIN r, NEW j \in DOMAIN r, r[i].generation = v.generation,
                          r[j].generation = v.generation
                   PROVE  i = j
      BY Zenon
    <2>2. i + 1 = j + 1
      BY <1>1, <2>1 DEF OneTask
    <2>3. i \in Nat /\ j \in Nat
      BY <1>1
    <2>4. QED
      BY <2>2, <2>3
  <1>3. q[1].generation = v.generation => \A i \in DOMAIN r : r[i].generation # v.generation
    BY <1>1 DEF OneTask
  <1>4. q[1].generation # v.generation =>
          ((\E i \in DOMAIN q : q[i].generation = v.generation) <=> (\E i \in DOMAIN r : r[i].generation = v.generation))
    <2>1. SUFFICES ASSUME q[1].generation # v.generation
                   PROVE  (\E i \in DOMAIN q : q[i].generation = v.generation)
                          <=> (\E i \in DOMAIN r : r[i].generation = v.generation)
      OBVIOUS
    <2>2. ASSUME NEW i \in DOMAIN q, q[i].generation = v.generation
          PROVE  \E k \in DOMAIN r : r[k].generation = v.generation
      <3>1. i - 1 \in DOMAIN r /\ r[i - 1] = q[i]
        BY <1>1, <2>1, <2>2
      <3>2. QED
        BY <2>2, <3>1
    <2>3. ASSUME NEW i \in DOMAIN r, r[i].generation = v.generation
          PROVE  \E k \in DOMAIN q : q[k].generation = v.generation
      BY <1>1, <2>3
    <2>4. QED
      BY <2>2, <2>3
  <1>5. OneTask(w, r)
    <2>1. CASE q[1].generation = v.generation
      BY <1>2, <1>3, <2>1 DEF OneTask
    <2>2. CASE q[1].generation # v.generation
      BY <1>2, <1>4, <2>2 DEF OneTask
    <2>3. QED
      BY <2>1, <2>2
  <1>6. QED
    BY <1>3, <1>5 DEF r

\* The tab's place and its stream did not change.
SamePlace(v, w) == w.generation = v.generation /\ w.stream = v.stream /\ w.chunks = v.chunks

\* So its tasks are still its.
LEMMA PlaceKeeps ==
    ASSUME NEW v, NEW w, SamePlace(v, w), NEW t
    PROVE  /\ TaskOf(v, t) => TaskOf(w, t)
           /\ HasEnded(v, t) => HasEnded(w, t)
           /\ Waits(v, t) /\ w.task = v.task => Waits(w, t)
  BY DEF SamePlace, TaskOf, GoesOnFrom, HasEnded, Waits

\* And those of a generation before are none of the tab's.
LEMMA OthersKeep ==
    ASSUME NEW v, NEW w, v.generation \in Nat, w.generation \in Nat, v.generation <= w.generation,
           NEW t, t.generation # w.generation
    PROVE  /\ TaskOf(v, t) => TaskOf(w, t)
           /\ HasEnded(v, t) => HasEnded(w, t)
           /\ Waits(v, t) /\ t.cancel => Waits(w, t)
  <1>1. TaskOf(v, t) => TaskOf(w, t)
    <2>1. SUFFICES ASSUME TaskOf(v, t) PROVE TaskOf(w, t)
      OBVIOUS
    <2>2. t.generation \in Nat /\ t.generation <= v.generation
      BY <2>1 DEF TaskOf, TaskIs, Task
    <2>3. QED
      BY <2>1, <2>2 DEF TaskOf
  <1>2. QED
    BY <1>1 DEF HasEnded, Waits

\* The tab tells the task it began last to stop, which leaves no other: each of them
\* was told before.
LEMMA CancelIs ==
    ASSUME TasksHold(view, tasks, results)
    PROVE  LET c == CancelTask(view.task)
           IN  /\ c \in Seq(Task) /\ Len(c) = Len(tasks) /\ DOMAIN c = DOMAIN tasks
               /\ \A i \in DOMAIN c : Waits(view, c[i]) /\ c[i].cancel
               /\ Alike(results \o tasks, results \o c)
  <1> DEFINE c == CancelTask(view.task)
             n == Len(tasks)
  <1>1. /\ tasks \in Seq(Task) /\ results \in Seq(Task) /\ n \in Nat /\ DOMAIN tasks = 1..n
        /\ \A i \in 1..n : tasks[i] \in Task
    BY DEF TasksHold
  <1>2. c = [i \in 1..n |-> IF tasks[i].id = view.task THEN [tasks[i] EXCEPT !.cancel = TRUE] ELSE tasks[i]]
    BY <1>1 DEF CancelTask
  <1> HIDE DEF c, n
  <1>3. ASSUME NEW i \in 1..n
        PROVE  /\ c[i] \in Task /\ c[i].generation = tasks[i].generation
               /\ Waits(view, c[i]) /\ c[i].cancel
    <2> DEFINE t == tasks[i]
    <2>1. t \in Task /\ Waits(view, t)
      BY <1>1, <1>3 DEF TasksHold
    <2>2. CASE t.id = view.task
      <3> DEFINE u == [t EXCEPT !.cancel = TRUE]
      <3>1. c[i] = u
        BY <1>2, <1>3, <2>2
      <3> HIDE DEF t
      <3>2. /\ u \in Task /\ u.generation = t.generation /\ u.kind = t.kind /\ u.stream = t.stream
            /\ u.next = t.next /\ u.chunks = t.chunks /\ u.cancel
        BY <2>1 DEF Task
      <3> HIDE DEF u
      <3>3. Packets(u) = Packets(t)
        BY <3>2 DEF Packets
      <3>4. TaskIs(u) /\ TaskOf(view, u)
        BY <2>1, <3>2, <3>3 DEF Waits, TaskOf, TaskIs, GoesOnFrom
      <3>5. Waits(view, u)
        BY <2>1, <3>2, <3>3, <3>4 DEF Waits
      <3>6. QED
        BY <3>1, <3>2, <3>5 DEF t
    <2>3. CASE t.id # view.task
      <3>1. c[i] = t
        BY <1>2, <1>3, <2>3
      <3>2. t.cancel
        BY <2>1, <2>3 DEF Waits
      <3>3. QED
        BY <2>1, <3>1, <3>2
    <2>4. QED
      BY <2>2, <2>3
  <1>4. c \in Seq(Task) /\ Len(c) = n /\ DOMAIN c = 1..n
    <2>1. c \in [1..n -> Task]
      BY <1>2, <1>3
    <2>2. c \in Seq(Task)
      BY <1>1, <2>1, SeqDef
    <2>3. DOMAIN c = 1..n /\ DOMAIN c = 1..Len(c) /\ Len(c) \in Nat
      BY <2>1, <2>2
    <2>4. Len(c) = n
      <3> DEFINE m == Len(c)
      <3>1. 1..n = 1..m /\ n \in Nat /\ m \in Nat
        BY <1>1, <2>3
      <3> HIDE DEF m
      <3>2. n = m
        BY <3>1, SameCount
      <3>3. QED
        BY <3>2 DEF m
    <2>5. QED
      BY <2>2, <2>3, <2>4
  <1>5. Alike(results \o tasks, results \o c)
    <2> DEFINE m == Len(results)
    <2>1. /\ DOMAIN (results \o tasks) = 1..(m + n) /\ m \in Nat
          /\ \A i \in 1..m : (results \o tasks)[i] = results[i]
          /\ \A i \in (m + 1)..(m + n) : (results \o tasks)[i] = tasks[i - m]
      BY <1>1, BehindIs DEF n
    <2>2. /\ DOMAIN (results \o c) = 1..(m + n)
          /\ \A i \in 1..m : (results \o c)[i] = results[i]
          /\ \A i \in (m + 1)..(m + n) : (results \o c)[i] = c[i - m]
      <3>1. /\ DOMAIN (results \o c) = 1..(Len(results) + Len(c))
            /\ \A i \in 1..Len(results) : (results \o c)[i] = results[i]
            /\ \A i \in (Len(results) + 1)..(Len(results) + Len(c)) : (results \o c)[i] = c[i - Len(results)]
        <4>1. results \in Seq(Task) /\ c \in Seq(Task)
          BY <1>1, <1>4
        <4>2. QED
          BY <4>1, BehindIs
      <3>2. QED
        BY <1>4, <3>1
    <2> DEFINE p == results \o tasks
               q == results \o c
    <2> HIDE DEF m, p, q
    <2>3. \A i \in (m + 1)..(m + n) : i - m \in 1..n
      BY <1>1, <2>1
    <2>4. \A i \in 1..(m + n) : i \in 1..m \/ i \in (m + 1)..(m + n)
      BY <1>1, <2>1
    <2>5. \A i \in 1..(m + n) : q[i].generation = p[i].generation
      BY <1>3, <2>1, <2>2, <2>3, <2>4 DEF p, q
    <2>6. QED
      BY <2>1, <2>2, <2>5 DEF Alike, p, q
  <1>6. QED
    BY <1>1, <1>3, <1>4, <1>5 DEF c, n

-----------------------------------------------------------------------------
(* What the user does in the tab.                                          *)

\* The types of what the tab holds.
LEMMA HeldIs ==
    ASSUME Held(view)
    PROVE  /\ view \in ViewRecord /\ view.generation \in Nat /\ view.task \in Nat /\ view.task <= MaxTasks
           /\ view.format \in Formats /\ view.directions \in Chosen /\ view.chunks \in Seq(StreamChunk)
           /\ Len(view.chunks) \in Nat /\ view.reader \in Nat /\ view.shownBytes \in Nat
           /\ view.busy \in BOOLEAN /\ view.rerenderPending \in BOOLEAN /\ view.more \in BOOLEAN
           /\ view.stream \in Streams \cup {None} /\ view.content \in Seq(Piece)
           /\ view.reader > 0 => view.stream \in Streams
  <1>1. view \in ViewRecord /\ view.task <= MaxTasks
    BY DEF Held
  <1>2. /\ view.generation \in Nat /\ view.task \in Nat
        /\ view.format \in Formats /\ view.directions \in Chosen /\ view.chunks \in Seq(StreamChunk)
        /\ view.reader \in Nat /\ view.shownBytes \in Nat
        /\ view.busy \in BOOLEAN /\ view.rerenderPending \in BOOLEAN /\ view.more \in BOOLEAN
        /\ view.stream \in Streams \cup {None} /\ view.content \in Seq(Piece)
    BY <1>1 DEF ViewRecord
  <1>3. Len(view.chunks) \in Nat
    BY <1>2
  <1>4. view.reader > 0 => view.stream \in Streams
    BY <1>2 DEF Held
  <1>5. QED
    BY <1>1, <1>2, <1>3, <1>4

\* A task that begins, for a tab that follows a stream.
Begins(t, v, kind, next, budget, raw) ==
    /\ v \in ViewRecord /\ v.stream \in Streams /\ kind \in {"read", "export"}
    /\ next \in Nat /\ budget \in Nat /\ raw \in BOOLEAN
    /\ t = Begun(v, kind, next, budget, raw)

\* What it is.
LEMMA BegunIs ==
    ASSUME NEW t, NEW v, NEW kind, NEW next, NEW budget, NEW raw, Begins(t, v, kind, next, budget, raw)
    PROVE  /\ t \in Task /\ t.kind = kind /\ t.id = v.task /\ t.generation = v.generation
           /\ t.stream = v.stream /\ t.next = next /\ t.chunks = <<>> /\ t.cancel = FALSE
  <1> DEFINE f == IF kind = "read" THEN "text" ELSE v.format
             d == IF kind = "read" THEN {0, 1} ELSE v.directions
             o == kind = "read" /\ v.opened
             u == Begun(v, kind, next, budget, raw)
  <1>0. /\ v \in ViewRecord /\ v.stream \in Streams /\ kind \in {"read", "export"}
        /\ next \in Nat /\ budget \in Nat /\ raw \in BOOLEAN /\ t = u
    BY DEF Begins
  <1>1. f \in Formats /\ d \in Chosen /\ o \in BOOLEAN
    <2>1. v.format \in Formats /\ v.directions \in Chosen /\ v.opened \in BOOLEAN
      BY <1>0 DEF ViewRecord
    <2>2. "text" \in Formats /\ {0, 1} \in Chosen
      BY ViewAssumption DEF Formats
    <2>3. QED
      BY <2>1, <2>2
  <1>2. v.task \in Nat /\ v.generation \in Nat /\ <<>> \in Seq(StreamChunk)
    BY <1>0 DEF ViewRecord
  <1>3. u = [kind |-> kind, id |-> v.task, generation |-> v.generation, stream |-> v.stream, next |-> next,
             budget |-> budget, chunks |-> <<>>, status |-> "", cancel |-> FALSE, raw |-> raw,
             format |-> f, directions |-> d, opened |-> o]
    BY DEF Begun
  <1> HIDE DEF f, d, o, u
  <1>4. u \in Task
    <2> DEFINE Ends0 == {"", "Done", "More", "Cancelled", "Failed"}
               e == ""
    <2>1. e \in Ends0
      OBVIOUS
    <2> HIDE DEF Ends0, e
    <2>2. u.status = e
      BY <1>3 DEF e
    <2>3. QED
      BY <1>0, <1>1, <1>2, <1>3, <2>1 DEF Task, Ends0, e
  <1>5. /\ u.kind = kind /\ u.id = v.task /\ u.generation = v.generation
        /\ u.stream = v.stream /\ u.next = next /\ u.chunks = <<>> /\ u.cancel = FALSE
    BY <1>3
  <1>6. QED
    BY <1>0, <1>4, <1>5

\* It waits, as the tab's own.
LEMMA BegunWaits ==
    ASSUME NEW t, NEW v, NEW kind, NEW next, NEW budget, NEW raw, Begins(t, v, kind, next, budget, raw),
           1 <= next, next <= Len(Given(v.stream)),
           kind = "read" => next = Len(v.chunks) + 1, kind = "export" => next = 1
    PROVE  Waits(v, t)
  <1>0. v \in ViewRecord /\ v.stream \in Streams /\ kind \in {"read", "export"} /\ next \in Nat
    BY DEF Begins
  <1>1. /\ t \in Task /\ t.kind = kind /\ t.id = v.task /\ t.generation = v.generation
        /\ t.stream = v.stream /\ t.next = next /\ t.chunks = <<>> /\ t.cancel = FALSE
    BY BegunIs
  <1> DEFINE g == Given(v.stream)
  <1>2. Packets(t) = g /\ g \in Seq(StreamChunk) /\ Len(g) \in Nat /\ next <= Len(g)
    BY <1>0, <1>1, StreamsGive DEF Packets, Given
  <1> HIDE DEF g
  <1>3. next \in 1..(Len(g) + 1)
    BY <1>0, <1>2
  <1>4. kind = "export" => <<>> = Prefix(g, next - 1)
    <2>1. SUFFICES ASSUME kind = "export" PROVE <<>> = Prefix(g, next - 1)
      OBVIOUS
    <2>2. next - 1 = 0 /\ 0 \in 0..Len(g)
      BY <1>2, <2>1
    <2>3. Prefix(g, 0) = <<>>
      BY <1>2, <2>2, PrefixIs
    <2>4. QED
      BY <2>2, <2>3
  <1>5. kind = "read" => Len(v.chunks) < next /\ <<>> = SubSeq(g, Len(v.chunks) + 1, next - 1)
    <2>1. SUFFICES ASSUME kind = "read"
                   PROVE  Len(v.chunks) < next /\ <<>> = SubSeq(g, Len(v.chunks) + 1, next - 1)
      OBVIOUS
    <2> DEFINE m == Len(v.chunks)
    <2>2. m \in Nat
      <3>1. v.chunks \in Seq(StreamChunk)
        BY <1>0 DEF ViewRecord
      <3>2. QED
        BY <3>1
    <2>3. next = m + 1
      BY <2>1
    <2> HIDE DEF m
    <2>4. m < next /\ next - 1 = m /\ m \in 0..Len(g) /\ m \in m..Len(g)
      BY <1>2, <2>2, <2>3
    <2>5. SubSeq(g, m + 1, m) = <<>>
      BY <1>2, <2>4, PartIs
    <2>6. QED
      BY <2>4, <2>5 DEF m
  <1>6. v.generation \in Nat
    BY <1>0 DEF ViewRecord
  <1>7. TaskIs(t)
    BY <1>0, <1>1, <1>2, <1>3, <1>4 DEF TaskIs
  <1>8. TaskOf(v, t)
    <2>1. kind = "read" => GoesOnFrom(v, t)
      BY <1>1, <1>2, <1>5 DEF GoesOnFrom
    <2>2. t.generation <= v.generation
      BY <1>1, <1>6
    <2>3. QED
      BY <1>1, <1>7, <2>1, <2>2 DEF TaskOf
  <1>9. Waits(v, t)
    BY <1>1, <1>2, <1>8 DEF Waits
  <1>10. QED
    BY <1>9

\* A task begins, behind all others.
LEMMA TaskBegins ==
    ASSUME NEW w, w.busy, NEW ts \in Seq(Task), NEW rs \in Seq(Task), NEW t \in Task,
           t.generation = w.generation, Waits(w, t), w.task \in Nat, Len(rs \o ts) + 1 <= w.task,
           \A i \in DOMAIN ts : Waits(w, ts[i]),
           \A i \in DOMAIN rs : HasEnded(w, rs[i]),
           \A i \in DOMAIN (rs \o ts) : (rs \o ts)[i].generation # w.generation
    PROVE  TasksHold(w, Append(ts, t), rs)
  <1> DEFINE q == rs \o ts
             u == Append(ts, t)
  <1>1. q \in Seq(Task) /\ rs \o u = Append(q, t)
    OBVIOUS
  <1>2. /\ u \in Seq(Task) /\ Len(ts) \in Nat /\ DOMAIN ts = 1..Len(ts) /\ DOMAIN u = 1..(Len(ts) + 1)
        /\ \A i \in 1..Len(ts) : u[i] = ts[i]
        /\ u[Len(ts) + 1] = t
    BY MoreIs
  <1>3. Len(Append(q, t)) = Len(q) + 1
    <2> HIDE DEF q
    <2>1. QED
      BY <1>1, MoreIs
  <1> HIDE DEF q, u
  <1>4. OneTask(w, Append(q, t))
    BY <1>1, BeginHolds DEF q
  <1>5. \A i \in DOMAIN u : Waits(w, u[i])
    <2>1. \A i \in DOMAIN u : i = Len(ts) + 1 \/ i \in DOMAIN ts
      BY <1>2
    <2>2. QED
      BY <1>2, <2>1
  <1>6. TasksHold(w, u, rs)
    BY <1>1, <1>2, <1>3, <1>4, <1>5 DEF TasksHold, q
  <1>7. QED
    BY <1>6 DEF u

\* The tasks of a tab that left its stream: all of them were cancelled, and none is of
\* the stream it comes to.
LEMMA TasksLeft ==
    ASSUME Held(view), TasksHold(view, tasks, results), NEW w, w.generation = view.generation + 1
    PROVE  LET c == CancelTask(view.task)
           IN  /\ c \in Seq(Task) /\ results \in Seq(Task) /\ Len(results \o c) <= view.task
               /\ \A i \in DOMAIN c : Waits(w, c[i])
               /\ \A i \in DOMAIN results : HasEnded(w, results[i])
               /\ \A i \in DOMAIN (results \o c) : (results \o c)[i].generation # w.generation
  <1> DEFINE c == CancelTask(view.task)
             g == view.generation
  <1>1. /\ c \in Seq(Task) /\ Len(c) = Len(tasks) /\ DOMAIN c = DOMAIN tasks
        /\ \A i \in DOMAIN c : Waits(view, c[i]) /\ c[i].cancel
        /\ Alike(results \o tasks, results \o c)
    BY CancelIs
  <1>2. results \in Seq(Task) /\ tasks \in Seq(Task) /\ Len(results \o tasks) <= view.task
    BY DEF TasksHold
  <1> HIDE DEF c
  <1>3. g \in Nat /\ w.generation = g + 1
    BY HeldIs
  <1>4. \A i \in DOMAIN c : c[i].generation <= g /\ c[i].generation \in Nat
    BY <1>1 DEF Waits, TaskOf, TaskIs, Task
  <1>5. \A i \in DOMAIN results : HasEnded(view, results[i]) /\ results[i].generation <= g
                                  /\ results[i].generation \in Nat
    BY DEF TasksHold, HasEnded, TaskOf, TaskIs, Task
  <1> HIDE DEF g
  <1>6. \A n \in Nat : n <= g => n # w.generation
    BY <1>3
  <1>7. g <= w.generation /\ w.generation \in Nat
    BY <1>3
  <1>8. \A i \in DOMAIN c : Waits(w, c[i])
    BY <1>1, <1>3, <1>4, <1>6, <1>7, OthersKeep DEF g
  <1>9. \A i \in DOMAIN results : HasEnded(w, results[i])
    BY <1>3, <1>5, <1>6, <1>7, OthersKeep DEF g
  <1> DEFINE m == Len(results)
             n == Len(c)
             q == results \o c
  <1>10. /\ Len(q) = m + n /\ m \in Nat /\ n \in Nat
         /\ DOMAIN q = 1..(m + n) /\ DOMAIN results = 1..m /\ DOMAIN c = 1..n
         /\ \A i \in 1..m : q[i] = results[i]
         /\ \A i \in (m + 1)..(m + n) : q[i] = c[i - m]
    <2>1. results \in Seq(Task) /\ c \in Seq(Task)
      BY <1>1, <1>2
    <2>2. QED
      BY <2>1, BehindIs
  <1>11. Len(results \o tasks) = m + n
    BY <1>1, <1>2
  <1> HIDE DEF m, n, q
  <1>12. \A i \in DOMAIN q : q[i].generation # w.generation
    <2>1. \A i \in 1..(m + n) : i \in 1..m \/ (i \in (m + 1)..(m + n) /\ i - m \in 1..n)
      BY <1>10
    <2>2. QED
      BY <1>4, <1>5, <1>6, <1>10, <2>1
  <1>13. Len(q) <= view.task
    BY <1>2, <1>10, <1>11
  <1>14. QED
    BY <1>1, <1>2, <1>8, <1>9, <1>12, <1>13 DEF c, q

\* clear()
LEMMA ClearStep ==
    ASSUME TabInv, ClearView
    PROVE  Held(view') /\ AsChosen(view') /\ TasksHold(view', tasks', results')
  <1>1. Held(view) /\ TasksHold(view, tasks, results)
    BY DEF TabInv
  <1> DEFINE w == Cleared
             c == CancelTask(view.task)
  <1>2. view' = w /\ tasks' = c /\ results' = results
    BY DEF ClearView
  <1>3. Held(w) /\ AsChosen(w) /\ w.generation = view.generation + 1 /\ w.task = view.task /\ ~w.busy
    BY <1>1, ClearedHolds
  <1> HIDE DEF w
  <1>4. /\ c \in Seq(Task) /\ results \in Seq(Task) /\ Len(results \o c) <= view.task
        /\ \A i \in DOMAIN c : Waits(w, c[i])
        /\ \A i \in DOMAIN results : HasEnded(w, results[i])
        /\ \A i \in DOMAIN (results \o c) : (results \o c)[i].generation # w.generation
    BY <1>1, <1>3, TasksLeft
  <1> HIDE DEF c
  <1>5. OneTask(w, results \o c)
    BY <1>3, <1>4 DEF OneTask
  <1>6. TasksHold(w, c, results)
    BY <1>3, <1>4, <1>5 DEF TasksHold
  <1>7. QED
    BY <1>2, <1>3, <1>6

\* follow()
LEMMA FollowStep ==
    ASSUME TabInv, NEW stream \in Streams, stream # None, Follow(stream)
    PROVE  Held(view') /\ AsChosen(view') /\ TasksHold(view', tasks', results')
  <1>1. Held(view) /\ TasksHold(view, tasks, results)
    BY DEF TabInv
  <1> DEFINE k == Cleared
             c == CancelTask(view.task)
             r == Renderer(view.format, view.directions, FALSE)
             n == view.task + 1
             w == [k EXCEPT !.stream = stream, !.reader = 1, !.busy = TRUE, !.task = n, !.renderer = r]
             t == Begun(w, "read", 1, ShowBytes, FALSE)
  <1>2. view' = w /\ tasks' = Append(c, t) /\ results' = results /\ view.task < MaxTasks
    BY DEF Follow
  <1>3. /\ Held(k) /\ k.generation = view.generation + 1 /\ k.format = view.format
        /\ k.directions = view.directions /\ k.chunks = <<>> /\ k.content = <<>>
        /\ k.rerenderPending = FALSE /\ k.more = FALSE
    BY <1>1, ClearedHolds
  <1> HIDE DEF k
  <1>4. r \in RendererOf /\ n \in Nat /\ n <= MaxTasks
    <2>1. r \in RendererOf
      BY <1>1, HeldIs, RendererType
    <2> HIDE DEF r
    <2>2. view.task \in Nat /\ MaxTasks \in Nat
      BY <1>1, HeldIs, ViewAssumption
    <2>3. QED
      BY <1>2, <2>1, <2>2
  <1> HIDE DEF r
  <1>5. /\ w \in ViewRecord /\ w.stream = stream /\ w.reader = 1 /\ w.busy = TRUE /\ w.task = n
        /\ w.generation = view.generation + 1 /\ w.format = view.format /\ w.directions = view.directions
        /\ w.chunks = <<>> /\ w.content = <<>> /\ w.rerenderPending = FALSE /\ w.more = FALSE
        /\ w.renderer = r
    <2>1. k \in ViewRecord /\ 1 \in Nat
      BY <1>3 DEF Held
    <2> HIDE DEF n
    <2>2. QED
      BY <1>3, <1>4, <2>1 DEF ViewRecord
  <1> HIDE DEF w
  <1>6. /\ Given(stream) \in Seq(StreamChunk) /\ Len(Given(stream)) \in Nat /\ Len(Given(stream)) >= 1
        /\ Contents[stream].udp \in BOOLEAN
    BY StreamsGive
  <1>7. Held(w)
    <2>1. Prefix(Given(stream), 0) = <<>> /\ Len(<<>>) = 0
      BY <1>6, PrefixIs
    <2>2. QED
      BY <1>4, <1>5, <1>6, <2>1 DEF Held
  <1>8. AsChosen(w)
    <2>1. Renderer(w.format, w.directions, Contents[stream].udp) \in RendererOf
      BY <1>1, <1>5, <1>6, HeldIs, RendererType
    <2>2. Anew(w).text = <<>>
      BY <1>5, <2>1, RenderedNone DEF Anew
    <2>3. QED
      BY <1>5, <2>2 DEF AsChosen
  <1>9. /\ c \in Seq(Task) /\ results \in Seq(Task) /\ Len(results \o c) <= view.task
        /\ \A i \in DOMAIN c : Waits(w, c[i])
        /\ \A i \in DOMAIN results : HasEnded(w, results[i])
        /\ \A i \in DOMAIN (results \o c) : (results \o c)[i].generation # w.generation
    BY <1>1, <1>5, TasksLeft
  <1> HIDE DEF c
  <1>10. t \in Task /\ t.generation = w.generation /\ Waits(w, t)
    <2>1. ShowBytes \in Nat /\ 1 \in Nat /\ FALSE \in BOOLEAN /\ "read" \in {"read", "export"}
      BY ViewAssumption
    <2>2. Len(w.chunks) = 0 /\ 1 = Len(w.chunks) + 1 /\ 1 <= Len(Given(w.stream)) /\ 1 <= 1 /\ "read" # "export"
      BY <1>5, <1>6
    <2>3. Begins(t, w, "read", 1, ShowBytes, FALSE)
      BY <1>5, <2>1 DEF Begins
    <2> HIDE DEF t
    <2>4. t \in Task /\ t.generation = w.generation
      BY <2>3, BegunIs
    <2>5. Waits(w, t)
      BY <2>2, <2>3, BegunWaits
    <2>6. QED
      BY <2>4, <2>5
  <1> HIDE DEF t
  <1>11. TasksHold(w, Append(c, t), results)
    <2> DEFINE q == results \o c
    <2>1. Len(q) + 1 <= n /\ w.task = n /\ n \in Nat
      <3>1. Len(q) \in Nat /\ Len(q) <= view.task /\ view.task \in Nat
        <4>1. q \in Seq(Task)
          BY <1>9
        <4>2. QED
          BY <1>1, <1>9, <4>1, HeldIs
      <3> HIDE DEF q
      <3>2. QED
        BY <1>4, <1>5, <3>1
    <2> HIDE DEF n
    <2>2. QED
      BY <1>5, <1>9, <1>10, <2>1, TaskBegins
  <1>12. QED
    BY <1>2, <1>7, <1>8, <1>11

\* Nothing changed for the tasks.
LEMMA TasksSame ==
    ASSUME NEW v, NEW w, NEW ts, NEW rs, TasksHold(v, ts, rs), SamePlace(v, w), w.task = v.task, w.busy = v.busy
    PROVE  TasksHold(w, ts, rs)
  <1>1. \A i \in DOMAIN ts : Waits(w, ts[i])
    BY PlaceKeeps DEF TasksHold
  <1>2. \A i \in DOMAIN rs : HasEnded(w, rs[i])
    BY PlaceKeeps DEF TasksHold
  <1>3. OneTask(w, rs \o ts)
    BY DEF TasksHold, OneTask, SamePlace
  <1>4. QED
    BY <1>1, <1>2, <1>3 DEF TasksHold

\* A tab that has no task begins one, where it stands.
LEMMA WorkBegins ==
    ASSUME Held(view), TasksHold(view, tasks, results), ~view.busy,
           NEW w, SamePlace(view, w), w.task = view.task + 1, w.busy,
           NEW t \in Task, t.generation = w.generation, Waits(w, t)
    PROVE  TasksHold(w, Append(tasks, t), results)
  <1> DEFINE q == results \o tasks
  <1>1. /\ tasks \in Seq(Task) /\ results \in Seq(Task) /\ Len(q) <= view.task /\ OneTask(view, q)
        /\ \A i \in DOMAIN tasks : Waits(view, tasks[i])
        /\ \A i \in DOMAIN results : HasEnded(view, results[i])
    BY DEF TasksHold
  <1>2. view.generation \in Nat /\ w.generation = view.generation /\ view.task \in Nat
    BY HeldIs DEF SamePlace
  <1>3. q \in Seq(Task) /\ Len(q) \in Nat
    <2>1. Len(results) \in Nat /\ Len(tasks) \in Nat /\ q \in Seq(Task) /\ Len(q) = Len(results) + Len(tasks)
      BY <1>1, BehindIs
    <2> HIDE DEF q
    <2>2. QED
      BY <2>1
  <1>4. \A i \in DOMAIN q : q[i].generation # w.generation
    BY <1>1, <1>2 DEF OneTask
  <1>5. \A i \in DOMAIN tasks : tasks[i].generation # w.generation
    <2> DEFINE m == Len(results)
               n == Len(tasks)
    <2>1. /\ DOMAIN q = 1..(m + n) /\ DOMAIN tasks = 1..n /\ m \in Nat /\ n \in Nat
          /\ \A i \in 1..n : q[m + i] = tasks[i]
      BY <1>1, BehindIs
    <2> HIDE DEF m, n, q
    <2>2. \A i \in 1..n : m + i \in 1..(m + n)
      BY <2>1
    <2>3. QED
      BY <1>4, <2>1, <2>2
  <1>6. \A i \in DOMAIN tasks : Waits(w, tasks[i])
    <2>1. \A i \in DOMAIN tasks : tasks[i].cancel
      BY <1>1, <1>2, <1>5 DEF Waits
    <2>2. view.generation <= w.generation /\ w.generation \in Nat
      BY <1>2
    <2>3. QED
      BY <1>1, <1>2, <1>5, <2>1, <2>2, OthersKeep
  <1>7. \A i \in DOMAIN results : HasEnded(w, results[i])
    <2>1. \A r : HasEnded(view, r) => HasEnded(w, r)
      BY PlaceKeeps
    <2>2. \A i \in DOMAIN results : HasEnded(view, results[i])
      BY DEF TasksHold
    <2>3. QED
      BY <2>1, <2>2
  <1>8. w.task \in Nat /\ Len(q) + 1 <= w.task
    <2>1. Len(q) \in Nat /\ Len(q) <= view.task
      BY <1>1, <1>3
    <2> HIDE DEF q
    <2>2. QED
      BY <1>2, <2>1
  <1>9. QED
    BY <1>1, <1>4, <1>6, <1>7, <1>8, TaskBegins

\* The lesser of two.
LEMMA LesserIs ==
    ASSUME NEW a \in Nat, NEW b \in Nat
    PROVE  Min({a, b}) \in Nat
  <1>1. \E x \in {a, b} : \A y \in {a, b} : x <= y
    <2>1. CASE a <= b
      BY <2>1
    <2>2. CASE b <= a
      BY <2>2
    <2>3. QED
      BY <2>1, <2>2
  <1>2. Min({a, b}) \in {a, b}
    BY <1>1 DEF Min
  <1>3. QED
    BY <1>2

\* A tab as before, but busy with a task of its own.
LEMMA BusyHolds ==
    ASSUME Held(view), AsChosen(view), view.reader > 0, ~view.busy, view.task < MaxTasks,
           NEW d \in Dialogs,
           NEW w, w = [view EXCEPT !.busy = TRUE, !.task = view.task + 1, !.dialog = d]
    PROVE  /\ Held(w) /\ AsChosen(w) /\ SamePlace(view, w) /\ w.task = view.task + 1 /\ w.busy = TRUE
           /\ w \in ViewRecord
  <1>1. view \in ViewRecord /\ view.task \in Nat /\ MaxTasks \in Nat /\ ~view.rerenderPending
    BY HeldIs, ViewAssumption DEF AsChosen
  <1> DEFINE n == view.task + 1
             u == [view EXCEPT !.busy = TRUE, !.task = n, !.dialog = d]
  <1>2. n \in Nat /\ n <= MaxTasks
    BY <1>1
  <1> HIDE DEF n
  <1>3. /\ u \in ViewRecord /\ u.task = n /\ u.busy = TRUE
        /\ u.stream = view.stream /\ u.reader = view.reader /\ u.generation = view.generation
        /\ u.chunks = view.chunks /\ u.more = view.more /\ u.rerenderPending = view.rerenderPending
        /\ u.content = view.content /\ u.renderer = view.renderer /\ u.format = view.format
        /\ u.directions = view.directions
    BY <1>1, <1>2 DEF ViewRecord
  <1>4. w = u
    BY DEF n
  <1> HIDE DEF u
  <1>5. Held(u)
    BY <1>2, <1>3 DEF Held
  <1>6. AsChosen(u)
    <2>1. Anew(u) = Anew(view)
      BY <1>3 DEF Anew
    <2>2. QED
      BY <1>3, <2>1 DEF AsChosen
  <1>7. QED
    BY <1>3, <1>4, <1>5, <1>6 DEF SamePlace, n

\* showMore()
LEMMA ShowMoreStep ==
    ASSUME TabInv, ShowMore
    PROVE  Held(view') /\ AsChosen(view') /\ TasksHold(view', tasks', results')
  <1>0. Held(view) /\ AsChosen(view) /\ TasksHold(view, tasks, results)
    BY DEF TabInv
  <1> DEFINE w == [view EXCEPT !.busy = TRUE, !.task = view.task + 1]
             b == Min({ShowBytes, MaxShown - view.shownBytes})
             t == Begun(w, "read", view.reader, b, FALSE)
  <1>1. /\ ~view.busy /\ view.more /\ view.reader > 0 /\ view.shownBytes < MaxShown
        /\ view.task < MaxTasks /\ view' = w /\ tasks' = Append(tasks, t) /\ results' = results
    BY DEF ShowMore
  <1>2. /\ view \in ViewRecord /\ view.stream \in Streams /\ view.reader \in Nat /\ view.shownBytes \in Nat
        /\ view.reader = Len(view.chunks) + 1 /\ view.reader <= Len(Given(view.stream)) /\ 1 <= view.reader
        /\ Len(view.chunks) \in Nat
    BY <1>0, <1>1, HeldIs DEF Held
  <1>3. w = [view EXCEPT !.busy = TRUE, !.task = view.task + 1, !.dialog = view.dialog] /\ view.dialog \in Dialogs
    <2> DEFINE n == view.task + 1
    <2> HIDE DEF n
    <2>1. [view EXCEPT !.busy = TRUE, !.task = n] = [view EXCEPT !.busy = TRUE, !.task = n, !.dialog = view.dialog]
      BY <1>2 DEF ViewRecord
    <2>2. view.dialog \in Dialogs
      BY <1>2 DEF ViewRecord
    <2>3. QED
      BY <2>1, <2>2 DEF n
  <1> HIDE DEF w
  <1>4. /\ Held(w) /\ AsChosen(w) /\ SamePlace(view, w) /\ w.task = view.task + 1 /\ w.busy = TRUE
        /\ w \in ViewRecord
    BY <1>0, <1>1, <1>3, BusyHolds
  <1>5. b \in Nat
    <2> DEFINE y == MaxShown - view.shownBytes
    <2>1. ShowBytes \in Nat /\ MaxShown \in Nat
      BY ViewAssumption
    <2>2. y \in Nat
      BY <1>1, <1>2, <2>1
    <2> HIDE DEF y
    <2>3. Min({ShowBytes, y}) \in Nat
      BY <2>1, <2>2, LesserIs
    <2>4. QED
      BY <2>3 DEF y
  <1> HIDE DEF b
  <1>6. Begins(t, w, "read", view.reader, b, FALSE)
    BY <1>2, <1>4, <1>5 DEF Begins, SamePlace
  <1> HIDE DEF t
  <1>7. t \in Task /\ t.generation = w.generation
    BY <1>6, BegunIs
  <1>8. Waits(w, t)
    <2>1. /\ view.reader <= Len(Given(w.stream)) /\ view.reader = Len(w.chunks) + 1 /\ 1 <= view.reader
          /\ "read" # "export"
      BY <1>2, <1>4 DEF SamePlace
    <2>2. QED
      BY <1>6, <2>1, BegunWaits
  <1>9. TasksHold(w, Append(tasks, t), results)
    BY <1>0, <1>1, <1>4, <1>7, <1>8, WorkBegins
  <1>10. QED
    BY <1>1, <1>4, <1>9

\* The export dialog is shown, and ends.
LEMMA DialogStep ==
    ASSUME TabInv, NEW raw \in BOOLEAN, NEW accepted \in BOOLEAN, ChooseExport(raw) \/ DialogEnds(accepted)
    PROVE  Held(view') /\ AsChosen(view') /\ TasksHold(view', tasks', results')
  <1>0. Held(view) /\ AsChosen(view) /\ TasksHold(view, tasks, results) /\ view \in ViewRecord
    BY HeldIs DEF TabInv
  <1>a. ASSUME NEW d \in Dialogs, view' = [view EXCEPT !.dialog = d], tasks' = tasks, results' = results
        PROVE  Held(view') /\ AsChosen(view') /\ TasksHold(view', tasks', results')
    <2> DEFINE w == [view EXCEPT !.dialog = d]
    <2>1. /\ w \in ViewRecord /\ w.task = view.task /\ w.busy = view.busy
          /\ w.stream = view.stream /\ w.reader = view.reader /\ w.generation = view.generation
          /\ w.chunks = view.chunks /\ w.more = view.more /\ w.rerenderPending = view.rerenderPending
          /\ w.content = view.content /\ w.renderer = view.renderer /\ w.format = view.format
          /\ w.directions = view.directions
      BY <1>0 DEF ViewRecord
    <2>2. view' = w
      BY <1>a
    <2> HIDE DEF w
    <2>3. Held(w)
      BY <1>0, <2>1 DEF Held
    <2>4. AsChosen(w)
      <3>1. Anew(w) = Anew(view)
        BY <2>1 DEF Anew
      <3>2. QED
        BY <1>0, <2>1, <3>1 DEF AsChosen
    <2>5. TasksHold(w, tasks, results)
      BY <1>0, <2>1, TasksSame DEF SamePlace
    <2>6. QED
      BY <1>a, <2>2, <2>3, <2>4, <2>5
  <1>1. CASE ChooseExport(raw)
    <2>1. view' = [view EXCEPT !.dialog = IF raw THEN "raw" ELSE "text"] /\ tasks' = tasks /\ results' = results
      BY <1>1 DEF ChooseExport
    <2>2. (IF raw THEN "raw" ELSE "text") \in Dialogs
      BY DEF Dialogs
    <2>3. QED
      BY <1>a, <2>1, <2>2
  <1>2. CASE DialogEnds(accepted)
    <2> DEFINE w == [view EXCEPT !.busy = TRUE, !.task = view.task + 1, !.dialog = ""]
               b == view.dialog = "raw"
               t == Begun(w, "export", 1, 0, b)
    <2>1. "" \in Dialogs
      BY DEF Dialogs
    <2>2. CASE accepted /\ view.reader > 0 /\ ~view.busy
      <3>1. view.task < MaxTasks /\ view' = w /\ tasks' = Append(tasks, t) /\ results' = results
        BY <1>2, <2>2 DEF DialogEnds
      <3>2. /\ Held(w) /\ AsChosen(w) /\ SamePlace(view, w) /\ w.task = view.task + 1 /\ w.busy = TRUE
            /\ w \in ViewRecord
        <4> DEFINE none == ""
                   u == [view EXCEPT !.busy = TRUE, !.task = view.task + 1, !.dialog = none]
        <4>1. none \in Dialogs /\ w = u
          BY <2>1
        <4> HIDE DEF none, w
        <4>2. QED
          BY <1>0, <2>2, <3>1, <4>1, BusyHolds
      <3>3. view.stream \in Streams
        BY <1>0, <2>2, HeldIs
      <3> HIDE DEF w
      <3>4. b \in BOOLEAN
        OBVIOUS
      <3> HIDE DEF b
      <3>5. Begins(t, w, "export", 1, 0, b)
        BY <3>2, <3>3, <3>4 DEF Begins, SamePlace
      <3> HIDE DEF t
      <3>6. t \in Task /\ t.generation = w.generation
        BY <3>5, BegunIs
      <3>7. Waits(w, t)
        <4>1. 1 <= Len(Given(w.stream)) /\ 1 <= 1 /\ "read" # "export"
          <5>1. w.stream \in Streams
            BY <3>2, <3>3 DEF SamePlace
          <5>2. Len(Given(w.stream)) \in Nat /\ Len(Given(w.stream)) >= 1
            BY <5>1, StreamsGive
          <5>3. QED
            BY <5>2
        <4>2. QED
          BY <3>5, <4>1, BegunWaits
      <3>8. TasksHold(w, Append(tasks, t), results)
        BY <1>0, <2>2, <3>2, <3>6, <3>7, WorkBegins
      <3>9. QED
        BY <3>1, <3>2, <3>8
    <2>3. CASE ~(accepted /\ view.reader > 0 /\ ~view.busy)
      <3>1. view' = [view EXCEPT !.dialog = ""] /\ tasks' = tasks /\ results' = results
        BY <1>2, <2>3 DEF DialogEnds
      <3>2. QED
        BY <1>a, <2>1, <3>1
    <2>4. QED
      BY <2>2, <2>3
  <1>3. QED
    BY <1>1, <1>2

\* cancel()
LEMMA CancelStep ==
    ASSUME TabInv, Cancel
    PROVE  Held(view') /\ AsChosen(view') /\ TasksHold(view', tasks', results')
  <1>0. Held(view) /\ AsChosen(view) /\ TasksHold(view, tasks, results)
    BY DEF TabInv
  <1> DEFINE c == CancelTask(view.task)
  <1>1. view' = view /\ tasks' = c /\ results' = results
    BY DEF Cancel
  <1>2. /\ c \in Seq(Task) /\ Len(c) = Len(tasks) /\ DOMAIN c = DOMAIN tasks
        /\ \A i \in DOMAIN c : Waits(view, c[i]) /\ c[i].cancel
        /\ Alike(results \o tasks, results \o c)
    BY <1>0, CancelIs
  <1> HIDE DEF c
  <1>3. /\ results \in Seq(Task) /\ tasks \in Seq(Task) /\ Len(results \o tasks) <= view.task
        /\ OneTask(view, results \o tasks) /\ \A i \in DOMAIN results : HasEnded(view, results[i])
    BY <1>0 DEF TasksHold
  <1>4. OneTask(view, results \o c)
    BY <1>2, <1>3, AlikeHolds
  <1>5. Len(results \o c) = Len(results \o tasks)
    <2>1. Len(results \o tasks) = Len(results) + Len(tasks)
      BY <1>3, BehindIs
    <2>2. Len(results \o c) = Len(results) + Len(c)
      BY <1>2, <1>3, BehindIs
    <2>3. QED
      BY <1>2, <2>1, <2>2
  <1>6. TasksHold(view, c, results)
    BY <1>2, <1>3, <1>4, <1>5 DEF TasksHold
  <1>7. QED
    BY <1>0, <1>1, <1>6

\* setFormat() and setDirections()
LEMMA ChooseStep ==
    ASSUME TabInv, NEW format \in Formats, NEW directions \in Chosen, Choose(format, directions)
    PROVE  Held(view') /\ AsChosen(view') /\ TasksHold(view', tasks', results')
  <1>0. Held(view) /\ AsChosen(view) /\ TasksHold(view, tasks, results) /\ view \in ViewRecord
    BY HeldIs DEF TabInv
  <1> DEFINE v == [view EXCEPT !.format = format, !.directions = directions]
             u == [v EXCEPT !.rerenderPending = TRUE]
  <1>1. view' = (IF view.busy THEN u ELSE Rerender(v)) /\ tasks' = tasks /\ results' = results
    BY DEF Choose
  <1>2. /\ v \in ViewRecord /\ v.task = view.task /\ v.busy = view.busy
        /\ v.stream = view.stream /\ v.reader = view.reader /\ v.generation = view.generation
        /\ v.chunks = view.chunks /\ v.more = view.more /\ v.rerenderPending = view.rerenderPending
        /\ v.renderer = view.renderer
    BY <1>0 DEF ViewRecord
  <1> HIDE DEF v
  <1>3. Held(v)
    BY <1>0, <1>2 DEF Held
  <1>4. CASE view.busy
    <2>1. /\ u \in ViewRecord /\ u.task = view.task /\ u.busy = view.busy
          /\ u.stream = view.stream /\ u.reader = view.reader /\ u.generation = view.generation
          /\ u.chunks = view.chunks /\ u.more = view.more /\ u.rerenderPending = TRUE
          /\ u.renderer = view.renderer
      BY <1>2 DEF ViewRecord
    <2> HIDE DEF u
    <2>2. Held(u) /\ AsChosen(u)
      BY <1>0, <1>4, <2>1 DEF Held, AsChosen
    <2>3. TasksHold(u, tasks, results)
      BY <1>0, <2>1, TasksSame DEF SamePlace
    <2>4. QED
      BY <1>1, <1>4, <2>2, <2>3
  <1>5. CASE ~view.busy
    <2> DEFINE w == Rerender(v)
    <2>1. Held(w) /\ AsChosen(w) /\ SameHeld(v, w)
      BY <1>3, RerenderShows
    <2> HIDE DEF w
    <2>2. TasksHold(w, tasks, results)
      BY <1>0, <1>2, <2>1, TasksSame DEF SamePlace, SameHeld
    <2>3. QED
      BY <1>1, <1>5, <2>1, <2>2 DEF w
  <1>6. QED
    BY <1>4, <1>5

-----------------------------------------------------------------------------
(* What the pool does.                                                     *)

\* A task that has read as much as another.
Likewise(t, u) ==
    /\ u \in Task /\ u.kind = t.kind /\ u.stream = t.stream /\ u.generation = t.generation
    /\ u.next = t.next /\ u.chunks = t.chunks

\* It is as far as that one.
LEMMA LikewiseIs ==
    ASSUME NEW v, NEW t, NEW u, TaskOf(v, t), Likewise(t, u)
    PROVE  TaskOf(v, u) /\ Packets(u) = Packets(t)
  <1>1. Packets(u) = Packets(t)
    BY DEF Likewise, Packets
  <1>2. QED
    BY <1>1 DEF Likewise, TaskOf, TaskIs, GoesOnFrom

\* The file is opened, or the task ends.
LEMMA ChangedIs ==
    ASSUME NEW t \in Task, NEW o \in BOOLEAN, NEW s \in Endings
    PROVE  /\ Likewise(t, [t EXCEPT !.opened = o])
           /\ Likewise(t, [t EXCEPT !.status = s]) /\ [t EXCEPT !.status = s].status = s
           /\ [t EXCEPT !.opened = o].id = t.id /\ [t EXCEPT !.opened = o].cancel = t.cancel
  <1> DEFINE E == {"", "Done", "More", "Cancelled", "Failed"}
  <1>1. s \in E
    BY DEF Endings
  <1> HIDE DEF E
  <1>2. QED
    BY <1>1 DEF Task, Likewise, E

\* Opened(t) is.
LEMMA OpenedIs ==
    ASSUME NEW v, NEW t, Waits(v, t)
    PROVE  /\ Opened(t) \in Task /\ TaskOf(v, Opened(t)) /\ Waits(v, Opened(t))
           /\ Opened(t).generation = t.generation /\ Opened(t).next = t.next /\ Packets(Opened(t)) = Packets(t)
           /\ Opened(t).stream = t.stream /\ Opened(t).kind = t.kind /\ Opened(t).chunks = t.chunks
           /\ Opened(t).id = t.id /\ Opened(t).cancel = t.cancel
  <1> DEFINE o == t.opened \/ t.stream \notin gone
             u == [t EXCEPT !.opened = o]
  <1>1. t \in Task /\ TaskOf(v, t) /\ "" \in Endings
    BY DEF Waits, TaskOf, TaskIs, Endings
  <1>2. Opened(t) = u /\ o \in BOOLEAN
    BY <1>1 DEF Opened
  <1> HIDE DEF o
  <1>3. Likewise(t, u) /\ u.id = t.id /\ u.cancel = t.cancel
    BY <1>1, <1>2, ChangedIs
  <1> HIDE DEF u
  <1>4. TaskOf(v, u) /\ Packets(u) = Packets(t)
    BY <1>1, <1>3, LikewiseIs
  <1>5. Waits(v, u)
    BY <1>3, <1>4 DEF Waits, Likewise
  <1>6. QED
    BY <1>2, <1>3, <1>4, <1>5 DEF Likewise

\* A packet on.
LEMMA TakenIs ==
    ASSUME NEW v, Held(v), NEW t, Waits(v, t)
    PROVE  LET u == Taken(t)
           IN  /\ u \in Task /\ TaskOf(v, u) /\ u.generation = t.generation /\ u.next = t.next + 1
               /\ Packets(u) = Packets(t) /\ u.stream = t.stream /\ u.kind = t.kind
               /\ u.next <= Len(Packets(u)) => Waits(v, u)
  <1> DEFINE p == Packets(t)
             o == Opened(t)
             n == t.next + 1
             c == Append(t.chunks, p[t.next])
             u == [o EXCEPT !.chunks = c, !.next = n]
  <1>1. /\ o \in Task /\ TaskOf(v, o) /\ Waits(v, o)
        /\ o.generation = t.generation /\ o.next = t.next /\ Packets(o) = p
        /\ o.stream = t.stream /\ o.kind = t.kind /\ o.chunks = t.chunks
        /\ o.id = t.id /\ o.cancel = t.cancel
    BY OpenedIs
  <1>2. Taken(t) = u
    BY <1>1 DEF Taken
  <1>3. /\ t \in Task /\ TaskIs(t) /\ TaskOf(v, t) /\ t.next \in Nat /\ t.next <= Len(p) /\ t.stream \in Streams
        /\ t.chunks \in Seq(StreamChunk) /\ t.next \in 1..(Len(p) + 1)
    BY DEF Waits, TaskOf, TaskIs, Task
  <1>4. p \in Seq(StreamChunk) /\ Len(p) \in Nat
    BY <1>3, StreamsGive DEF Packets, Given
  <1> HIDE DEF p, o
  <1>5. c \in Seq(StreamChunk)
    BY <1>3, <1>4
  <1>6. n \in Nat /\ n \in 1..(Len(p) + 1) /\ n - 1 = t.next /\ t.next \in 0..Len(p)
    BY <1>3, <1>4
  <1>7. t.kind = "export" => c = Prefix(p, n - 1)
    <2>1. SUFFICES ASSUME t.kind = "export" PROVE c = Prefix(p, n - 1)
      OBVIOUS
    <2> DEFINE k == t.next - 1
    <2>2. t.chunks = Prefix(p, k)
      BY <1>3, <2>1 DEF TaskIs, p
    <2>3. k \in 0..Len(p) /\ k < Len(p) /\ k + 1 = t.next
      BY <1>3, <1>4
    <2> HIDE DEF k
    <2>4. Append(Prefix(p, k), p[k + 1]) = Prefix(p, k + 1)
      BY <1>4, <2>3, PrefixIs
    <2>5. QED
      BY <1>6, <2>2, <2>3, <2>4
  <1>8. t.kind = "read" /\ t.generation = v.generation =>
          /\ t.stream = v.stream /\ Len(v.chunks) < n
          /\ c = SubSeq(p, Len(v.chunks) + 1, n - 1)
    <2>1. SUFFICES ASSUME t.kind = "read", t.generation = v.generation
                   PROVE  t.stream = v.stream /\ Len(v.chunks) < n /\ c = SubSeq(p, Len(v.chunks) + 1, n - 1)
      OBVIOUS
    <2> DEFINE m == Len(v.chunks)
               k == t.next - 1
    <2>2. t.stream = v.stream /\ m < t.next /\ t.chunks = SubSeq(p, m + 1, k)
      BY <1>3, <2>1 DEF TaskOf, GoesOnFrom, p
    <2>3. m \in Nat
      <3>1. v.chunks \in Seq(StreamChunk)
        BY DEF Held, ViewRecord
      <3>2. QED
        BY <3>1
    <2> HIDE DEF m
    <2>4. m \in 0..Len(p) /\ k \in m..Len(p) /\ k < Len(p) /\ k + 1 = t.next /\ m < n
      BY <1>3, <1>4, <2>2, <2>3
    <2> HIDE DEF k
    <2>5. Append(SubSeq(p, m + 1, k), p[k + 1]) = SubSeq(p, m + 1, k + 1)
      BY <1>4, <2>4, PartIs
    <2>6. QED
      BY <1>6, <2>2, <2>4, <2>5 DEF m
  <1> HIDE DEF c, n
  <1>9. /\ u \in Task /\ u.generation = t.generation /\ u.next = n /\ u.chunks = c /\ u.stream = t.stream
        /\ u.kind = t.kind /\ u.id = t.id /\ u.cancel = t.cancel
    BY <1>1, <1>5, <1>6 DEF Task
  <1> HIDE DEF u
  <1>10. Packets(u) = p
    BY <1>9 DEF Packets, p
  <1>11. TaskIs(u)
    BY <1>6, <1>7, <1>9, <1>10 DEF TaskIs
  <1>12. TaskOf(v, u)
    BY <1>3, <1>8, <1>9, <1>10, <1>11 DEF TaskOf, GoesOnFrom
  <1>13. u.next <= Len(Packets(u)) => Waits(v, u)
    BY <1>9, <1>12 DEF Waits
  <1>14. QED
    BY <1>2, <1>9, <1>10, <1>12, <1>13 DEF n, p

\* What the pool made of the first task, which goes on.
LEMMA GoesOnHolds ==
    ASSUME NEW v, NEW ts, NEW rs, TasksHold(v, ts, rs), ts # <<>>,
           NEW u \in Task, u.generation = ts[1].generation, Waits(v, u)
    PROVE  TasksHold(v, <<u>> \o Tail(ts), rs)
  <1> DEFINE n == Len(ts)
             m == Len(rs)
             c == <<u>> \o Tail(ts)
  <1>1. /\ ts \in Seq(Task) /\ rs \in Seq(Task) /\ Len(rs \o ts) <= v.task /\ OneTask(v, rs \o ts)
        /\ \A i \in DOMAIN ts : Waits(v, ts[i])
        /\ \A i \in DOMAIN rs : HasEnded(v, rs[i])
    BY DEF TasksHold
  <1>2. n \in Nat /\ n >= 1 /\ DOMAIN ts = 1..n
    BY <1>1, RestIs
  <1>3. /\ c \in Seq(Task) /\ Len(c) = n /\ DOMAIN c = 1..n /\ c[1] = u
        /\ \A i \in 2..n : c[i] = ts[i]
    BY <1>1
  <1>4. /\ Len(rs \o ts) = m + n /\ m \in Nat /\ DOMAIN (rs \o ts) = 1..(m + n)
        /\ \A i \in 1..m : (rs \o ts)[i] = rs[i]
        /\ \A i \in (m + 1)..(m + n) : (rs \o ts)[i] = ts[i - m]
    BY <1>1, BehindIs
  <1> HIDE DEF c
  <1>5. /\ Len(rs \o c) = m + n /\ DOMAIN (rs \o c) = 1..(m + n)
        /\ \A i \in 1..m : (rs \o c)[i] = rs[i]
        /\ \A i \in (m + 1)..(m + n) : (rs \o c)[i] = c[i - m]
    <2>1. /\ Len(rs \o c) = Len(rs) + Len(c) /\ DOMAIN (rs \o c) = 1..(Len(rs) + Len(c))
          /\ \A i \in 1..Len(rs) : (rs \o c)[i] = rs[i]
          /\ \A i \in (Len(rs) + 1)..(Len(rs) + Len(c)) : (rs \o c)[i] = c[i - Len(rs)]
      <3>1. rs \in Seq(Task) /\ c \in Seq(Task)
        BY <1>1, <1>3
      <3>2. QED
        BY <3>1, BehindIs
    <2>2. QED
      BY <1>3, <2>1
  <1> DEFINE p == rs \o ts
             q == rs \o c
  <1> HIDE DEF n, m, p, q
  <1>6. \A i \in 1..n : i = 1 \/ i \in 2..n
    BY <1>2
  <1>7. \A i \in 1..n : c[i].generation = ts[i].generation
    BY <1>3, <1>6
  <1>8. Alike(p, q)
    <2>1. \A i \in (m + 1)..(m + n) : i - m \in 1..n
      BY <1>2, <1>4
    <2>2. \A i \in 1..(m + n) : i \in 1..m \/ i \in (m + 1)..(m + n)
      BY <1>2, <1>4
    <2>3. \A i \in 1..(m + n) : q[i].generation = p[i].generation
      BY <1>4, <1>5, <1>7, <2>1, <2>2 DEF p, q
    <2>4. QED
      BY <1>4, <1>5, <2>3 DEF Alike, p, q
  <1>9. OneTask(v, q)
    BY <1>1, <1>8, AlikeHolds DEF p
  <1>10. \A i \in DOMAIN c : Waits(v, c[i])
    BY <1>1, <1>2, <1>3, <1>6
  <1>11. QED
    BY <1>1, <1>3, <1>4, <1>5, <1>9, <1>10 DEF TasksHold, q, c

\* What the pool made of it, and it ended.
LEMMA EndsHolds ==
    ASSUME NEW v, NEW ts, NEW rs, TasksHold(v, ts, rs), ts # <<>>,
           NEW u \in Task, u.generation = ts[1].generation, HasEnded(v, u)
    PROVE  TasksHold(v, Tail(ts), Append(rs, u))
  <1> DEFINE n == Len(ts)
             m == Len(rs)
             c == Tail(ts)
             d == Append(rs, u)
             p == rs \o ts
             q == d \o c
  <1>1. /\ ts \in Seq(Task) /\ rs \in Seq(Task) /\ Len(p) <= v.task /\ OneTask(v, p)
        /\ \A i \in DOMAIN ts : Waits(v, ts[i])
        /\ \A i \in DOMAIN rs : HasEnded(v, rs[i])
    BY DEF TasksHold
  <1>2. /\ n \in Nat /\ n >= 1 /\ DOMAIN ts = 1..n /\ c \in Seq(Task) /\ Len(c) = n - 1
        /\ DOMAIN c = 1..(n - 1)
        /\ \A i \in 1..(n - 1) : c[i] = ts[i + 1] /\ i + 1 \in DOMAIN ts
    BY <1>1, RestIs
  <1>3. /\ d \in Seq(Task) /\ Len(d) = m + 1 /\ m \in Nat /\ DOMAIN rs = 1..m /\ DOMAIN d = 1..(m + 1)
        /\ \A i \in 1..m : d[i] = rs[i]
        /\ d[m + 1] = u
    BY <1>1, MoreIs
  <1>4. /\ Len(p) = m + n /\ DOMAIN p = 1..(m + n)
        /\ \A i \in 1..m : p[i] = rs[i]
        /\ \A i \in (m + 1)..(m + n) : p[i] = ts[i - m]
    BY <1>1, BehindIs
  <1> HIDE DEF c, d
  <1>5. /\ Len(q) = Len(d) + Len(c) /\ DOMAIN q = 1..(Len(d) + Len(c))
        /\ \A i \in 1..Len(d) : q[i] = d[i]
        /\ \A i \in (Len(d) + 1)..(Len(d) + Len(c)) : q[i] = c[i - Len(d)]
    <2>1. d \in Seq(Task) /\ c \in Seq(Task)
      BY <1>2, <1>3
    <2>2. QED
      BY <2>1, BehindIs
  <1> HIDE DEF n, m, p, q
  <1>6. Len(q) = m + n /\ DOMAIN q = 1..(m + n)
    BY <1>2, <1>3, <1>5
  <1>7. \A i \in 1..(m + n) : q[i].generation = p[i].generation
    <2>1. SUFFICES ASSUME NEW i \in 1..(m + n) PROVE q[i].generation = p[i].generation
      OBVIOUS
    <2>2. CASE i \in 1..m
      <3>1. i \in 1..Len(d)
        BY <1>3, <2>2
      <3>2. QED
        BY <1>3, <1>4, <1>5, <2>2, <3>1
    <2>3. CASE i = m + 1
      <3>1. i \in 1..Len(d) /\ i \in (m + 1)..(m + n) /\ i - m = 1
        BY <1>2, <1>3, <2>3
      <3>2. q[i] = u /\ p[i] = ts[1]
        BY <1>3, <1>4, <1>5, <2>3, <3>1
      <3>3. QED
        BY <3>2
    <2>4. CASE i \in (m + 2)..(m + n)
      <3> DEFINE j == i - (m + 1)
      <3>1. /\ i \in (Len(d) + 1)..(Len(d) + Len(c)) /\ i \in (m + 1)..(m + n) /\ j \in 1..(n - 1)
            /\ i - m = j + 1 /\ i - Len(d) = j
        BY <1>2, <1>3, <2>4
      <3>2. q[i] = c[j] /\ p[i] = ts[j + 1]
        BY <1>4, <1>5, <3>1
      <3>3. QED
        BY <1>2, <3>1, <3>2
    <2>5. i \in 1..m \/ i = m + 1 \/ i \in (m + 2)..(m + n)
      BY <1>2, <1>3
    <2>6. QED
      BY <2>2, <2>3, <2>4, <2>5
  <1>8. OneTask(v, q)
    <2>1. Alike(p, q)
      BY <1>4, <1>6, <1>7 DEF Alike
    <2>2. QED
      BY <1>1, <2>1, AlikeHolds
  <1>9. \A i \in DOMAIN c : Waits(v, c[i])
    BY <1>1, <1>2
  <1>10. \A i \in DOMAIN d : HasEnded(v, d[i])
    <2>1. \A i \in 1..(m + 1) : i \in 1..m \/ i = m + 1
      BY <1>3
    <2>2. QED
      BY <1>1, <1>3, <2>1
  <1>11. Len(q) <= v.task
    BY <1>1, <1>4, <1>6
  <1>12. QED
    BY <1>2, <1>3, <1>8, <1>9, <1>10, <1>11 DEF TasksHold, q, c, d

\* A task ends.
LEMMA TaskEnds ==
    ASSUME NEW v, NEW ts, NEW rs, TasksHold(v, ts, rs), ts # <<>>,
           NEW u \in Task, TaskOf(v, u), u.generation = ts[1].generation, NEW s \in Endings,
           s \in {"More", "Cancelled"} => u.next <= Len(Packets(u))
    PROVE  TasksHold(v, Tail(ts), Append(rs, [u EXCEPT !.status = s]))
  <1> DEFINE x == [u EXCEPT !.status = s]
  <1>1. Likewise(u, x) /\ x.status = s
    BY ChangedIs
  <1> HIDE DEF x
  <1>2. TaskOf(v, x) /\ Packets(x) = Packets(u)
    BY <1>1, LikewiseIs
  <1>3. x \in Task /\ x.generation = ts[1].generation /\ HasEnded(v, x)
    BY <1>1, <1>2 DEF Likewise, HasEnded
  <1>4. TasksHold(v, Tail(ts), Append(rs, x))
    BY <1>3, EndsHolds
  <1>5. QED
    BY <1>4 DEF x

\* The task that runs.
LEMMA FirstIs ==
    ASSUME TasksHold(view, tasks, results), tasks # <<>>
    PROVE  /\ Head(tasks) = tasks[1] /\ Waits(view, tasks[1]) /\ TaskOf(view, tasks[1]) /\ tasks[1] \in Task
           /\ tasks[1].next <= Len(Packets(tasks[1]))
  <1>1. tasks \in Seq(Task) /\ \A i \in DOMAIN tasks : Waits(view, tasks[i])
    BY DEF TasksHold
  <1>2. Head(tasks) = tasks[1] /\ 1 \in DOMAIN tasks
    BY <1>1, RestIs
  <1>3. Waits(view, tasks[1])
    BY <1>1, <1>2
  <1>4. QED
    BY <1>2, <1>3 DEF Waits, TaskOf, TaskIs

\* What a task that stops ends as.
LEMMA StopsIs ==
    ASSUME NEW t
    PROVE  Stops(t) \in {"", "Failed", "Cancelled"} /\ Endings = {"", "Done", "More", "Cancelled", "Failed"}
  BY DEF Stops, Endings

\* StreamContentReader::read()
LEMMA ReadHolds ==
    ASSUME TabInv, ReadStep
    PROVE  TasksHold(view, tasks', results')
  <1>0. Held(view) /\ TasksHold(view, tasks, results) /\ tasks # <<>>
    BY DEF TabInv, ReadStep
  <1> DEFINE t == tasks[1]
             o == Opened(t)
             u == Taken(t)
  <1>1. Head(tasks) = t /\ Waits(view, t) /\ TaskOf(view, t) /\ t \in Task /\ t.next <= Len(Packets(t))
    BY <1>0, FirstIs
  <1>2. /\ o \in Task /\ TaskOf(view, o) /\ o.generation = t.generation
        /\ o.next = t.next /\ Packets(o) = Packets(t)
    BY <1>1, OpenedIs
  <1>3. /\ u \in Task /\ TaskOf(view, u) /\ u.generation = t.generation
        /\ u.next <= Len(Packets(u)) => Waits(view, u)
        /\ Packets(u) = Packets(t)
    BY <1>0, <1>1, TakenIs
  <1>4. \/ Stops(t) # "" /\ Ends(o, Stops(t))
        \/ u.next > Len(Packets(t)) /\ Ends(u, "Done")
        \/ ~(u.next > Len(Packets(t))) /\ (Ends(u, "More") \/ GoesOn(u))
    BY <1>1 DEF ReadStep
  <1>n. u.next \in Nat /\ Len(Packets(t)) \in Nat
    <2>1. u.next \in Nat /\ t.stream \in Streams
      BY <1>1, <1>3 DEF Task
    <2>2. Len(Given(t.stream)) \in Nat
      BY <2>1, StreamsGive
    <2>3. QED
      BY <2>1, <2>2 DEF Packets, Given
  <1> HIDE DEF o, u, t
  <1>5. CASE Stops(t) # "" /\ Ends(o, Stops(t))
    <2> DEFINE s == Stops(t)
    <2>1. s \in Endings
      BY StopsIs
    <2> HIDE DEF s
    <2>2. o.generation = tasks[1].generation /\ o.next <= Len(Packets(o))
      BY <1>1, <1>2 DEF t
    <2>3. TasksHold(view, Tail(tasks), Append(results, [o EXCEPT !.status = s]))
      BY <1>0, <1>2, <2>1, <2>2, TaskEnds
    <2>4. QED
      BY <1>5, <2>3 DEF Ends, s
  <1>6. CASE u.next > Len(Packets(t)) /\ Ends(u, "Done")
    <2> DEFINE s == "Done"
    <2>1. s \in Endings /\ s \notin {"More", "Cancelled"}
      BY DEF Endings
    <2> HIDE DEF s
    <2>2. u.generation = tasks[1].generation
      BY <1>3 DEF t
    <2>3. TasksHold(view, Tail(tasks), Append(results, [u EXCEPT !.status = s]))
      BY <1>0, <1>3, <2>1, <2>2, TaskEnds
    <2>4. QED
      BY <1>6, <2>3 DEF Ends, s
  <1>7. CASE ~(u.next > Len(Packets(t))) /\ Ends(u, "More")
    <2> DEFINE s == "More"
    <2>1. s \in Endings
      BY DEF Endings
    <2> HIDE DEF s
    <2>2. u.generation = tasks[1].generation /\ u.next <= Len(Packets(u))
      BY <1>3, <1>7, <1>n DEF t
    <2>3. TasksHold(view, Tail(tasks), Append(results, [u EXCEPT !.status = s]))
      BY <1>0, <1>3, <2>1, <2>2, TaskEnds
    <2>4. QED
      BY <1>7, <2>3 DEF Ends, s
  <1>8. CASE ~(u.next > Len(Packets(t))) /\ GoesOn(u)
    <2>1. u.generation = tasks[1].generation /\ Waits(view, u)
      BY <1>3, <1>8, <1>n DEF t
    <2>2. TasksHold(view, <<u>> \o Tail(tasks), results)
      BY <1>0, <1>3, <2>1, GoesOnHolds
    <2>3. QED
      BY <1>8, <2>2 DEF GoesOn
  <1>9. QED
    BY <1>4, <1>5, <1>6, <1>7, <1>8

\* The file to export to is opened, or not.
LEMMA ExportBeginHolds ==
    ASSUME TabInv, ExportBegins
    PROVE  TasksHold(view, tasks', results') /\ ExportIsWhole'
  <1>0. Held(view) /\ TasksHold(view, tasks, results) /\ tasks # <<>> /\ ExportIsWhole
    BY DEF TabInv, ExportBegins
  <1> DEFINE t == tasks[1]
             u == [t EXCEPT !.opened = TRUE]
  <1>1. Head(tasks) = t /\ Waits(view, t) /\ TaskOf(view, t) /\ t \in Task /\ t.next <= Len(Packets(t))
    BY <1>0, FirstIs
  <1>2. \/ Ends(t, "Failed") /\ exported' = exported
        \/ GoesOn(u) /\ exported' = FileOfExport(u, FALSE)
    BY <1>1 DEF ExportBegins
  <1>3. Likewise(t, u) /\ u.id = t.id /\ u.cancel = t.cancel
    <2>1. "Done" \in Endings /\ TRUE \in BOOLEAN
      BY DEF Endings
    <2> HIDE DEF t
    <2>2. QED
      BY <1>1, <2>1, ChangedIs
  <1> HIDE DEF t, u
  <1>4. CASE Ends(t, "Failed") /\ exported' = exported
    <2> DEFINE s == "Failed"
    <2>1. s \in Endings
      BY DEF Endings
    <2> HIDE DEF s
    <2>2. t.generation = tasks[1].generation
      BY DEF t
    <2>3. TasksHold(view, Tail(tasks), Append(results, [t EXCEPT !.status = s]))
      BY <1>0, <1>1, <2>1, <2>2, TaskEnds
    <2>4. QED
      BY <1>0, <1>4, <2>3 DEF Ends, s, ExportIsWhole
  <1>5. CASE GoesOn(u) /\ exported' = FileOfExport(u, FALSE)
    <2>1. TaskOf(view, u) /\ Packets(u) = Packets(t)
      BY <1>1, <1>3, LikewiseIs
    <2>2. Waits(view, u) /\ u \in Task /\ u.generation = tasks[1].generation
      BY <1>1, <1>3, <2>1 DEF Waits, Likewise, t
    <2>3. TasksHold(view, <<u>> \o Tail(tasks), results)
      BY <1>0, <2>2, GoesOnHolds
    <2>4. exported'.writing
      BY <1>5 DEF FileOfExport
    <2>5. ExportIsWhole'
      BY <2>4 DEF ExportIsWhole
    <2>6. QED
      BY <1>5, <2>3, <2>5 DEF GoesOn
  <1>6. QED
    BY <1>2, <1>4, <1>5

\* exportStreamContent()
LEMMA ExportHolds ==
    ASSUME TabInv, ExportStep
    PROVE  TasksHold(view, tasks', results') /\ ExportIsWhole'
  <1>0. Held(view) /\ TasksHold(view, tasks, results) /\ tasks # <<>>
    BY DEF TabInv, ExportStep
  <1> DEFINE t == tasks[1]
             u == Taken(t)
  <1>1. /\ Head(tasks) = t /\ Waits(view, t) /\ TaskOf(view, t) /\ t \in Task /\ t.next <= Len(Packets(t))
        /\ t.kind = "export"
    BY <1>0, FirstIs DEF ExportStep
  <1>2. /\ u \in Task /\ TaskOf(view, u) /\ u.generation = t.generation /\ u.next = t.next + 1
        /\ Packets(u) = Packets(t) /\ u.stream = t.stream /\ u.kind = t.kind
        /\ u.next <= Len(Packets(u)) => Waits(view, u)
    BY <1>0, <1>1, TakenIs
  <1>3. \/ (\E s \in {"Failed", "Cancelled"} : Ends(t, s)) /\ exported' = None
        \/ u.next > Len(Packets(u)) /\ Ends(u, "Done") /\ exported' = FileOfExport(u, TRUE)
        \/ ~(u.next > Len(Packets(u))) /\ GoesOn(u) /\ exported' = FileOfExport(u, FALSE)
    <2>1. \/ Stops(t) # "" /\ Ends(t, Stops(t)) /\ exported' = None
          \/ Ends(t, "Failed") /\ exported' = None
          \/ u.next > Len(Packets(u)) /\ Ends(u, "Done") /\ exported' = FileOfExport(u, TRUE)
          \/ ~(u.next > Len(Packets(u))) /\ GoesOn(u) /\ exported' = FileOfExport(u, FALSE)
      <3>1. u.next > Len(Packets(t)) <=> u.next > Len(Packets(u))
        BY <1>2
      <3> HIDE DEF t
      <3>2. \/ Stops(t) # "" /\ Ends(t, Stops(t)) /\ exported' = None
            \/ Ends(t, "Failed") /\ exported' = None
            \/ u.next > Len(Packets(t)) /\ Ends(u, "Done") /\ exported' = FileOfExport(u, TRUE)
            \/ ~(u.next > Len(Packets(t))) /\ GoesOn(u) /\ exported' = FileOfExport(u, FALSE)
        BY <1>1 DEF ExportStep
      <3> HIDE DEF u
      <3>3. QED
        BY <3>1, <3>2
    <2>2. Stops(t) # "" => Stops(t) \in {"Failed", "Cancelled"}
      BY StopsIs
    <2>3. QED
      BY <2>1, <2>2
  <1>n. t.next \in Nat /\ Len(Packets(t)) \in Nat /\ Packets(t) = Given(t.stream) /\ t.stream \in Streams
    <2>1. t.next \in Nat /\ t.stream \in Streams
      BY <1>1 DEF Task
    <2>2. Len(Given(t.stream)) \in Nat
      BY <2>1, StreamsGive
    <2>3. QED
      BY <2>1, <2>2 DEF Packets, Given
  <1> HIDE DEF u, t
  <1>4. CASE (\E s \in {"Failed", "Cancelled"} : Ends(t, s)) /\ exported' = None
    <2>1. PICK s \in {"Failed", "Cancelled"} : Ends(t, s)
      BY <1>4
    <2>2. s \in Endings /\ t.generation = tasks[1].generation
      BY DEF Endings, t
    <2>3. TasksHold(view, Tail(tasks), Append(results, [t EXCEPT !.status = s]))
      BY <1>0, <1>1, <2>2, TaskEnds
    <2>4. ExportIsWhole'
      BY <1>4 DEF ExportIsWhole
    <2>5. QED
      BY <2>1, <2>3, <2>4 DEF Ends
  <1>5. CASE u.next > Len(Packets(u)) /\ Ends(u, "Done") /\ exported' = FileOfExport(u, TRUE)
    <2> DEFINE s == "Done"
    <2>1. s \in Endings /\ s \notin {"More", "Cancelled"}
      BY DEF Endings
    <2> HIDE DEF s
    <2>2. u.generation = tasks[1].generation
      BY <1>2 DEF t
    <2>3. TasksHold(view, Tail(tasks), Append(results, [u EXCEPT !.status = s]))
      BY <1>0, <1>2, <2>1, <2>2, TaskEnds
    <2> DEFINE p == Packets(t)
               c == u.chunks
    <2>4. c = p
      <3>1. t.next = Len(p)
        BY <1>1, <1>2, <1>5, <1>n
      <3>2. c = Prefix(p, u.next - 1) /\ u.next - 1 = Len(p)
        BY <1>1, <1>2, <1>n, <3>1 DEF TaskOf, TaskIs
      <3>3. p \in Seq(StreamChunk)
        BY <1>n, StreamsGive
      <3>4. Len(p) \in 0..Len(p)
        BY <1>n
      <3> HIDE DEF p
      <3>5. Prefix(p, Len(p)) = p
        BY <3>3, <3>4, PrefixIs
      <3>6. QED
        BY <3>2, <3>5
    <2>5. /\ exported'.stream = t.stream /\ exported'.raw = u.raw /\ exported'.format = u.format
          /\ exported'.directions = u.directions /\ exported'.data = WrittenBy(u)
      BY <1>2, <1>5 DEF FileOfExport
    <2>6. Contents[exported'.stream].packets = c
      BY <2>4, <2>5 DEF Packets
    <2> HIDE DEF p, c
    <2>7. ExportIsWhole'
      BY <2>5, <2>6 DEF ExportIsWhole, WrittenBy, c
    <2>8. QED
      BY <1>5, <2>3, <2>7 DEF Ends, s
  <1>6. CASE ~(u.next > Len(Packets(u))) /\ GoesOn(u) /\ exported' = FileOfExport(u, FALSE)
    <2>1. Waits(view, u) /\ u.generation = tasks[1].generation
      BY <1>2, <1>6, <1>n DEF t
    <2>2. TasksHold(view, <<u>> \o Tail(tasks), results)
      BY <1>0, <1>2, <2>1, GoesOnHolds
    <2>3. exported'.writing
      BY <1>6 DEF FileOfExport
    <2>4. ExportIsWhole'
      BY <2>3 DEF ExportIsWhole
    <2>5. QED
      BY <1>6, <2>2, <2>4 DEF GoesOn
  <1>7. QED
    BY <1>3, <1>4, <1>5, <1>6

-----------------------------------------------------------------------------
(* What the tab makes of a task that ended.                                *)

\* A task of the tab's own ended, and it was the only one.
LEMMA ToldHolds ==
    ASSUME NEW v, NEW w, NEW ts, NEW rs, TasksHold(v, ts, rs), rs # <<>>, v.generation \in Nat, v.task \in Nat,
           w.generation = v.generation, w.task = v.task, ~w.busy, rs[1].generation = v.generation
    PROVE  TasksHold(w, ts, Tail(rs)) /\ v.busy
  <1> DEFINE q == rs \o ts
             r == Tail(rs)
             p == r \o ts
             m == Len(rs)
             n == Len(ts)
  <1>1. /\ ts \in Seq(Task) /\ rs \in Seq(Task) /\ Len(q) <= v.task /\ OneTask(v, q)
        /\ \A i \in DOMAIN ts : Waits(v, ts[i])
        /\ \A i \in DOMAIN rs : HasEnded(v, rs[i])
    BY DEF TasksHold
  <1>2. /\ q \in Seq(Task) /\ q # <<>> /\ q[1] = rs[1] /\ Tail(q) = p /\ r \in Seq(Task) /\ Len(q) = m + n
    BY <1>1
  <1>3. /\ m \in Nat /\ m >= 1 /\ DOMAIN rs = 1..m /\ 1 \in DOMAIN rs /\ Len(r) = m - 1 /\ DOMAIN r = 1..(m - 1)
        /\ \A i \in 1..(m - 1) : r[i] = rs[i + 1] /\ i + 1 \in DOMAIN rs
    BY <1>1, RestIs
  <1> HIDE DEF r
  <1>4. /\ Len(p) = Len(r) + Len(ts) /\ n \in Nat /\ DOMAIN ts = 1..n /\ DOMAIN p = 1..(Len(r) + Len(ts))
        /\ \A i \in 1..Len(r) : p[i] = r[i]
        /\ \A i \in 1..Len(ts) : p[Len(r) + i] = ts[i]
    <2>1. r \in Seq(Task) /\ ts \in Seq(Task)
      BY <1>1, <1>2
    <2>2. QED
      BY <2>1, BehindIs
  <1>5. 1 \in DOMAIN q
    <2> HIDE DEF q
    <2>1. QED
      BY <1>2, RestIs
  <1> HIDE DEF q, p
  <1>6. OneTask(w, p) /\ \A i \in DOMAIN p : p[i].generation # v.generation
    BY <1>1, <1>2, TellHolds
  <1>7. v.busy
    BY <1>1, <1>2, <1>5 DEF OneTask
  <1>8. \A i \in DOMAIN r : r[i].generation # v.generation
    <2> DEFINE k == Len(r)
               l == Len(ts)
    <2>1. \A i \in 1..k : i \in 1..(k + l)
      BY <1>3, <1>4
    <2>2. QED
      BY <1>3, <1>4, <1>6, <2>1
  <1>9. \A i \in DOMAIN ts : ts[i].generation # v.generation
    <2>1. \A i \in 1..Len(ts) : Len(r) + i \in 1..(Len(r) + Len(ts))
      BY <1>3, <1>4
    <2>2. QED
      BY <1>4, <1>6, <2>1
  <1> HIDE DEF m, n
  <1>10. v.generation <= w.generation /\ w.generation \in Nat
    OBVIOUS
  <1>11. \A i \in DOMAIN ts : Waits(w, ts[i])
    <2>1. \A i \in DOMAIN ts : ts[i].cancel
      BY <1>1, <1>9 DEF Waits
    <2>2. \A i \in DOMAIN ts : ts[i].generation # w.generation /\ Waits(v, ts[i])
      BY <1>1, <1>9
    <2>3. \A t : t.generation # w.generation => (Waits(v, t) /\ t.cancel => Waits(w, t))
      BY <1>10, OthersKeep
    <2>4. QED
      BY <2>1, <2>2, <2>3
  <1>12. \A i \in DOMAIN r : HasEnded(w, r[i])
    <2>1. \A i \in DOMAIN r : HasEnded(v, r[i])
      BY <1>1, <1>3
    <2>2. \A i \in DOMAIN r : r[i].generation # w.generation
      BY <1>8
    <2>3. \A t : t.generation # w.generation => (HasEnded(v, t) => HasEnded(w, t))
      BY <1>10, OthersKeep
    <2>4. QED
      BY <2>1, <2>2, <2>3
  <1>13. Len(p) <= w.task
    <2>1. Len(p) <= Len(q) /\ Len(p) \in Nat /\ Len(q) \in Nat
      BY <1>2, <1>3, <1>4 DEF m, n
    <2>2. QED
      BY <1>1, <2>1
  <1>14. QED
    BY <1>1, <1>2, <1>6, <1>7, <1>11, <1>12, <1>13 DEF TasksHold, p, r

\* A task of another generation ended, and nothing else changes.
LEMMA TellsOther ==
    ASSUME NEW v, NEW ts, NEW rs, TasksHold(v, ts, rs), rs # <<>>, v.task \in Nat,
           rs[1].generation # v.generation
    PROVE  TasksHold(v, ts, Tail(rs))
  <1> DEFINE q == rs \o ts
             r == Tail(rs)
             p == r \o ts
  <1>1. /\ ts \in Seq(Task) /\ rs \in Seq(Task) /\ Len(q) <= v.task /\ OneTask(v, q)
        /\ \A i \in DOMAIN ts : Waits(v, ts[i])
        /\ \A i \in DOMAIN rs : HasEnded(v, rs[i])
    BY DEF TasksHold
  <1>2. /\ q \in Seq(Task) /\ q # <<>> /\ q[1] = rs[1] /\ Tail(q) = p /\ r \in Seq(Task)
        /\ Len(p) = Len(q) - 1 /\ Len(q) \in Nat
    BY <1>1
  <1>3. \A i \in DOMAIN r : r[i] = rs[i + 1] /\ i + 1 \in DOMAIN rs
    BY <1>1, RestIs
  <1> HIDE DEF q, p, r
  <1>4. OneTask(v, p)
    <2>1. OneTask(v, Tail(q))
      BY <1>1, <1>2, TellHolds
    <2>2. QED
      BY <1>2, <2>1
  <1>5. \A i \in DOMAIN r : HasEnded(v, r[i])
    BY <1>1, <1>3
  <1>6. Len(p) <= v.task
    BY <1>1, <1>2
  <1>7. QED
    BY <1>1, <1>2, <1>4, <1>5, <1>6 DEF TasksHold, p, r

\* What a read that ended showed: the rest of the text, or all of it anew.
LEMMA ShownHolds ==
    ASSUME Held(view), AsChosen(view), view.busy, NEW t, HasEnded(view, t),
           t.kind = "read", t.generation = view.generation
    PROVE  LET w == Shown(t)
           IN  Held(w) /\ AsChosen(w) /\ w.generation = view.generation /\ w.task = view.task /\ ~w.busy
  <1> DEFINE g == Given(view.stream)
             m == Len(view.chunks)
             n == t.next - 1
             none == ""
             idle == [view EXCEPT !.busy = FALSE, !.lastError = none]
             first == Renderer(view.format, view.directions, Contents[t.stream].udp)
             base == IF view.chunks = <<>> THEN first ELSE view.renderer
             more == Rendered(base, t.chunks)
             chunks == view.chunks \o t.chunks
             size == view.shownBytes + SizeOfChunks(t.chunks)
             goesOn == t.status \in {"More", "Cancelled"}
             content == view.content \o more.text
             error == IF t.status \in {"Failed", "Cancelled"} THEN t.status ELSE none
             read == [idle EXCEPT !.chunks = chunks, !.shownBytes = size, !.reader = t.next, !.opened = t.opened,
                                  !.more = goesOn, !.content = content, !.renderer = more.renderer,
                                  !.lastError = error]
             failed == [idle EXCEPT !.reader = 0, !.more = FALSE]
  <1>1. Shown(t) = IF t.status = "Failed" /\ view.chunks = <<>> /\ t.chunks = <<>> THEN failed
                   ELSE IF view.rerenderPending THEN Rerender(read) ELSE read
    BY DEF Shown
  <1>2. /\ view \in ViewRecord /\ view.generation \in Nat /\ view.task \in Nat /\ view.task <= MaxTasks
        /\ view.format \in Formats /\ view.directions \in Chosen /\ view.chunks \in Seq(StreamChunk)
        /\ m \in Nat /\ view.reader \in Nat /\ view.shownBytes \in Nat /\ view.content \in Seq(Piece)
        /\ view.reader > 0 => view.stream \in Streams
    BY HeldIs
  <1>3. /\ view.reader > 0 /\ view.stream \in Streams /\ view.stream # None /\ view.renderer \in RendererOf
        /\ m <= Len(g) /\ view.chunks = Prefix(g, m)
    BY <1>2 DEF Held
  <1>4. /\ t \in Task /\ t.stream = view.stream /\ m < t.next /\ t.chunks = SubSeq(g, m + 1, n)
        /\ t.next \in 1..(Len(g) + 1)
        /\ goesOn => t.next <= Len(g)
    BY DEF HasEnded, TaskOf, TaskIs, GoesOnFrom, Packets, Given
  <1>5. g \in Seq(StreamChunk) /\ Len(g) \in Nat /\ Contents[view.stream].udp \in BOOLEAN
    BY <1>3, StreamsGive
  <1>6. t.next \in Nat /\ t.opened \in BOOLEAN /\ t.chunks \in Seq(StreamChunk) /\ t.status \in Endings
    BY <1>4 DEF Task, Endings
  <1>7. m \in 0..Len(g) /\ n \in m..Len(g) /\ n \in 0..Len(g) /\ t.next = n + 1
    <2> HIDE DEF g, m
    <2>1. QED
      BY <1>2, <1>3, <1>4, <1>5, <1>6
  <1>8. chunks = Prefix(g, n) /\ Len(chunks) = n /\ chunks \in Seq(StreamChunk)
    <2> HIDE DEF g, m, n
    <2>1. Prefix(g, m) \o SubSeq(g, m + 1, n) = Prefix(g, n)
      BY <1>5, <1>7, PartIs
    <2>2. Prefix(g, n) \in Seq(StreamChunk) /\ Len(Prefix(g, n)) = n
      BY <1>5, <1>7, PrefixIs
    <2>3. QED
      BY <1>3, <1>4, <2>1, <2>2
  <1>9. first \in RendererOf /\ base \in RendererOf
    BY <1>2, <1>3, <1>4, <1>5, RendererType
  <1> HIDE DEF g, m, base
  <1>10. more \in Renders /\ more.text \in Seq(Piece) /\ more.renderer \in RendererOf
    <2>1. more \in Renders
      BY <1>6, <1>9, RenderedType
    <2> HIDE DEF more
    <2>2. QED
      BY <2>1 DEF Renders
  <1>11. size \in Nat
    <2>1. SizeOfChunks(t.chunks) \in Nat
      BY <1>6, SizeType
    <2>2. QED
      BY <1>2, <2>1
  <1>12. content \in Seq(Piece)
    BY <1>2, <1>10, JoinType
  <1>13. error \in Errors /\ none \in Errors /\ goesOn \in BOOLEAN
    <2>1. none \in Endings
      BY DEF Endings
    <2> HIDE DEF none
    <2>2. error \in Endings
      BY <1>6, <2>1
    <2>3. goesOn \in BOOLEAN
      OBVIOUS
    <2> HIDE DEF error, goesOn
    <2>4. QED
      BY <2>1, <2>2, <2>3 DEF Errors
  <1>14. /\ idle \in ViewRecord /\ idle.stream = view.stream /\ idle.reader = view.reader
         /\ idle.generation = view.generation /\ idle.task = view.task /\ idle.chunks = view.chunks
         /\ idle.format = view.format /\ idle.directions = view.directions /\ idle.busy = FALSE
         /\ idle.rerenderPending = view.rerenderPending /\ idle.renderer = view.renderer
    <2> HIDE DEF none
    <2>1. QED
      BY <1>2, <1>13 DEF ViewRecord
  <1> HIDE DEF idle, none, chunks, size, content, error, n, goesOn
  <1>15. /\ failed \in ViewRecord /\ failed.stream = view.stream /\ failed.reader = 0
         /\ failed.generation = view.generation /\ failed.task = view.task /\ failed.chunks = view.chunks
         /\ failed.busy = FALSE /\ failed.more = FALSE
    BY <1>14 DEF ViewRecord
  <1> HIDE DEF failed
  <1>16. Held(failed) /\ AsChosen(failed)
    BY <1>2, <1>15 DEF Held, AsChosen
  <1> DEFINE r == more.renderer
  <1>17. r \in RendererOf
    BY <1>10
  <1> HIDE DEF r
  <1>18. /\ read \in ViewRecord /\ read.stream = view.stream /\ read.reader = t.next
         /\ read.generation = view.generation /\ read.task = view.task /\ read.chunks = chunks
         /\ read.format = view.format /\ read.directions = view.directions /\ read.busy = FALSE
         /\ read.rerenderPending = view.rerenderPending /\ read.renderer = r /\ read.content = content
         /\ read.more = goesOn
    BY <1>6, <1>8, <1>11, <1>12, <1>13, <1>14, <1>17 DEF ViewRecord, r
  <1> HIDE DEF read
  <1>19. Held(read)
    <2>1. read.stream # None => Len(read.chunks) <= Len(Given(read.stream))
                               /\ read.chunks = Prefix(Given(read.stream), Len(read.chunks))
      BY <1>7, <1>8, <1>18 DEF g
    <2>2. read.reader > 0 => read.stream # None /\ read.reader = Len(read.chunks) + 1 /\ read.renderer \in RendererOf
      BY <1>3, <1>7, <1>8, <1>17, <1>18
    <2>3. read.reader > 0 /\ read.more => read.reader <= Len(Given(read.stream))
      BY <1>4, <1>18 DEF g
    <2>4. QED
      BY <1>2, <1>18, <2>1, <2>2, <2>3 DEF Held
  <1>20. ~view.rerenderPending => AsChosen(read)
    <2>1. SUFFICES ASSUME ~view.rerenderPending PROVE AsChosen(read)
      OBVIOUS
    <2> DEFINE shownBefore == Rendered(first, view.chunks)
    <2>2. Anew(view) = shownBefore /\ Anew(read) = Rendered(first, chunks)
      BY <1>4, <1>18 DEF Anew
    <2>3. view.content = shownBefore.text /\ (view.chunks # <<>> => view.renderer = shownBefore.renderer)
      BY <1>3, <2>1, <2>2 DEF AsChosen
    <2> HIDE DEF first
    <2>4. base = shownBefore.renderer
      <3>1. Rendered(first, <<>>) = [text |-> <<>>, renderer |-> first]
        BY <1>9, RenderedNone
      <3> HIDE DEF shownBefore
      <3>2. CASE view.chunks = <<>>
        <4>1. shownBefore.renderer = first
          BY <3>1, <3>2 DEF shownBefore
        <4>2. QED
          BY <3>2, <4>1 DEF base
      <3>3. CASE view.chunks # <<>>
        BY <2>3, <3>3 DEF base
      <3>4. QED
        BY <3>2, <3>3
    <2>5. Rendered(first, view.chunks \o t.chunks)
          = [text |-> shownBefore.text \o Rendered(shownBefore.renderer, t.chunks).text,
             renderer |-> Rendered(shownBefore.renderer, t.chunks).renderer]
      BY <1>2, <1>6, <1>9, RenderedJoin
    <2> HIDE DEF shownBefore
    <2>6. Anew(read).text = content /\ Anew(read).renderer = r
      <3>1. Rendered(shownBefore.renderer, t.chunks) = more
        BY <2>4
      <3> HIDE DEF more
      <3>2. Rendered(first, chunks) = [text |-> content, renderer |-> r]
        BY <2>3, <2>5, <3>1 DEF chunks, content, r
      <3>3. QED
        BY <2>2, <3>2
    <2>7. QED
      BY <1>18, <2>1, <2>6 DEF AsChosen
  <1> HIDE DEF more, first
  <1>21. CASE t.status = "Failed" /\ view.chunks = <<>> /\ t.chunks = <<>>
    <2>1. Shown(t) = failed
      BY <1>1, <1>21
    <2>2. QED
      BY <1>15, <1>16, <2>1
  <1>22. CASE ~(t.status = "Failed" /\ view.chunks = <<>> /\ t.chunks = <<>>)
    <2>1. Shown(t) = IF view.rerenderPending THEN Rerender(read) ELSE read
      BY <1>1, <1>22
    <2>2. Held(Rerender(read)) /\ AsChosen(Rerender(read)) /\ SameHeld(read, Rerender(read))
      BY <1>19, RerenderShows
    <2>3. CASE view.rerenderPending
      BY <1>18, <2>1, <2>2, <2>3 DEF SameHeld
    <2>4. CASE ~view.rerenderPending
      BY <1>18, <1>19, <1>20, <2>1, <2>4
    <2>5. QED
      BY <2>3, <2>4
  <1>23. QED
    BY <1>21, <1>22

\* What an export that ended showed: what was chosen meanwhile.
LEMMA ExportShownHolds ==
    ASSUME Held(view), AsChosen(view), NEW t \in Task
    PROVE  LET w == ExportShown(t)
           IN  /\ Held(w) /\ AsChosen(w) /\ w.generation = view.generation /\ w.task = view.task /\ ~w.busy
  <1> DEFINE error == "export " \o t.status
             idle == [view EXCEPT !.busy = FALSE, !.lastError = error]
  <1>1. ExportShown(t) = IF view.rerenderPending THEN Rerender(idle) ELSE idle
    BY DEF ExportShown
  <1>2. view \in ViewRecord
    BY HeldIs
  <1>3. error \in Errors
    <2>1. t.status \in Endings
      BY DEF Task, Endings
    <2>2. QED
      BY <2>1 DEF Errors
  <1> HIDE DEF error
  <1>4. /\ idle \in ViewRecord /\ idle.stream = view.stream /\ idle.reader = view.reader
        /\ idle.generation = view.generation /\ idle.task = view.task /\ idle.chunks = view.chunks
        /\ idle.format = view.format /\ idle.directions = view.directions /\ idle.busy = FALSE
        /\ idle.rerenderPending = view.rerenderPending /\ idle.renderer = view.renderer
        /\ idle.content = view.content /\ idle.more = view.more
    BY <1>2, <1>3 DEF ViewRecord
  <1> HIDE DEF idle
  <1>5. Held(idle)
    BY <1>4 DEF Held
  <1>6. ~view.rerenderPending => AsChosen(idle)
    <2>1. Anew(idle) = Anew(view)
      BY <1>4 DEF Anew
    <2>2. QED
      BY <1>4, <2>1 DEF AsChosen
  <1>7. Held(Rerender(idle)) /\ AsChosen(Rerender(idle)) /\ SameHeld(idle, Rerender(idle))
    BY <1>5, RerenderShows
  <1>8. CASE view.rerenderPending
    BY <1>1, <1>4, <1>7, <1>8 DEF SameHeld
  <1>9. CASE ~view.rerenderPending
    BY <1>1, <1>4, <1>5, <1>6, <1>9
  <1>10. QED
    BY <1>8, <1>9

\* A task's end is told of.
LEMMA ToldStep ==
    ASSUME TabInv, Told
    PROVE  Held(view') /\ AsChosen(view') /\ TasksHold(view', tasks', results')
  <1>0. Held(view) /\ AsChosen(view) /\ TasksHold(view, tasks, results) /\ results # <<>>
        /\ view.generation \in Nat /\ view.task \in Nat
    BY HeldIs DEF TabInv, Told
  <1> DEFINE t == results[1]
             r == Tail(results)
  <1>1. results \in Seq(Task) /\ tasks \in Seq(Task) /\ \A i \in DOMAIN results : HasEnded(view, results[i])
    BY <1>0 DEF TasksHold
  <1>2. Head(results) = t /\ t \in Task /\ HasEnded(view, t)
    <2>1. Head(results) = results[1] /\ results[1] \in Task /\ 1 \in DOMAIN results
      BY <1>0, <1>1, RestIs
    <2>2. QED
      BY <1>1, <2>1
  <1>3. /\ tasks' = tasks /\ results' = r
        /\ view' = IF t.generation # view.generation THEN view
                   ELSE IF t.kind = "read" THEN Shown(t) ELSE ExportShown(t)
    BY <1>2 DEF Told
  <1>4. CASE t.generation = view.generation
    <2>1. /\ Held(view') /\ AsChosen(view')
          /\ view'.generation = view.generation /\ view'.task = view.task /\ ~view'.busy
      <3>0. view.busy
        <4> DEFINE w == [generation |-> view.generation, task |-> view.task, busy |-> FALSE]
        <4>1. w.generation = view.generation /\ w.task = view.task /\ ~w.busy
          OBVIOUS
        <4> HIDE DEF w
        <4>2. TasksHold(w, tasks, Tail(results)) /\ view.busy
          BY <1>0, <1>4, <4>1, ToldHolds
        <4>3. QED
          BY <4>2
      <3> HIDE DEF t
      <3>1. CASE t.kind = "read"
        <4>1. view' = Shown(t)
          BY <1>3, <1>4, <3>1
        <4>2. QED
          BY <1>0, <1>2, <1>4, <3>0, <3>1, <4>1, ShownHolds
      <3>2. CASE t.kind # "read"
        <4>1. view' = ExportShown(t)
          BY <1>3, <1>4, <3>2
        <4>2. QED
          BY <1>0, <1>2, <4>1, ExportShownHolds
      <3>3. QED
        BY <3>1, <3>2
    <2>2. TasksHold(view', tasks, Tail(results))
      BY <1>0, <1>4, <2>1, ToldHolds
    <2>3. QED
      BY <1>3, <2>1, <2>2
  <1>5. CASE t.generation # view.generation
    <2>1. view' = view
      BY <1>3, <1>5
    <2>2. TasksHold(view, tasks, r)
      BY <1>0, <1>5, TellsOther
    <2>3. QED
      BY <1>0, <1>3, <2>1, <2>2
  <1>6. QED
    BY <1>4, <1>5

\* Each step that concerns the tab keeps the invariant: the user's, its tasks', the
\* file's, and what the panel follows or leaves.
LEMMA TabStep ==
    ASSUME TabInv,
           \/ ClearView \/ TabNext \/ UNCHANGED viewVars
           \/ \E stream \in Streams \ {None} : Follow(stream)
    PROVE  TabInv'
  <1>0. Held(view) /\ AsChosen(view) /\ TasksHold(view, tasks, results) /\ ExportIsWhole /\ gone \subseteq Streams
    BY DEF TabInv
  <1>a. ASSUME exported' = exported, gone' = gone, Held(view') /\ AsChosen(view') /\ TasksHold(view', tasks', results')
        PROVE  TabInv'
    <2>1. ExportIsWhole'
      BY <1>0, <1>a DEF ExportIsWhole
    <2>2. QED
      BY <1>0, <1>a, <2>1 DEF TabInv
  <1>b. ASSUME view' = view, gone' = gone, ExportIsWhole', TasksHold(view, tasks', results')
        PROVE  TabInv'
    BY <1>0, <1>b DEF TabInv
  <1>1. CASE ClearView
    BY <1>a, <1>1, ClearStep DEF ClearView
  <1>2. CASE UNCHANGED viewVars
    <2>1. view' = view /\ tasks' = tasks /\ results' = results /\ exported' = exported /\ gone' = gone
      BY <1>2 DEF viewVars
    <2>2. QED
      BY <1>0, <1>a, <2>1
  <1>3. CASE \E stream \in Streams \ {None} : Follow(stream)
    <2>1. PICK stream \in Streams : stream # None /\ Follow(stream)
      BY <1>3
    <2>2. exported' = exported /\ gone' = gone
      BY <2>1 DEF Follow
    <2>3. QED
      BY <1>a, <2>1, <2>2, FollowStep
  <1>4. CASE ShowMore
    BY <1>a, <1>4, ShowMoreStep DEF ShowMore
  <1>5. CASE Cancel
    BY <1>a, <1>5, CancelStep DEF Cancel
  <1>6. ASSUME NEW f \in Formats, NEW d \in Chosen, Choose(f, d)
        PROVE  TabInv'
    BY <1>a, <1>6, ChooseStep DEF Choose
  <1>7. ASSUME NEW raw \in BOOLEAN, ChooseExport(raw)
        PROVE  TabInv'
    <2>1. exported' = exported /\ gone' = gone /\ TRUE \in BOOLEAN
      BY <1>7 DEF ChooseExport
    <2>2. QED
      BY <1>a, <1>7, <2>1, DialogStep
  <1>8. ASSUME NEW accepted \in BOOLEAN, DialogEnds(accepted)
        PROVE  TabInv'
    <2>1. exported' = exported /\ gone' = gone /\ TRUE \in BOOLEAN
      BY <1>8 DEF DialogEnds
    <2>2. QED
      BY <1>a, <1>8, <2>1, DialogStep
  <1>9. CASE ReadStep
    <2>1. view' = view /\ exported' = exported /\ gone' = gone
      BY <1>9 DEF ReadStep
    <2>2. TasksHold(view, tasks', results')
      BY <1>9, ReadHolds
    <2>3. QED
      BY <1>0, <1>a, <2>1, <2>2
  <1>10. CASE ExportBegins
    BY <1>b, <1>10, ExportBeginHolds DEF ExportBegins
  <1>11. CASE ExportStep
    BY <1>b, <1>11, ExportHolds DEF ExportStep
  <1>12. CASE Told
    BY <1>a, <1>12, ToldStep DEF Told
  <1>13. ASSUME NEW stream \in Streams, FileChanges(stream)
         PROVE  TabInv'
    <2>1. /\ view' = view /\ tasks' = tasks /\ results' = results /\ exported' = exported
          /\ gone' = gone \cup {stream}
      BY <1>13 DEF FileChanges
    <2>2. ExportIsWhole'
      BY <1>0, <2>1 DEF ExportIsWhole
    <2>3. QED
      BY <1>0, <2>1, <2>2 DEF TabInv
  <1>14. CASE TabNext
    BY <1>4, <1>5, <1>6, <1>7, <1>8, <1>9, <1>10, <1>11, <1>12, <1>13, <1>14 DEF TabNext, UserInView
  <1>15. QED
    BY <1>1, <1>2, <1>3, <1>14

\* It holds as the tab is made.
LEMMA TabStarts == ViewInit => TabInv
  <1> SUFFICES ASSUME ViewInit PROVE TabInv
    OBVIOUS
  <1> DEFINE none == ""
             n == NoStream(1, "text", {0, 1}, none)
  <1>1. view = n /\ tasks = <<>> /\ results = <<>> /\ exported = None /\ gone = {}
    BY DEF ViewInit
  <1>2. none \in Dialogs /\ none \in Errors /\ "text" \in Formats /\ {0, 1} \in Chosen
    BY ViewAssumption DEF Dialogs, Errors, Endings, Formats
  <1>3. n = [stream |-> None, reader |-> 0, opened |-> FALSE, generation |-> 1, task |-> 0, chunks |-> <<>>,
             shownBytes |-> 0, content |-> <<>>, renderer |-> None, busy |-> FALSE, more |-> FALSE,
             rerenderPending |-> FALSE, format |-> "text", directions |-> {0, 1}, lastError |-> none,
             dialog |-> none]
    BY DEF NoStream
  <1> DEFINE f == "text"
             d == {0, 1}
             c == <<>>
  <1>4. c \in Seq(StreamChunk) /\ c \in Seq(Piece) /\ 0 \in Nat /\ 1 \in Nat
    OBVIOUS
  <1> HIDE DEF none, n
  <1>5. /\ n \in ViewRecord /\ n.task = 0 /\ n.stream = None /\ n.reader = 0 /\ n.busy = FALSE
        /\ n.more = FALSE /\ n.rerenderPending = FALSE
    <2>1. f \in Formats /\ d \in Chosen
      BY <1>2
    <2>2. n = [stream |-> None, reader |-> 0, opened |-> FALSE, generation |-> 1, task |-> 0, chunks |-> c,
               shownBytes |-> 0, content |-> c, renderer |-> None, busy |-> FALSE, more |-> FALSE,
               rerenderPending |-> FALSE, format |-> f, directions |-> d, lastError |-> none,
               dialog |-> none]
      BY <1>3
    <2> HIDE DEF f, d, c
    <2>3. QED
      BY <1>2, <1>4, <2>1, <2>2 DEF ViewRecord
  <1>6. Held(n) /\ AsChosen(n)
    <2>1. 0 <= MaxTasks
      BY ViewAssumption
    <2>2. QED
      BY <1>5, <2>1 DEF Held, AsChosen
  <1>7. TasksHold(n, <<>>, <<>>)
    <2>1. <<>> \in Seq(Task) /\ <<>> \o <<>> = <<>> /\ Len(<<>>) = 0 /\ DOMAIN <<>> = {}
      OBVIOUS
    <2>2. QED
      BY <1>5, <2>1 DEF TasksHold, OneTask
  <1>8. ExportIsWhole
    BY <1>1 DEF ExportIsWhole
  <1>9. QED
    BY <1>1, <1>6, <1>7, <1>8 DEF TabInv

\* It says what the tab shows.
LEMMA TabShows == TabInv => TabShowsTheStream
  <1> SUFFICES ASSUME TabInv PROVE TabShowsTheStream
    OBVIOUS
  <1>1. Held(view) /\ AsChosen(view) /\ TasksHold(view, tasks, results) /\ ExportIsWhole /\ gone \subseteq Streams
    BY DEF TabInv
  <1> DEFINE m == Len(results)
             n == Len(tasks)
             q == results \o tasks
  <1>2. /\ tasks \in Seq(Task) /\ results \in Seq(Task) /\ Len(q) <= view.task /\ OneTask(view, q)
        /\ \A i \in DOMAIN tasks : Waits(view, tasks[i])
        /\ \A i \in DOMAIN results : HasEnded(view, results[i])
    BY <1>1 DEF TasksHold
  <1>3. /\ Len(q) = m + n /\ m \in Nat /\ n \in Nat /\ DOMAIN q = 1..(m + n)
        /\ DOMAIN results = 1..m /\ DOMAIN tasks = 1..n
        /\ \A i \in 1..m : q[i] = results[i]
        /\ \A i \in 1..n : q[m + i] = tasks[i]
        /\ \A i \in (m + 1)..(m + n) : q[i] = tasks[i - m]
    BY <1>2, BehindIs
  <1> HIDE DEF m, n, q
  <1>4. ToSet(tasks) = {tasks[i] : i \in 1..n} /\ ToSet(results) = {results[i] : i \in 1..m}
    BY <1>3 DEF ToSet
  <1>5. /\ view \in ViewRecord /\ view.task \in Nat /\ view.task <= MaxTasks /\ MaxTasks \in Nat
        /\ view.format \in Formats /\ view.directions \in Chosen /\ view.reader \in Nat
        /\ view.busy \in BOOLEAN /\ view.rerenderPending \in BOOLEAN /\ view.more \in BOOLEAN
        /\ view.stream \in Streams \cup {None}
        /\ view.reader > 0 => view.stream \in Streams
    BY <1>1, HeldIs, ViewAssumption
  <1>6. ViewTypeOK
    <2>1. view.dialog \in {"", "raw", "text"}
      BY <1>5 DEF ViewRecord, Dialogs
    <2>2. n + m <= MaxTasks
      BY <1>2, <1>3, <1>5
    <2>3. \A t \in ToSet(tasks) \cup ToSet(results) : t \in Task
      BY <1>2, <1>3, <1>4
    <2> DEFINE D == {"", "raw", "text"}
    <2> HIDE DEF D
    <2>4. view.dialog \in D
      BY <2>1 DEF D
    <2>5. Len(tasks) + Len(results) <= MaxTasks
      BY <2>2 DEF m, n
    <2>6. ViewTypeOK
      BY <1>1, <1>5, <2>3, <2>4, <2>5 DEF ViewTypeOK, D
    <2>7. QED
      BY <2>6
  <1>7. HeldIsTheStream
    BY <1>1 DEF HeldIsTheStream, Held, ShownOf, Given
  <1>8. ShownIsAsChosen
    BY <1>1, <1>5 DEF ShownIsAsChosen, AsChosen, Anew
  <1>9. BusyWithItsTask
    <2>1. ASSUME NEW t \in ToSet(tasks) PROVE t.cancel \/ t.id = view.task
      <3>1. Waits(view, t)
        BY <1>2, <1>3, <1>4
      <3>2. QED
        BY <3>1 DEF Waits
    <2>2. ASSUME view.busy
          PROVE  \E t \in ToSet(tasks) \cup ToSet(results) : t.generation = view.generation
      <3>1. PICK i \in 1..(m + n) : q[i].generation = view.generation
        BY <1>2, <1>3, <2>2 DEF OneTask
      <3>2. CASE i \in 1..m
        BY <1>3, <1>4, <3>1, <3>2
      <3>3. CASE i \in (m + 1)..(m + n)
        <4>1. i - m \in 1..n
          BY <1>3, <3>3
        <4>2. QED
          BY <1>3, <1>4, <3>1, <3>3, <4>1
      <3>4. i \in 1..m \/ i \in (m + 1)..(m + n)
        BY <1>3
      <3>5. QED
        BY <3>2, <3>3, <3>4
    <2>3. ASSUME NEW t \in ToSet(tasks) \cup ToSet(results), t.generation = view.generation
          PROVE  view.busy
      <3>1. \E i \in DOMAIN q : q[i].generation = view.generation
        <4>1. CASE t \in ToSet(tasks)
          <5>1. PICK i \in 1..n : t = tasks[i]
            BY <1>4, <4>1
          <5>2. m + i \in 1..(m + n)
            BY <1>3
          <5>3. QED
            BY <1>3, <2>3, <5>1, <5>2
        <4>2. CASE t \in ToSet(results)
          <5>1. PICK i \in 1..m : t = results[i]
            BY <1>4, <4>2
          <5>2. i \in 1..(m + n)
            BY <1>3
          <5>3. QED
            BY <1>3, <2>3, <5>1, <5>2
        <4>3. QED
          BY <2>3, <4>1, <4>2
      <3>2. QED
        BY <1>2, <3>1 DEF OneTask
    <2>4. view.busy <=> \E t \in ToSet(tasks) \cup ToSet(results) : t.generation = view.generation
      BY <1>5, <2>2, <2>3
    <2>5. QED
      BY <2>1, <2>4 DEF BusyWithItsTask
  <1>10. QED
    BY <1>1, <1>6, <1>7, <1>8, <1>9 DEF TabShowsTheStream

-----------------------------------------------------------------------------
(* The Packet Panel.                                                       *)
(*                                                                         *)
(* A read of a packet may end when the panel has long gone on.  The        *)
(* invariant numbers the reads by the generations they began in: no two    *)
(* are of one, none is of a later one than the panel's, and the one of the *)
(* panel's own is of the packet selected now, in the capture shown now.    *)

(* What the panel is, between two events.                                  *)

\* A read of a packet.
Read == [number : Nat, cursor : Indexes, generation : Nat, ok : BOOLEAN]

\* A packet, as a line tells it.
PacketOf == [number : Nat, stream : {"none", "unnumbered", "numbered"}]

\* The states of the panel.
PanelRecord ==
    [index : Indexes, cursor : Indexes, last : Selections \cup {None}, selected : PacketOf,
     selectedPacket : Nat, shownPacket : Nat, shownFrom : Indexes, generation : Nat,
     reading : BOOLEAN, waiting : Nat, status : Statuses, tab : {"Packet", "Stream"},
     visible : BOOLEAN, followEnabled : BOOLEAN, linesEnabled : BOOLEAN, queued : Seq(Read),
     asked : Nat]

\* The panel's state, whose reader is of the capture it is for.
Whole(p) == p \in PanelRecord /\ p.cursor \in {NoIndex, p.index}

\* A panel between two events: its buttons are of its selection, the packet shown
\* is the selected one, of its capture, and no other is being read, and the selected
\* one is that of the lines last told, which there are none of without a capture.
Consistent(p) ==
    /\ Whole(p)
    /\ p.followEnabled = CanFollow(p) /\ p.linesEnabled = CanFilter(p)
    /\ p.shownPacket # 0 =>
        p.shownFrom = p.index /\ p.shownPacket = p.selectedPacket /\ ~p.reading
    /\ p.selectedPacket # 0 =>
        /\ p.last # None /\ p.selectedPacket = p.last.packet.number /\ p.selected = p.last.packet
        /\ p.index # NoIndex

\* The panel, p before, q after, gave up the read under way.
ReadsNone(p, q) ==
    /\ q.queued = p.queued /\ ~q.reading
    /\ q.generation = IF p.reading THEN p.generation + 1 ELSE p.generation

\* The panel gave up the read under way, and began the one of its selected packet.
ReadsOne(p, q) ==
    \E r \in Read :
        /\ q.queued = Append(p.queued, r) /\ q.reading
        /\ q.generation > p.generation
        /\ r.generation = q.generation /\ r.number = q.selectedPacket /\ r.cursor = q.index

(* What each step of the panel makes of it.                                *)

\* No capture is an index too.
LEMMA NoIndexIs == NoIndex \in Indexes /\ 0 \in Nat
  BY DEF Indexes

\* updateStreamActions() sets the buttons from the selection, and nothing else.
LEMMA ActionsIs ==
    ASSUME NEW p \in PanelRecord
    PROVE  LET q == updateStreamActions(p)
           IN  /\ q \in PanelRecord
               /\ q.followEnabled = CanFollow(q) /\ q.linesEnabled = CanFilter(q)
               /\ q.index = p.index /\ q.cursor = p.cursor /\ q.last = p.last /\ q.selected = p.selected
               /\ q.selectedPacket = p.selectedPacket /\ q.shownPacket = p.shownPacket
               /\ q.shownFrom = p.shownFrom /\ q.generation = p.generation /\ q.reading = p.reading
               /\ q.waiting = p.waiting /\ q.status = p.status /\ q.tab = p.tab
               /\ q.visible = p.visible /\ q.queued = p.queued /\ q.asked = p.asked
  <1> DEFINE a == CanFollow(p)
             b == CanFilter(p)
             q == [p EXCEPT !.followEnabled = a, !.linesEnabled = b]
  <1>1. a \in BOOLEAN /\ b \in BOOLEAN
    BY DEF CanFollow, CanFilter
  <1>2. updateStreamActions(p) = q
    BY DEF updateStreamActions
  <1>3. CanFollow(q) = a /\ CanFilter(q) = b
    BY DEF CanFollow, CanFilter, PanelRecord
  <1> HIDE DEF a, b
  <1>4. q \in PanelRecord /\ q.followEnabled = a /\ q.linesEnabled = b
    BY <1>1 DEF PanelRecord
  <1>5. QED
    BY <1>2, <1>3, <1>4 DEF PanelRecord

\* showReason() shows no packet, for why, and gives up the read under way.
LEMMA ReasonIs ==
    ASSUME NEW p \in PanelRecord, NEW why \in Statuses
    PROVE  LET q == showReason(p, why)
           IN  /\ q \in PanelRecord
               /\ q.followEnabled = CanFollow(q) /\ q.linesEnabled = CanFilter(q)
               /\ q.index = p.index /\ q.cursor = p.cursor /\ q.last = p.last /\ q.selected = p.selected
               /\ q.selectedPacket = 0 /\ q.shownPacket = 0
               /\ ReadsNone(p, q)
               /\ q.waiting = p.waiting /\ q.status = why /\ q.tab = p.tab
               /\ q.visible = p.visible /\ q.asked = p.asked
  <1> DEFINE g == IF p.reading THEN p.generation + 1 ELSE p.generation
             r == [p EXCEPT !.generation = g, !.reading = FALSE, !.selectedPacket = 0,
                            !.shownPacket = 0, !.shownFrom = NoIndex, !.status = why]
  <1>1. g \in Nat
    BY DEF PanelRecord
  <1>2. showReason(p, why) = updateStreamActions(r)
    BY DEF showReason, PanelRecord
  <1>3. /\ r \in PanelRecord
        /\ r.index = p.index /\ r.cursor = p.cursor /\ r.last = p.last /\ r.selected = p.selected
        /\ r.selectedPacket = 0 /\ r.shownPacket = 0 /\ r.queued = p.queued /\ ~r.reading
        /\ r.generation = g
        /\ r.waiting = p.waiting /\ r.status = why /\ r.tab = p.tab
        /\ r.visible = p.visible /\ r.asked = p.asked
    <2> HIDE DEF g
    <2>1. QED
      BY <1>1, NoIndexIs DEF PanelRecord
  <1> HIDE DEF r
  <1>4. QED
    BY <1>2, <1>3, ActionsIs DEF ReadsNone

\* A panel that shows a reason is consistent.
LEMMA ReasonTrue ==
    ASSUME NEW p, Whole(p), NEW why \in Statuses
    PROVE  /\ Consistent(showReason(p, why)) /\ ReadsNone(p, showReason(p, why))
           /\ showReason(p, why).index = p.index /\ showReason(p, why).asked = p.asked
  BY ReasonIs DEF Whole, Consistent

\* So is one that began to read the packet of the lines last told.
LEMMA PacketTrue ==
    ASSUME NEW p, Whole(p), NEW number \in Nat, p.index # NoIndex,
           p.last # None /\ number = p.last.packet.number /\ p.selected = p.last.packet
    PROVE  /\ Consistent(showPacket(p, number)) /\ ReadsOne(p, showPacket(p, number))
           /\ showPacket(p, number).index = p.index /\ showPacket(p, number).asked = p.asked
  <1> DEFINE q == showReason(p, "reading")
             c == IF q.cursor = NoIndex THEN q.index ELSE q.cursor
             s == [q EXCEPT !.selectedPacket = number]
             t == updateStreamActions(s)
             r == [number |-> number, cursor |-> c, generation |-> q.generation + 1, ok |-> FALSE]
             u == [t EXCEPT !.cursor = c, !.generation = t.generation + 1, !.reading = TRUE,
                            !.queued = Append(t.queued, r)]
  <1>1. /\ q \in PanelRecord /\ q.index = p.index /\ q.cursor = p.cursor /\ q.last = p.last
        /\ q.selected = p.selected /\ q.shownPacket = 0 /\ q.queued = p.queued
        /\ q.generation \in Nat /\ q.generation >= p.generation /\ q.asked = p.asked /\ p.generation \in Nat
    <2>1. "reading" \in Statuses
      BY DEF Statuses
    <2>2. /\ q \in PanelRecord /\ q.index = p.index /\ q.cursor = p.cursor /\ q.last = p.last
          /\ q.selected = p.selected /\ q.shownPacket = 0 /\ q.queued = p.queued /\ q.asked = p.asked
          /\ q.generation = IF p.reading THEN p.generation + 1 ELSE p.generation
      BY <2>1, ReasonIs DEF Whole, ReadsNone
    <2> HIDE DEF q
    <2>3. p.generation \in Nat
      BY DEF Whole, PanelRecord
    <2>4. QED
      BY <2>2, <2>3
  <1>2. c = p.index /\ c \in Indexes
    BY <1>1 DEF Whole, PanelRecord
  <1> HIDE DEF q
  <1>3. /\ s \in PanelRecord /\ s.index = p.index /\ s.cursor = p.cursor /\ s.last = p.last
        /\ s.selected = p.selected /\ s.shownPacket = 0 /\ s.queued = p.queued
        /\ s.generation = q.generation /\ s.selectedPacket = number /\ s.asked = p.asked
    BY <1>1 DEF PanelRecord
  <1> HIDE DEF s
  <1>4. /\ t \in PanelRecord /\ t.index = p.index /\ t.cursor = p.cursor /\ t.last = p.last
        /\ t.selected = p.selected /\ t.shownPacket = 0 /\ t.queued = p.queued
        /\ t.generation = q.generation /\ t.selectedPacket = number /\ t.asked = p.asked
        /\ t.followEnabled = CanFollow(t) /\ t.linesEnabled = CanFilter(t)
    BY <1>3, ActionsIs
  <1>5. showPacket(p, number) = u
    BY <1>4 DEF showPacket, q, s, PanelRecord
  <1> HIDE DEF t, c
  <1>6. r \in Read /\ Append(t.queued, r) \in Seq(Read) /\ t.generation + 1 \in Nat
    <2>1. r \in Read
      BY <1>1, <1>2 DEF Read
    <2>2. t.queued \in Seq(Read)
      BY <1>4 DEF PanelRecord
    <2> HIDE DEF r
    <2>3. QED
      BY <1>1, <1>4, <2>1, <2>2
  <1>7. /\ u \in PanelRecord /\ u.index = p.index /\ u.cursor = p.index /\ u.last = p.last
        /\ u.selected = p.selected /\ u.shownPacket = 0 /\ u.queued = Append(p.queued, r)
        /\ u.generation = q.generation + 1 /\ u.selectedPacket = number /\ u.asked = p.asked
        /\ u.reading /\ u.followEnabled = t.followEnabled /\ u.linesEnabled = t.linesEnabled
    <2> DEFINE g == t.generation + 1
               l == Append(t.queued, r)
    <2>1. g \in Nat /\ l \in Seq(Read) /\ g = q.generation + 1 /\ l = Append(p.queued, r)
      BY <1>4, <1>6
    <2> HIDE DEF g, l, r
    <2>2. QED
      BY <1>2, <1>4, <2>1 DEF PanelRecord, g, l
  <1>8. CanFollow(u) = CanFollow(t) /\ CanFilter(u) = CanFilter(t)
    <2> HIDE DEF u
    <2>1. QED
      BY <1>4, <1>7 DEF CanFollow, CanFilter
  <1>9. r.generation = q.generation + 1 /\ r.number = number /\ r.cursor = p.index
    BY <1>2
  <1> HIDE DEF u, r
  <1>10. Consistent(u)
    BY <1>4, <1>7, <1>8 DEF Consistent, Whole
  <1>11. ReadsOne(p, u)
    <2>1. u.generation > p.generation
      BY <1>1, <1>7
    <2>2. QED
      BY <1>6, <1>7, <1>9, <2>1 DEF ReadsOne
  <1>12. QED
    BY <1>5, <1>7, <1>10, <1>11

\* What a selection is.
LEMMA SelectionIs ==
    ASSUME NEW s \in Selections
    PROVE  /\ s # None /\ s.packet \in PacketOf /\ WhyNoPacket(s) \in Statuses \cup {""}
  <1>1. s \in Selection
    BY PanelAssumption
  <1>2. s # None
    <2>1. DOMAIN s = {"result", "isPacketLine", "packet"}
      BY <1>1 DEF Selection
    <2>2. DOMAIN <<>> = {}
      OBVIOUS
    <2>3. QED
      BY <2>1, <2>2 DEF None
  <1>3. s.packet \in PacketOf
    BY <1>1 DEF Selection, PacketOf
  <1>4. WhyNoPacket(s) \in Statuses \cup {""}
    BY DEF WhyNoPacket, Statuses
  <1>5. QED
    BY <1>2, <1>3, <1>4

\* A poll leaves the panel consistent: showing a reason, reading the selected
\* packet, or as it was, when the lines are those it knows.
LEMMA PollTrue ==
    ASSUME NEW p, Whole(p), NEW force \in BOOLEAN, NEW s \in Selections,
           ~force /\ p.last = s => Consistent(p)
    PROVE  LET q == poll(p, force, s)
           IN  /\ Consistent(q) /\ q.index = p.index /\ q.asked = p.asked
               /\ \/ ReadsNone(p, q) \/ ReadsOne(p, q) \/ (q = p /\ ~force /\ p.last = s)
  <1>1. CASE p.index = NoIndex
    BY <1>1, ReasonTrue DEF poll, Statuses
  <1>2. CASE p.index # NoIndex /\ ~TellsSelected
    BY <1>2, ReasonTrue DEF poll, Statuses
  <1>3. CASE p.index # NoIndex /\ TellsSelected /\ ~force /\ p.last = s
    BY <1>3 DEF poll
  <1>4. CASE p.index # NoIndex /\ TellsSelected /\ ~(~force /\ p.last = s)
    <2> DEFINE why == WhyNoPacket(s)
               q == [p EXCEPT !.last = s]
               t == [q EXCEPT !.selected = IF why = "" THEN s.packet ELSE NoPacket]
    <2>1. poll(p, force, s) = IF why # "" THEN showReason(t, why) ELSE showPacket(t, s.packet.number)
      BY <1>4 DEF poll, showSelection
    <2>2. /\ Whole(t) /\ t.last = s /\ t.selected = (IF why = "" THEN s.packet ELSE NoPacket)
          /\ t.index = p.index /\ t.reading = p.reading /\ t.generation = p.generation /\ t.queued = p.queued
          /\ t.asked = p.asked
      <3> DEFINE k == IF why = "" THEN s.packet ELSE NoPacket
      <3>1. k \in PacketOf
        BY SelectionIs DEF NoPacket, PacketOf
      <3> HIDE DEF k
      <3>2. QED
        BY <3>1 DEF Whole, PanelRecord, k
    <2> HIDE DEF t
    <2>3. CASE why # ""
      <3>1. why \in Statuses
        BY <2>3, SelectionIs
      <3> HIDE DEF why
      <3>2. /\ Consistent(showReason(t, why)) /\ ReadsNone(t, showReason(t, why))
            /\ showReason(t, why).index = t.index /\ showReason(t, why).asked = t.asked
        BY <2>2, <3>1, ReasonTrue
      <3>3. QED
        BY <2>1, <2>2, <2>3, <3>2 DEF ReadsNone
    <2>4. CASE why = ""
      <3>1. s.packet.number \in Nat /\ s # None
        BY SelectionIs DEF PacketOf
      <3>2. t.last # None /\ s.packet.number = t.last.packet.number /\ t.selected = t.last.packet
            /\ t.index # NoIndex
        BY <1>4, <2>2, <2>4, <3>1
      <3>3. Consistent(showPacket(t, s.packet.number)) /\ ReadsOne(t, showPacket(t, s.packet.number))
            /\ showPacket(t, s.packet.number).index = t.index /\ showPacket(t, s.packet.number).asked = t.asked
        BY <2>2, <3>1, <3>2, PacketTrue
      <3>4. QED
        BY <2>1, <2>2, <2>4, <3>3 DEF ReadsOne
    <2>5. QED
      BY <2>3, <2>4
  <1>5. QED
    BY <1>1, <1>2, <1>3, <1>4

\* The stream of a packet that can be followed is one there is.
LEMMA StreamIs ==
    ASSUME NEW p, Consistent(p), CanFollow(p)
    PROVE  <<p.index, p.selectedPacket>> \in Streams \ {None}
  <1>1. p \in PanelRecord /\ p.selectedPacket # 0 /\ p.selected.stream # "none"
    BY DEF Consistent, Whole, CanFollow
  <1>2. /\ p.last # None /\ p.selectedPacket = p.last.packet.number /\ p.selected = p.last.packet
        /\ p.index # NoIndex
    BY <1>1 DEF Consistent
  <1>3. p.last \in Selections /\ p.index \in Indexes \ {NoIndex}
    BY <1>1, <1>2 DEF PanelRecord
  <1>4. <<p.index, p.selectedPacket>> \in Streams
    BY <1>1, <1>2, <1>3, PanelAssumption
  <1>5. <<p.index, p.selectedPacket>> # <<>>
    OBVIOUS
  <1>6. QED
    BY <1>4, <1>5 DEF None

(* The reads under way.                                                    *)

\* A read is of the panel's generation or an earlier one, and one of its own is of
\* the selected packet in its capture.
ReadOf(p, r) ==
    /\ r.generation <= p.generation
    /\ r.generation = p.generation =>
        p.reading /\ r.number = p.selectedPacket /\ r.cursor = p.index

\* No two reads, under way or ended, are of one generation, each is of the panel, and
\* the one the panel waits for is among them.
ReadsHold(p, rs, ends) ==
    /\ rs \in Seq(Read) /\ ends \in Seq(Read)
    /\ \A i, j \in DOMAIN rs : rs[i].generation = rs[j].generation => i = j
    /\ \A i, j \in DOMAIN ends : ends[i].generation = ends[j].generation => i = j
    /\ \A i \in DOMAIN rs, j \in DOMAIN ends : rs[i].generation # ends[j].generation
    /\ \A i \in DOMAIN rs : ReadOf(p, rs[i])
    /\ \A i \in DOMAIN ends : ReadOf(p, ends[i])
    /\ p.reading =>
        \/ \E i \in DOMAIN rs : rs[i].generation = p.generation
        \/ \E i \in DOMAIN ends : ends[i].generation = p.generation

\* Nothing about the reads changed.
Same(p, q) ==
    /\ q.queued = p.queued /\ q.reading = p.reading /\ q.generation = p.generation
    /\ q.selectedPacket = p.selectedPacket /\ q.index = p.index

\* What a step does to the reads.
Moves(p, q) == ReadsNone(p, q) \/ ReadsOne(p, q) \/ Same(p, q)

\* The stream followed is of the panel's capture.
StreamOfFront ==
    /\ "stream" \in DOMAIN view
    /\ view.stream # None => view.stream[1] = panel.index

\* The invariant of the panel and its reads.
PanelInv ==
    /\ Consistent(panel) /\ panel.queued = <<>>
    /\ ReadsHold(panel, reads, readResults)

(* The reads, as they begin, end and are told.                             *)

\* A read, added to others.
LEMMA AppendRead ==
    ASSUME NEW rs \in Seq(Read), NEW r \in Read
    PROVE  /\ Append(rs, r) \in Seq(Read) /\ rs \o <<r>> = Append(rs, r)
           /\ Len(rs) + 1 \in DOMAIN Append(rs, r) /\ Append(rs, r)[Len(rs) + 1] = r
           /\ \A i \in DOMAIN rs : i \in DOMAIN Append(rs, r) /\ Append(rs, r)[i] = rs[i]
           /\ \A i \in DOMAIN Append(rs, r) : i = Len(rs) + 1 \/ i \in DOMAIN rs
  OBVIOUS

\* Reads, but for the first.
LEMMA TailRead ==
    ASSUME NEW rs \in Seq(Read), rs # <<>>
    PROVE  /\ Tail(rs) \in Seq(Read) /\ Head(rs) = rs[1] /\ Head(rs) \in Read /\ 1 \in DOMAIN rs
           /\ \A i \in DOMAIN Tail(rs) : i + 1 \in DOMAIN rs /\ i + 1 # 1 /\ Tail(rs)[i] = rs[i + 1] /\ i \in Nat
           /\ \A i \in DOMAIN rs : i = 1 \/ (i - 1 \in DOMAIN Tail(rs) /\ Tail(rs)[i - 1] = rs[i])
  OBVIOUS

\* A step's new read is queued behind the others: of a later generation than each.
LEMMA ReadsMoved ==
    ASSUME NEW p \in PanelRecord, NEW q \in PanelRecord, p.queued = <<>>, Moves(p, q),
           NEW rs, NEW ends, ReadsHold(p, rs, ends)
    PROVE  ReadsHold(q, rs \o q.queued, ends)
  <1>0. p.generation \in Nat /\ q.generation \in Nat /\ \A r \in Read : r.generation \in Nat
    BY DEF PanelRecord, Read
  <1>1. /\ rs \in Seq(Read) /\ ends \in Seq(Read)
        /\ \A i \in DOMAIN rs : rs[i] \in Read /\ rs[i].generation <= p.generation /\ rs[i].generation \in Nat
        /\ \A i \in DOMAIN ends : ends[i] \in Read /\ ends[i].generation <= p.generation /\ ends[i].generation \in Nat
    BY <1>0 DEF ReadsHold, ReadOf
  <1>2. CASE ReadsNone(p, q)
    <2>1. rs \o q.queued = rs
      BY <1>1, <1>2 DEF ReadsNone
    <2>2. ~q.reading /\ q.generation = IF p.reading THEN p.generation + 1 ELSE p.generation
      BY <1>2 DEF ReadsNone
    <2>3. ASSUME NEW r \in Read, ReadOf(p, r) PROVE ReadOf(q, r)
      BY <1>0, <2>2, <2>3 DEF ReadOf
    <2>4. QED
      BY <1>1, <2>1, <2>2, <2>3 DEF ReadsHold
  <1>3. CASE Same(p, q)
    <2>1. rs \o q.queued = rs
      BY <1>1, <1>3 DEF Same
    <2>2. ASSUME NEW r, ReadOf(p, r) PROVE ReadOf(q, r)
      BY <1>3, <2>2 DEF ReadOf, Same
    <2>3. QED
      BY <1>3, <2>1, <2>2 DEF ReadsHold, Same
  <1>4. CASE ReadsOne(p, q)
    <2>1. PICK r \in Read :
            /\ q.queued = Append(p.queued, r) /\ q.reading
            /\ q.generation > p.generation
            /\ r.generation = q.generation /\ r.number = q.selectedPacket /\ r.cursor = q.index
      BY <1>4 DEF ReadsOne
    <2>2. rs \o q.queued = Append(rs, r)
      <3>1. q.queued = <<r>>
        BY <2>1
      <3>2. QED
        BY <1>1, <3>1, AppendRead
    <2> DEFINE new == Append(rs, r)
               n == Len(rs) + 1
    <2>3. /\ new \in Seq(Read) /\ n \in DOMAIN new /\ new[n] = r
          /\ \A i \in DOMAIN new : i = n \/ (i \in DOMAIN rs /\ new[i] = rs[i])
      BY <1>1, AppendRead
    <2> HIDE DEF new, n
    <2>4. \A x \in Read : x.generation <= p.generation => x.generation # q.generation /\ x.generation <= q.generation
      BY <1>0, <2>1
    <2>5. \A x \in Read : x.generation <= p.generation => ReadOf(q, x)
      BY <2>4 DEF ReadOf
    <2>6. ReadOf(q, r)
      BY <1>0, <2>1 DEF ReadOf
    <2>7. \A i, j \in DOMAIN new : new[i].generation = new[j].generation => i = j
      BY <1>1, <2>1, <2>3, <2>4 DEF ReadsHold
    <2>8. \A i \in DOMAIN new, j \in DOMAIN ends : new[i].generation # ends[j].generation
      BY <1>1, <2>1, <2>3, <2>4 DEF ReadsHold
    <2>9. /\ \A i \in DOMAIN new : ReadOf(q, new[i])
          /\ \A i \in DOMAIN ends : ReadOf(q, ends[i])
      BY <1>1, <2>3, <2>5, <2>6
    <2>10. ReadsHold(q, new, ends)
      BY <1>1, <2>1, <2>3, <2>7, <2>8, <2>9 DEF ReadsHold
    <2>11. QED
      BY <2>2, <2>10 DEF new
  <1>5. QED
    BY <1>2, <1>3, <1>4 DEF Moves

\* The first read ended.
LEMMA ReadDone ==
    ASSUME NEW p, NEW rs, NEW ends, ReadsHold(p, rs, ends), rs # <<>>, NEW x \in Read,
           x.generation = Head(rs).generation, x.number = Head(rs).number, x.cursor = Head(rs).cursor
    PROVE  ReadsHold(p, Tail(rs), Append(ends, x))
  <1> DEFINE rest == Tail(rs)
             new == Append(ends, x)
             n == Len(ends) + 1
  <1>0. /\ \A i, j \in DOMAIN rs : rs[i].generation = rs[j].generation => i = j
        /\ \A i, j \in DOMAIN ends : ends[i].generation = ends[j].generation => i = j
        /\ \A i \in DOMAIN rs, j \in DOMAIN ends : rs[i].generation # ends[j].generation
        /\ \A i \in DOMAIN rs : ReadOf(p, rs[i])
        /\ \A i \in DOMAIN ends : ReadOf(p, ends[i])
    BY DEF ReadsHold
  <1>1. /\ rest \in Seq(Read) /\ Head(rs) = rs[1] /\ 1 \in DOMAIN rs
        /\ \A i \in DOMAIN rest : i + 1 \in DOMAIN rs /\ i + 1 # 1 /\ rest[i] = rs[i + 1] /\ i \in Nat
        /\ \A i \in DOMAIN rs : i = 1 \/ (i - 1 \in DOMAIN rest /\ rest[i - 1] = rs[i])
    BY TailRead DEF ReadsHold
  <1>2. /\ new \in Seq(Read) /\ n \in DOMAIN new /\ new[n] = x
        /\ \A i \in DOMAIN ends : i \in DOMAIN new /\ new[i] = ends[i]
        /\ \A i \in DOMAIN new : i = n \/ i \in DOMAIN ends
    BY AppendRead DEF ReadsHold
  <1> HIDE DEF rest, new, n
  <1>3. ReadOf(p, x)
    BY <1>1 DEF ReadsHold, ReadOf
  <1>4. \A i, j \in DOMAIN rest : rest[i].generation = rest[j].generation => i = j
    <2>1. SUFFICES ASSUME NEW i \in DOMAIN rest, NEW j \in DOMAIN rest, rest[i].generation = rest[j].generation
                   PROVE  i = j
      BY Zenon
    <2>2. i + 1 \in DOMAIN rs /\ j + 1 \in DOMAIN rs /\ rest[i] = rs[i + 1] /\ rest[j] = rs[j + 1]
          /\ i \in Nat /\ j \in Nat
      BY <1>1
    <2>3. \A k, l \in DOMAIN rs : rs[k].generation = rs[l].generation => k = l
      BY <1>0
    <2>4. i + 1 = j + 1
      BY <2>1, <2>2, <2>3
    <2>5. QED
      BY <2>2, <2>4
  <1>5. \A i \in DOMAIN rest : rest[i].generation # x.generation /\ ReadOf(p, rest[i])
        /\ \A j \in DOMAIN ends : rest[i].generation # ends[j].generation
    BY <1>1 DEF ReadsHold
  <1>6. \A j \in DOMAIN ends : x.generation # ends[j].generation
    BY <1>1 DEF ReadsHold
  <1>7. \A i, j \in DOMAIN new : new[i].generation = new[j].generation => i = j
    BY <1>2, <1>6 DEF ReadsHold
  <1>8. \A i \in DOMAIN rest, j \in DOMAIN new : rest[i].generation # new[j].generation
    BY <1>2, <1>5
  <1>9. \A i \in DOMAIN new : ReadOf(p, new[i])
    BY <1>2, <1>3 DEF ReadsHold
  <1>10. ASSUME p.reading
         PROVE  \/ \E i \in DOMAIN rest : rest[i].generation = p.generation
                \/ \E i \in DOMAIN new : new[i].generation = p.generation
    <2>1. CASE \E i \in DOMAIN ends : ends[i].generation = p.generation
      BY <1>2, <2>1
    <2>2. CASE \E i \in DOMAIN rs : rs[i].generation = p.generation
      <3>1. PICK i \in DOMAIN rs : rs[i].generation = p.generation
        BY <2>2
      <3>2. CASE i = 1
        BY <1>1, <1>2, <3>1, <3>2
      <3>3. CASE i # 1
        <4>1. i - 1 \in DOMAIN rest /\ rest[i - 1] = rs[i]
          BY <1>1, <3>3
        <4>2. QED
          BY <3>1, <4>1
      <3>4. QED
        BY <3>2, <3>3
    <2>3. QED
      BY <1>10, <2>1, <2>2 DEF ReadsHold
  <1>11. ReadsHold(p, rest, new)
    BY <1>1, <1>2, <1>4, <1>5, <1>7, <1>8, <1>9, <1>10 DEF ReadsHold
  <1>12. QED
    BY <1>11 DEF rest, new

\* The first end was told: passed over when it is of an earlier generation; one of the
\* panel's generation was the one it waited for.
LEMMA ReadTold ==
    ASSUME NEW p, NEW q, NEW rs, NEW ends, ReadsHold(p, rs, ends), ends # <<>>,
           \/ Head(ends).generation # p.generation /\ q = p
           \/ Head(ends).generation = p.generation /\ q.generation = p.generation /\ ~q.reading
    PROVE  ReadsHold(q, rs, Tail(ends))
  <1> DEFINE rest == Tail(ends)
  <1>0. /\ \A i, j \in DOMAIN rs : rs[i].generation = rs[j].generation => i = j
        /\ \A i, j \in DOMAIN ends : ends[i].generation = ends[j].generation => i = j
        /\ \A i \in DOMAIN rs, j \in DOMAIN ends : rs[i].generation # ends[j].generation
        /\ \A i \in DOMAIN rs : ReadOf(p, rs[i])
        /\ \A i \in DOMAIN ends : ReadOf(p, ends[i])
    BY DEF ReadsHold
  <1>1. /\ rest \in Seq(Read) /\ Head(ends) = ends[1] /\ 1 \in DOMAIN ends
        /\ \A i \in DOMAIN rest : i + 1 \in DOMAIN ends /\ i + 1 # 1 /\ rest[i] = ends[i + 1] /\ i \in Nat
        /\ \A i \in DOMAIN ends : i = 1 \/ (i - 1 \in DOMAIN rest /\ rest[i - 1] = ends[i])
    BY TailRead DEF ReadsHold
  <1> HIDE DEF rest
  <1>2. \A i, j \in DOMAIN rest : rest[i].generation = rest[j].generation => i = j
    <2>1. SUFFICES ASSUME NEW i \in DOMAIN rest, NEW j \in DOMAIN rest, rest[i].generation = rest[j].generation
                   PROVE  i = j
      BY Zenon
    <2>2. i + 1 \in DOMAIN ends /\ j + 1 \in DOMAIN ends /\ rest[i] = ends[i + 1] /\ rest[j] = ends[j + 1]
          /\ i \in Nat /\ j \in Nat
      BY <1>1
    <2>3. \A k, l \in DOMAIN ends : ends[k].generation = ends[l].generation => k = l
      BY <1>0
    <2>4. i + 1 = j + 1
      BY <2>1, <2>2, <2>3
    <2>5. QED
      BY <2>2, <2>4
  <1>3. \A i \in DOMAIN rest : rest[i].generation # Head(ends).generation /\ ReadOf(p, rest[i])
        /\ \A j \in DOMAIN rs : rs[j].generation # rest[i].generation
    BY <1>1 DEF ReadsHold
  <1>4. CASE Head(ends).generation # p.generation /\ q = p
    <2>1. p.reading => \/ \E i \in DOMAIN rs : rs[i].generation = p.generation
                       \/ \E i \in DOMAIN rest : rest[i].generation = p.generation
      <3>1. ASSUME NEW i \in DOMAIN ends, ends[i].generation = p.generation
            PROVE  \E k \in DOMAIN rest : rest[k].generation = p.generation
        <4>1. i # 1
          BY <1>1, <1>4, <3>1
        <4>2. i - 1 \in DOMAIN rest /\ rest[i - 1] = ends[i]
          BY <1>1, <4>1
        <4>3. QED
          BY <3>1, <4>2
      <3>2. QED
        BY <3>1 DEF ReadsHold
    <2>2. ReadsHold(p, rs, rest)
      BY <1>1, <1>2, <1>3, <2>1 DEF ReadsHold
    <2>3. QED
      BY <1>4, <2>2 DEF rest
  <1>5. CASE Head(ends).generation = p.generation /\ q.generation = p.generation /\ ~q.reading
    <2>1. \A i \in DOMAIN rest : ReadOf(q, rest[i])
      BY <1>3, <1>5 DEF ReadOf
    <2>2. \A i \in DOMAIN rs : ReadOf(q, rs[i])
      <3>1. \A i \in DOMAIN rs : rs[i].generation # p.generation /\ ReadOf(p, rs[i])
        BY <1>1, <1>5 DEF ReadsHold
      <3>2. QED
        BY <1>5, <3>1 DEF ReadOf
    <2>3. ReadsHold(q, rs, rest)
      BY <1>1, <1>2, <1>3, <1>5, <2>1, <2>2 DEF ReadsHold
    <2>4. QED
      BY <2>3 DEF rest
  <1>6. QED
    BY <1>4, <1>5

\* What a step asks for is begun, and the invariant holds.
LEMMA AskKeeps ==
    ASSUME PanelInv, NEW q, Consistent(q), Moves(panel, q), Ask(q), readResults' = readResults
    PROVE  PanelInv' /\ panel'.index = q.index
  <1> DEFINE u == [q EXCEPT !.queued = <<>>, !.asked = q.asked + Len(q.queued)]
  <1>1. panel' = u /\ reads' = reads \o q.queued
    BY DEF Ask
  <1>2. q \in PanelRecord /\ panel \in PanelRecord /\ panel.queued = <<>>
    BY DEF Consistent, Whole, PanelInv
  <1>3. ReadsHold(q, reads', readResults')
    BY <1>1, <1>2, ReadsMoved DEF PanelInv
  <1>4. Consistent(u) /\ u.queued = <<>> /\ u.index = q.index /\ u.generation = q.generation
        /\ u.reading = q.reading /\ u.selectedPacket = q.selectedPacket
    <2> DEFINE n == q.asked + Len(q.queued)
               none == <<>>
    <2>1. n \in Nat /\ none \in Seq(Read)
      <3>1. q.queued \in Seq(Read) /\ q.asked \in Nat
        BY <1>2 DEF PanelRecord
      <3>2. QED
        BY <3>1
    <2> HIDE DEF n, none
    <2>2. u \in PanelRecord /\ u = [q EXCEPT !.queued = none, !.asked = n]
      BY <1>2, <2>1 DEF PanelRecord, n, none
    <2> HIDE DEF u
    <2>3. /\ u.queued = none /\ u.index = q.index /\ u.generation = q.generation
          /\ u.reading = q.reading /\ u.selectedPacket = q.selectedPacket /\ u.cursor = q.cursor
          /\ u.last = q.last /\ u.selected = q.selected /\ u.shownPacket = q.shownPacket
          /\ u.shownFrom = q.shownFrom /\ u.followEnabled = q.followEnabled /\ u.linesEnabled = q.linesEnabled
      BY <1>2, <2>2 DEF PanelRecord
    <2>4. CanFollow(u) = CanFollow(q) /\ CanFilter(u) = CanFilter(q)
      BY <2>3 DEF CanFollow, CanFilter
    <2>5. QED
      BY <2>2, <2>3, <2>4 DEF Consistent, Whole, none
  <1> HIDE DEF u
  <1>5. ReadsHold(u, reads', readResults')
    BY <1>3, <1>4 DEF ReadsHold, ReadOf
  <1>6. QED
    BY <1>1, <1>4, <1>5 DEF PanelInv

\* What is told, seen or in front does not change what the panel shows.
LEMMA SmallChange ==
    ASSUME NEW p, Consistent(p), NEW w \in Nat, NEW v \in BOOLEAN, NEW t \in {"Packet", "Stream"}
    PROVE  /\ Consistent([p EXCEPT !.waiting = w]) /\ Same(p, [p EXCEPT !.waiting = w])
           /\ Consistent([p EXCEPT !.visible = v]) /\ Same(p, [p EXCEPT !.visible = v])
           /\ Consistent([p EXCEPT !.tab = t]) /\ Same(p, [p EXCEPT !.tab = t])
  <1>0. p \in PanelRecord
    BY DEF Consistent, Whole
  <1>1. Consistent([p EXCEPT !.waiting = w]) /\ Same(p, [p EXCEPT !.waiting = w])
    BY <1>0 DEF Consistent, Whole, PanelRecord, CanFollow, CanFilter, Same
  <1>2. Consistent([p EXCEPT !.visible = v]) /\ Same(p, [p EXCEPT !.visible = v])
    BY <1>0 DEF Consistent, Whole, PanelRecord, CanFollow, CanFilter, Same
  <1>3. Consistent([p EXCEPT !.tab = t]) /\ Same(p, [p EXCEPT !.tab = t])
    BY <1>0 DEF Consistent, Whole, PanelRecord, CanFollow, CanFilter, Same
  <1>4. QED
    BY <1>1, <1>2, <1>3

\* A step behind no change is a step.
LEMMA SameThenMoves ==
    ASSUME NEW p, NEW q, NEW r, Same(p, q), Moves(q, r)
    PROVE  Moves(p, r)
  BY DEF Same, Moves, ReadsNone, ReadsOne

\* A step ahead of no change is a step.
LEMMA MovesThenSame ==
    ASSUME NEW p, NEW q, NEW r, Moves(p, q), Same(q, r)
    PROVE  Moves(p, r)
  BY DEF Same, Moves, ReadsNone, ReadsOne

\* A poll is a step.
LEMMA PollMoves ==
    ASSUME NEW p, Consistent(p), NEW force \in BOOLEAN, NEW s \in Selections
    PROVE  /\ Consistent(poll(p, force, s)) /\ poll(p, force, s).index = p.index
           /\ Moves(p, poll(p, force, s))
  <1>1. Whole(p)
    BY DEF Consistent
  <1> DEFINE q == poll(p, force, s)
  <1>2. Consistent(q) /\ q.index = p.index /\ (ReadsNone(p, q) \/ ReadsOne(p, q) \/ q = p)
    BY <1>1, PollTrue
  <1> HIDE DEF q
  <1>3. Moves(p, q)
    BY <1>2 DEF Moves, Same
  <1>4. QED
    BY <1>2, <1>3 DEF q

\* A new capture's panel is a step, whatever was shown before: its first poll is
\* forced.
LEMMA CaptureTrue ==
    ASSUME Consistent(panel), NEW index \in Indexes, NEW s \in Selections
    PROVE  /\ Consistent(WithCapture(index, s)) /\ WithCapture(index, s).index = index
           /\ Moves(panel, WithCapture(index, s))
  <1> DEFINE p == [panel EXCEPT !.index = index, !.cursor = NoIndex, !.last = None, !.tab = "Packet"]
             q == WithCapture(index, s)
  <1>1. /\ Whole(p) /\ p.index = index /\ p.last = None /\ p.queued = panel.queued
        /\ p.reading = panel.reading /\ p.generation = panel.generation
    BY NoIndexIs DEF Consistent, Whole, PanelRecord
  <1>2. q = IF index = NoIndex THEN showReason(p, "no capture")
            ELSE IF p.visible THEN poll(p, FALSE, s) ELSE showReason(p, "select")
    BY DEF WithCapture
  <1>3. p.last # s
    BY <1>1, SelectionIs
  <1> HIDE DEF p, q
  <1>4. Consistent(q) /\ q.index = index /\ (ReadsNone(p, q) \/ ReadsOne(p, q))
    <2>1. CASE index = NoIndex
      BY <1>1, <1>2, <2>1, ReasonTrue DEF Statuses
    <2>2. CASE index # NoIndex /\ ~p.visible
      BY <1>1, <1>2, <2>2, ReasonTrue DEF Statuses
    <2>3. CASE index # NoIndex /\ p.visible
      <3>1. q = poll(p, FALSE, s)
        BY <1>2, <2>3
      <3>2. QED
        BY <1>1, <1>3, <3>1, PollTrue
    <2>4. QED
      BY <2>1, <2>2, <2>3
  <1>5. Moves(panel, q)
    BY <1>1, <1>4 DEF Moves, ReadsNone, ReadsOne
  <1>6. QED
    BY <1>4, <1>5 DEF q

\* The panel's capture is the one the sidebar drew.
Numbered == panel.index = shown.entry.index

(* Where the steps come from.                                              *)

\* What is drawn of a tab has an index.
LEMMA DrawnIndex ==
    ASSUME NEW all \in [Kept -> Entry], NEW key, NEW live, NEW runs
    PROVE  Drawn(all, key, live, runs).entry.index \in Indexes
  <1>1. CASE key \in Kept
    BY <1>1 DEF Drawn, Entry
  <1>2. CASE key \notin Kept
    BY <1>2, NoIndexIs DEF Drawn, NoEntry
  <1>3. QED
    BY <1>1, <1>2

\* A choice of the selection is told to the panel.
LEMMA RefreshedTrue ==
    ASSUME Consistent(panel), NEW then \in {0, 1}, NEW s \in Selections
    PROVE  /\ Consistent(Refreshed(then, s)) /\ Refreshed(then, s).index = panel.index
           /\ Moves(panel, Refreshed(then, s))
  <1> DEFINE w == panel.waiting + then
             b == [panel EXCEPT !.waiting = w]
             p == poll(b, TRUE, s)
             q == [p EXCEPT !.waiting = 0]
  <1>1. w \in Nat
    BY DEF Consistent, Whole, PanelRecord
  <1>2. Consistent(b) /\ Same(panel, b)
    <2> HIDE DEF w
    <2>1. QED
      BY <1>1, SmallChange
  <1>3. Refreshed(then, s) = IF p.reading THEN p ELSE q
    BY DEF Refreshed, settled
  <1> HIDE DEF b
  <1>4. Consistent(p) /\ p.index = b.index /\ Moves(b, p)
    BY <1>2, PollMoves
  <1> HIDE DEF p
  <1>5. Consistent(q) /\ Same(p, q)
    BY <1>4, SmallChange
  <1> HIDE DEF q
  <1>6. Moves(panel, p)
    BY <1>2, <1>4, SameThenMoves
  <1>7. Moves(panel, q)
    BY <1>5, <1>6, MovesThenSame
  <1>8. QED
    BY <1>2, <1>3, <1>4, <1>5, <1>6, <1>7 DEF Same

\* A follow is of the stream it was told.
LEMMA FollowIs ==
    ASSUME NEW stream, Follow(stream)
    PROVE  "stream" \in DOMAIN view' /\ view'.stream = stream
  BY DEF Follow, Cleared, NoStream

\* A view that was cleared follows nothing.
LEMMA ClearIs ==
    ASSUME ClearView
    PROVE  "stream" \in DOMAIN view' /\ view'.stream = None
  BY DEF ClearView, Cleared, NoStream

\* The Stream tab follows what it did.
SameStream == "stream" \in DOMAIN view' /\ view'.stream = view.stream

\* Rendering anew keeps the stream.
LEMMA RerenderIs ==
    ASSUME NEW v, "stream" \in DOMAIN v
    PROVE  "stream" \in DOMAIN Rerender(v) /\ Rerender(v).stream = v.stream
  <1>1. PICK c, r : Rerender(v) = [v EXCEPT !.rerenderPending = FALSE]
                  \/ Rerender(v) = [v EXCEPT !.rerenderPending = FALSE, !.content = c, !.renderer = r]
    BY DEF Rerender
  <1>2. QED
    BY <1>1

\* So does what a read brought.
LEMMA ShownIs ==
    ASSUME NEW t, "stream" \in DOMAIN view
    PROVE  "stream" \in DOMAIN Shown(t) /\ Shown(t).stream = view.stream
  <1> DEFINE idle == [view EXCEPT !.busy = FALSE, !.lastError = ""]
             first == Renderer(view.format, view.directions, Contents[t.stream].udp)
             more == Rendered(IF view.chunks = <<>> THEN first ELSE view.renderer, t.chunks)
             a == idle.chunks \o t.chunks
             b == idle.shownBytes + SizeOfChunks(t.chunks)
             e == t.status \in {"More", "Cancelled"}
             f == idle.content \o more.text
             h == IF t.status \in {"Failed", "Cancelled"} THEN t.status ELSE ""
             read == [idle EXCEPT !.chunks = a, !.shownBytes = b, !.reader = t.next, !.opened = t.opened,
                                  !.more = e, !.content = f, !.renderer = more.renderer, !.lastError = h]
  <1>1. Shown(t) \in {[idle EXCEPT !.reader = 0, !.more = FALSE], Rerender(read), read}
    BY DEF Shown
  <1> HIDE DEF a, b, e, f, h, more
  <1>2. "stream" \in DOMAIN idle /\ idle.stream = view.stream
    OBVIOUS
  <1> HIDE DEF idle
  <1>3. "stream" \in DOMAIN read /\ read.stream = view.stream
    BY <1>2
  <1> HIDE DEF read
  <1>4. "stream" \in DOMAIN Rerender(read) /\ Rerender(read).stream = view.stream
    BY <1>3, RerenderIs
  <1>5. QED
    BY <1>1, <1>2, <1>3, <1>4

\* Nothing that goes on in the Stream tab itself changes the stream it follows.
LEMMA TabKeepsStream ==
    ASSUME "stream" \in DOMAIN view, TabNext
    PROVE  SameStream
  <1>1. CASE view' = view
    BY <1>1 DEF SameStream
  <1>2. CASE ShowMore
    BY <1>2 DEF ShowMore, SameStream
  <1>3. ASSUME NEW f \in Formats, NEW d \in Chosen, Choose(f, d) PROVE SameStream
    <2> DEFINE v == [view EXCEPT !.format = f, !.directions = d]
    <2>1. view' = [v EXCEPT !.rerenderPending = TRUE] \/ view' = Rerender(v)
      BY <1>3 DEF Choose
    <2>2. "stream" \in DOMAIN v /\ v.stream = view.stream
      OBVIOUS
    <2> HIDE DEF v
    <2>3. "stream" \in DOMAIN Rerender(v) /\ Rerender(v).stream = v.stream
      BY <2>2, RerenderIs
    <2>4. QED
      BY <2>1, <2>2, <2>3 DEF SameStream
  <1>4. ASSUME NEW raw \in BOOLEAN, ChooseExport(raw) PROVE SameStream
    <2>1. PICK x : view' = [view EXCEPT !.dialog = x]
      BY <1>4 DEF ChooseExport
    <2>2. QED
      BY <2>1 DEF SameStream
  <1>5. ASSUME NEW accepted \in BOOLEAN, DialogEnds(accepted) PROVE SameStream
    <2>1. PICK n : view' = [view EXCEPT !.busy = TRUE, !.task = n, !.dialog = ""]
                \/ view' = [view EXCEPT !.dialog = ""]
      BY <1>5 DEF DialogEnds
    <2>2. QED
      BY <2>1 DEF SameStream
  <1>6. CASE Told
    <2> DEFINE t == Head(results)
    <2>1. view' = view \/ view' = Shown(t) \/ view' = ExportShown(t)
      BY <1>6 DEF Told
    <2>2. SameStream \/ view' # Shown(t)
      BY ShownIs DEF SameStream
    <2>3. ASSUME view' = ExportShown(t) PROVE SameStream
      <3>1. PICK e : LET idle == [view EXCEPT !.busy = FALSE, !.lastError = e]
                     IN  ExportShown(t) \in {Rerender(idle), idle}
        BY DEF ExportShown
      <3> DEFINE idle == [view EXCEPT !.busy = FALSE, !.lastError = e]
      <3>2. "stream" \in DOMAIN idle /\ idle.stream = view.stream
        OBVIOUS
      <3>3. ExportShown(t) \in {Rerender(idle), idle}
        BY <3>1
      <3> HIDE DEF idle
      <3>4. "stream" \in DOMAIN Rerender(idle) /\ Rerender(idle).stream = idle.stream
        BY <3>2, RerenderIs
      <3>5. QED
        BY <2>3, <3>2, <3>3, <3>4 DEF SameStream
    <2>4. QED
      BY <1>1, <2>1, <2>2, <2>3
  <1>7. CASE ReadStep \/ ExportBegins \/ ExportStep \/ \E stream \in Streams : FileChanges(stream)
    BY <1>1, <1>7 DEF ReadStep, ExportBegins, ExportStep, FileChanges
  <1>8. CASE Cancel
    BY <1>1, <1>8 DEF Cancel
  <1>9. QED
    BY <1>2, <1>3, <1>4, <1>5, <1>6, <1>7, <1>8 DEF TabNext, UserInView

(* Every step keeps it.                                                    *)

\* The inductive invariant, beside those of the catalog.
WholeInv == PanelInv /\ Numbered /\ StreamOfFront

\* It is kept, whatever happens: a tab comes to the front, the user looks, selects or
\* follows, the timer polls, a read ends or is told, or the Stream tab works.
LEMMA PanelStep ==
    ASSUME TypeInv, FrontInv, WholeInv, TypeInv', FrontInv',
           [PanelNext \/ (TabNext /\ UNCHANGED <<catalogVars, panelVars>>)]_allPanelVars
    PROVE  WholeInv'
  <1>0. Consistent(panel) /\ panel \in PanelRecord /\ panel.queued = <<>> /\ PanelInv
        /\ "stream" \in DOMAIN view /\ (view.stream # None => view.stream[1] = panel.index)
        /\ panel.index = shown.entry.index
    BY DEF WholeInv, PanelInv, Consistent, Whole, StreamOfFront, Numbered
  <1>a. ASSUME UNCHANGED <<panelVars, catalogVars>>, SameStream
        PROVE  WholeInv'
    <2>1. UNCHANGED <<panel, reads, readResults, shown>>
      BY <1>a DEF panelVars, catalogVars
    <2>2. PanelInv'
      BY <1>0, <2>1 DEF PanelInv
    <2>3. Numbered' /\ StreamOfFront'
      BY <1>0, <1>a, <2>1 DEF Numbered, StreamOfFront, SameStream
    <2>4. QED
      BY <2>2, <2>3 DEF WholeInv
  <1>b. ASSUME PanelInv', panel'.index = panel.index, UNCHANGED catalogVars, SameStream
        PROVE  WholeInv'
    BY <1>0, <1>b DEF WholeInv, Numbered, StreamOfFront, SameStream, catalogVars
  <1>s. viewVars' = viewVars => SameStream
    BY <1>0 DEF viewVars, SameStream
  <1>1. CASE FrontIsDrawn
    <2>1. CASE UNCHANGED <<panelVars, viewVars>> /\ shown'.entry.index = panel.index
      <3>1. UNCHANGED <<panel, reads, readResults, view>>
        BY <2>1 DEF panelVars, viewVars
      <3>2. PanelInv' /\ StreamOfFront'
        BY <1>0, <3>1 DEF PanelInv, StreamOfFront
      <3>3. QED
        BY <2>1, <3>1, <3>2 DEF WholeInv, Numbered
    <2>2. CASE ~(UNCHANGED <<panelVars, viewVars>> /\ shown'.entry.index = panel.index)
      <3> DEFINE index == shown'.entry.index
      <3>1. PICK s \in Selections : Ask(WithCapture(index, s))
        BY <1>1, <2>2 DEF FrontIsDrawn
      <3>2. ClearView /\ readResults' = readResults
        BY <1>1, <2>2 DEF FrontIsDrawn
      <3>3. index \in Indexes
        BY DrawnIndex DEF TypeInv, CatalogTypeOK, FrontInv, front
      <3> DEFINE q == WithCapture(index, s)
      <3>4. Consistent(q) /\ q.index = index /\ Moves(panel, q) /\ Ask(q)
        <4> HIDE DEF index
        <4>1. QED
          BY <1>0, <3>1, <3>3, CaptureTrue
      <3> HIDE DEF q, index
      <3>5. PanelInv' /\ panel'.index = index
        BY <1>0, <3>2, <3>4, AskKeeps
      <3>6. QED
        BY <3>2, <3>5, ClearIs DEF WholeInv, Numbered, StreamOfFront, index
    <2>3. QED
      BY <2>1, <2>2
  <1>2. ASSUME NEW s \in Selections, ShowPanel(s) PROVE WholeInv'
    <2> DEFINE b == [panel EXCEPT !.visible = TRUE]
               q == poll(b, FALSE, s)
    <2>1. Ask(q) /\ UNCHANGED <<catalogVars, viewVars, readResults>>
      BY <1>2 DEF ShowPanel
    <2>2. Consistent(b) /\ Same(panel, b)
      BY <1>0, SmallChange
    <2> HIDE DEF b
    <2>3. Consistent(q) /\ q.index = b.index /\ Moves(b, q)
      BY <2>2, PollMoves
    <2> HIDE DEF q
    <2>4. Moves(panel, q) /\ q.index = panel.index
      BY <2>2, <2>3, SameThenMoves DEF Same
    <2>5. QED
      BY <1>0, <1>b, <1>s, <2>1, <2>3, <2>4, AskKeeps
  <1>3. CASE HidePanel
    <2>1. UNCHANGED <<catalogVars, viewVars, reads, readResults>> /\ panel' = [panel EXCEPT !.visible = FALSE]
      BY <1>3 DEF HidePanel
    <2>2. Consistent(panel') /\ Same(panel, panel')
      BY <1>0, <2>1, SmallChange
    <2>3. PanelInv'
      BY <1>0, <2>1, <2>2 DEF PanelInv, ReadsHold, ReadOf, Same
    <2>4. QED
      BY <1>b, <1>s, <2>1, <2>2, <2>3 DEF Same
  <1>4. ASSUME NEW s \in Selections, TimerPolls(s) PROVE WholeInv'
    <2> DEFINE q == poll(panel, FALSE, s)
    <2>1. Ask(q) /\ UNCHANGED <<catalogVars, viewVars, readResults>>
      BY <1>4 DEF TimerPolls
    <2>2. Consistent(q) /\ q.index = panel.index /\ Moves(panel, q)
      BY <1>0, PollMoves
    <2> HIDE DEF q
    <2>3. QED
      BY <1>0, <1>b, <1>s, <2>1, <2>2, AskKeeps
  <1>5. ASSUME NEW s \in Selections, ShowPacketDetails(s) PROVE WholeInv'
    <2> DEFINE q == Refreshed(1, s)
    <2>1. Ask(q) /\ UNCHANGED <<catalogVars, viewVars, readResults>>
      BY <1>5 DEF ShowPacketDetails
    <2>2. Consistent(q) /\ q.index = panel.index /\ Moves(panel, q)
      BY <1>0, RefreshedTrue
    <2> HIDE DEF q
    <2>3. QED
      BY <1>0, <1>b, <1>s, <2>1, <2>2, AskKeeps
  <1>6. CASE FollowButton
    <2>1. UNCHANGED <<catalogVars, reads, readResults>> /\ panel' = [panel EXCEPT !.tab = "Stream"]
          /\ Follow(<<panel.index, panel.selectedPacket>>)
      BY <1>6 DEF FollowButton
    <2>2. Consistent(panel') /\ Same(panel, panel')
      BY <1>0, <2>1, SmallChange
    <2>3. PanelInv'
      BY <1>0, <2>1, <2>2 DEF PanelInv, ReadsHold, ReadOf, Same
    <2>4. view'.stream = <<panel.index, panel.selectedPacket>> /\ "stream" \in DOMAIN view'
      BY <2>1, FollowIs
    <2>5. StreamOfFront' /\ Numbered'
      BY <1>0, <2>1, <2>2, <2>4 DEF StreamOfFront, Numbered, Same, catalogVars
    <2>6. QED
      BY <2>3, <2>5 DEF WholeInv
  <1>7. ASSUME NEW s \in Selections, FollowFromMenu(s) PROVE WholeInv'
    <2> DEFINE p == Refreshed(0, s)
               t == IF CanFollow(p) THEN "Stream" ELSE p.tab
               q == [p EXCEPT !.tab = t]
    <2>1. UNCHANGED <<catalogVars, readResults>>
          /\ IF CanFollow(p) THEN Follow(<<p.index, p.selectedPacket>>) ELSE UNCHANGED viewVars
      BY <1>7 DEF FollowFromMenu
    <2>2. Consistent(p) /\ p.index = panel.index /\ Moves(panel, p)
      BY <1>0, RefreshedTrue
    <2>3. Ask(q)
      BY <1>7, <2>2 DEF FollowFromMenu, Consistent, Whole, PanelRecord
    <2> HIDE DEF p
    <2>4. t \in {"Packet", "Stream"}
      BY <2>2 DEF Consistent, Whole, PanelRecord
    <2> HIDE DEF t
    <2>5. Consistent(q) /\ Same(p, q)
      BY <2>2, <2>4, SmallChange
    <2> HIDE DEF q
    <2>6. PanelInv' /\ panel'.index = panel.index
      <3>1. Moves(panel, q) /\ q.index = panel.index
        BY <2>2, <2>5, MovesThenSame DEF Same
      <3>2. QED
        BY <1>0, <2>1, <2>3, <2>5, <3>1, AskKeeps
    <2>7. CASE CanFollow(p)
      <3>1. view'.stream = <<panel.index, p.selectedPacket>> /\ "stream" \in DOMAIN view'
        BY <2>1, <2>2, <2>7, FollowIs
      <3>2. StreamOfFront' /\ Numbered'
        BY <1>0, <2>1, <2>6, <3>1 DEF StreamOfFront, Numbered, catalogVars
      <3>3. QED
        BY <2>6, <3>2 DEF WholeInv
    <2>8. CASE ~CanFollow(p)
      BY <1>b, <1>s, <2>1, <2>6, <2>8
    <2>9. QED
      BY <2>7, <2>8
  <1>8. ASSUME NEW ok \in BOOLEAN, ReadPacket(ok) PROVE WholeInv'
    <2> DEFINE h == Head(reads)
               good == ok /\ h.generation = panel.generation
               x == [h EXCEPT !.ok = good]
    <2>1. reads # <<>> /\ reads' = Tail(reads) /\ UNCHANGED <<catalogVars, viewVars, panel>>
          /\ readResults' = Append(readResults, x)
      BY <1>8 DEF ReadPacket
    <2>2. h \in Read /\ good \in BOOLEAN
      BY <1>0, <2>1, TailRead DEF PanelInv, ReadsHold
    <2> HIDE DEF h, good
    <2>3. x \in Read /\ x.generation = h.generation /\ x.number = h.number /\ x.cursor = h.cursor
      BY <2>2 DEF Read
    <2> HIDE DEF x
    <2>4. ReadsHold(panel, reads', readResults')
      BY <1>0, <2>1, <2>3, ReadDone DEF PanelInv, h
    <2>5. PanelInv'
      BY <1>0, <2>1, <2>4 DEF PanelInv
    <2>6. QED
      BY <1>b, <1>s, <2>1, <2>5
  <1>9. CASE ReadEnds
    <2> DEFINE r == Head(readResults)
    <2>1. readResults # <<>> /\ readResults' = Tail(readResults) /\ UNCHANGED <<catalogVars, viewVars, reads>>
      BY <1>9 DEF ReadEnds
    <2>2. r \in Read /\ ReadOf(panel, r)
      BY <1>0, <2>1, TailRead DEF PanelInv, ReadsHold
    <2>3. CASE r.generation # panel.generation
      <3>1. panel' = panel
        BY <1>9, <2>3 DEF ReadEnds
      <3>2. ReadsHold(panel, reads', readResults')
        BY <1>0, <2>1, <2>3, ReadTold DEF PanelInv
      <3>3. PanelInv'
        BY <1>0, <3>1, <3>2 DEF PanelInv
      <3>4. QED
        BY <1>b, <1>s, <2>1, <3>1, <3>3
    <2>4. CASE r.generation = panel.generation
      <3> DEFINE u == [panel EXCEPT !.reading = FALSE, !.shownPacket = r.number, !.shownFrom = r.cursor,
                                    !.status = "shown"]
                 b == [panel EXCEPT !.reading = FALSE]
                 v == showReason(b, "read failed")
      <3>1. panel' \in {[u EXCEPT !.waiting = 0], [v EXCEPT !.waiting = 0]}
        BY <1>9, <2>4 DEF ReadEnds, settled
      <3>2. panel.reading /\ r.number = panel.selectedPacket /\ r.cursor = panel.index
            /\ r.number \in Nat /\ r.cursor \in Indexes
        BY <2>2, <2>4 DEF ReadOf, Read
      <3> HIDE DEF r
      <3>3. Consistent(u) /\ u.generation = panel.generation /\ ~u.reading /\ u.queued = <<>> /\ u.index = panel.index
        <4>1. "shown" \in Statuses
          BY DEF Statuses
        <4>2. /\ u \in PanelRecord /\ u.generation = panel.generation /\ u.reading = FALSE
              /\ u.queued = <<>> /\ u.index = panel.index /\ u.cursor = panel.cursor
              /\ u.shownPacket = r.number /\ u.shownFrom = r.cursor
              /\ u.last = panel.last /\ u.selected = panel.selected
              /\ u.selectedPacket = panel.selectedPacket
              /\ u.followEnabled = panel.followEnabled /\ u.linesEnabled = panel.linesEnabled
          BY <1>0, <3>2, <4>1 DEF PanelRecord
        <4> HIDE DEF u
        <4>3. CanFollow(u) = CanFollow(panel) /\ CanFilter(u) = CanFilter(panel)
          BY <4>2 DEF CanFollow, CanFilter
        <4>4. QED
          BY <1>0, <3>2, <4>2, <4>3 DEF Consistent, Whole
      <3>4. Whole(b) /\ b.generation = panel.generation /\ b.reading = FALSE /\ b.queued = <<>>
            /\ b.index = panel.index
        BY <1>0 DEF PanelRecord, Consistent, Whole
      <3> HIDE DEF b
      <3>5. Consistent(v) /\ v.generation = panel.generation /\ ~v.reading /\ v.queued = <<>> /\ v.index = panel.index
        BY <3>4, ReasonTrue DEF ReadsNone, Statuses
      <3> HIDE DEF u, v
      <3>6. /\ Consistent(panel') /\ panel'.generation = panel.generation /\ ~panel'.reading
            /\ panel'.queued = <<>> /\ panel'.index = panel.index
        <4>1. ASSUME NEW w, Consistent(w), w.generation = panel.generation, ~w.reading, w.queued = <<>>,
                     w.index = panel.index, panel' = [w EXCEPT !.waiting = 0]
              PROVE  /\ Consistent(panel') /\ panel'.generation = panel.generation /\ ~panel'.reading
                     /\ panel'.queued = <<>> /\ panel'.index = panel.index
          <5>1. 0 \in Nat
            OBVIOUS
          <5>2. Consistent([w EXCEPT !.waiting = 0]) /\ Same(w, [w EXCEPT !.waiting = 0])
            BY <4>1, <5>1, SmallChange
          <5>3. Consistent(panel') /\ Same(w, panel')
            BY <4>1, <5>2
          <5>4. QED
            BY <4>1, <5>3 DEF Same
        <4>2. QED
          BY <3>1, <3>3, <3>5, <4>1
      <3>7. ReadsHold(panel', reads', readResults')
        BY <1>0, <2>1, <2>4, <3>6, ReadTold DEF PanelInv, r
      <3>8. PanelInv'
        BY <3>6, <3>7 DEF PanelInv
      <3>9. QED
        BY <1>b, <1>s, <2>1, <3>6, <3>8
    <2>5. QED
      BY <2>3, <2>4
  <1>10. CASE TabNext /\ UNCHANGED <<catalogVars, panelVars>>
    BY <1>0, <1>a, <1>10, TabKeepsStream
  <1>11. CASE UNCHANGED allPanelVars
    BY <1>a, <1>s, <1>11 DEF allPanelVars
  <1>12. QED
    BY <1>1, <1>2, <1>3, <1>4, <1>5, <1>6, <1>7, <1>8, <1>9, <1>10, <1>11 DEF PanelNext

\* It holds as the panel is made.
LEMMA PanelStarts ==
    ASSUME CatalogInit, PanelInit, ViewInit
    PROVE  WholeInv
  <1>1. panel \in PanelRecord
    <2>1. <<>> \in Seq(Read) /\ NoPacket \in PacketOf
      BY DEF NoPacket, PacketOf
    <2>2. QED
      BY <2>1, NoIndexIs DEF PanelInit, PanelRecord, Statuses
  <1>2. Consistent(panel) /\ panel.queued = <<>> /\ ~panel.reading /\ panel.index = NoIndex
    BY <1>1 DEF PanelInit, Consistent, Whole, CanFollow, CanFilter
  <1>3. reads = <<>> /\ readResults = <<>>
    BY DEF PanelInit
  <1>4. ReadsHold(panel, reads, readResults)
    <2>1. <<>> \in Seq(Read) /\ DOMAIN <<>> = {}
      OBVIOUS
    <2>2. QED
      BY <1>2, <1>3, <2>1 DEF ReadsHold
  <1>5. Numbered
    BY <1>2 DEF Numbered, CatalogInit, NoEntry
  <1>6. StreamOfFront
    BY DEF StreamOfFront, ViewInit, NoStream
  <1>7. QED
    BY <1>2, <1>4, <1>5, <1>6 DEF WholeInv, PanelInv

\* It says what is to be shown.
LEMMA PanelShows == TypeInv /\ HintInv /\ LiveInv /\ FrontInv /\ WholeInv => PanelShowsTheFront
  <1> SUFFICES ASSUME TypeInv, HintInv, LiveInv, FrontInv, WholeInv PROVE PanelShowsTheFront
    OBVIOUS
  <1>1. Consistent(panel) /\ panel \in PanelRecord /\ ReadsHold(panel, reads, readResults)
    BY DEF WholeInv, PanelInv, Consistent, Whole
  <1>2. PanelTypeOK
    BY <1>1 DEF PanelRecord, PanelTypeOK
  <1>3. DrawnIsTheFront
    BY OneHint DEF LiveInv, FrontInv, DrawnIsTheFront
  <1>4. PanelIsOfTheFront
    <2>1. panel.index = front.entry.index
      BY DEF WholeInv, Numbered, FrontInv
    <2>2. panel.reading =>
            \E r \in ToSet(reads) \cup ToSet(readResults) :
                r.generation = panel.generation /\ r.number = panel.selectedPacket /\ r.cursor = panel.index
      <3>1. SUFFICES ASSUME panel.reading
                     PROVE  \E r \in ToSet(reads) \cup ToSet(readResults) :
                                r.generation = panel.generation /\ r.number = panel.selectedPacket
                                /\ r.cursor = panel.index
        OBVIOUS
      <3>2. CASE \E i \in DOMAIN reads : reads[i].generation = panel.generation
        BY <1>1, <3>2 DEF ReadsHold, ReadOf, ToSet
      <3>3. CASE \E i \in DOMAIN readResults : readResults[i].generation = panel.generation
        BY <1>1, <3>3 DEF ReadsHold, ReadOf, ToSet
      <3>4. QED
        BY <1>1, <3>1, <3>2, <3>3 DEF ReadsHold
    <2>3. QED
      BY <1>1, <2>1, <2>2 DEF PanelIsOfTheFront, Consistent, WholeInv, StreamOfFront
  <1>5. ButtonsAreTrue
    BY <1>1 DEF ButtonsAreTrue, Consistent
  <1>6. QED
    BY <1>2, <1>3, <1>4, <1>5 DEF PanelShowsTheFront, TypeInv

\* For any selections, captures and contents: the panel is of the capture of the tab in
\* front, shows or reads its selected packet and no other, its buttons tell whether that
\* can be followed or filtered on, and the stream followed is of that capture, however
\* reads, polls and tabs overtake each other (PacketPanel, SidebarWidget::showFront).
THEOREM PanelShowsWhatIsInFront == PanelSpec => []PanelShowsTheFront
  <1>1. [PanelNext \/ (TabNext /\ UNCHANGED <<catalogVars, panelVars>>)]_allPanelVars => [CatalogNext]_catalogVars
    BY DEF PanelNext, FrontIsDrawn, ShowPanel, HidePanel, TimerPolls, ShowPacketDetails,
       FollowButton,
           FollowFromMenu, ReadPacket, ReadEnds, allPanelVars
  <1>2. TypeInv /\ FrontInv /\ WholeInv /\ TypeInv' /\ FrontInv'
        /\ [PanelNext \/ (TabNext /\ UNCHANGED <<catalogVars, panelVars>>)]_allPanelVars => WholeInv'
    BY PanelStep
  <1>3. CatalogInit /\ PanelInit /\ ViewInit => WholeInv
    BY PanelStarts
  <1>4. QED
    BY <1>1, <1>2, <1>3, CatalogStarts, TypeStep, HintStep, LiveStep, FrontStep, PanelShows,
       PTL DEF PanelSpec

\* The panel leaves the Stream tab alone, clears it, or has it follow a stream there is.
LEMMA PanelMovesTab ==
    ASSUME WholeInv, PanelNext \/ UNCHANGED allPanelVars
    PROVE  \/ ClearView \/ UNCHANGED viewVars
           \/ \E stream \in Streams \ {None} : Follow(stream)
  <1>0. Consistent(panel)
    BY DEF WholeInv, PanelInv
  <1>1. CASE FrontIsDrawn
    BY <1>1 DEF FrontIsDrawn
  <1>2. CASE FollowButton
    <2>1. Follow(<<panel.index, panel.selectedPacket>>) /\ CanFollow(panel)
      BY <1>2 DEF FollowButton
    <2>2. QED
      BY <1>0, <2>1, StreamIs
  <1>3. ASSUME NEW s \in Selections, FollowFromMenu(s)
        PROVE  UNCHANGED viewVars \/ \E stream \in Streams \ {None} : Follow(stream)
    <2> DEFINE p == Refreshed(0, s)
    <2>1. IF CanFollow(p) THEN Follow(<<p.index, p.selectedPacket>>) ELSE UNCHANGED viewVars
      BY <1>3 DEF FollowFromMenu
    <2>2. Consistent(p)
      BY <1>0, RefreshedTrue
    <2> HIDE DEF p
    <2>3. QED
      BY <2>1, <2>2, StreamIs
  <1>4. CASE \/ HidePanel \/ ReadEnds \/ UNCHANGED allPanelVars
             \/ \E s \in Selections : ShowPanel(s) \/ TimerPolls(s) \/ ShowPacketDetails(s)
             \/ \E ok \in BOOLEAN : ReadPacket(ok)
    BY <1>4 DEF HidePanel, ReadEnds, ShowPanel, TimerPolls, ShowPacketDetails, ReadPacket, allPanelVars
  <1>5. QED
    BY <1>1, <1>2, <1>3, <1>4 DEF PanelNext

\* For any streams, budgets and choices: the Stream tab holds the stream it follows from
\* its start up to its reader, each packet once and none of a stream followed before,
\* shows it as chosen while no task runs, is busy exactly while a task of its own is under
\* way, every other was cancelled, and a file exported to and finished has the whole
\* stream, however reads and exports are cancelled, fail, go on and are told of late
\* (StreamContentView::follow(), showMore(), finishRead(), exportTo() and rerender()).
THEOREM TabShowsWhatIsFollowed == PanelSpec => []TabShowsTheStream
  <1> DEFINE Moved == [PanelNext \/ (TabNext /\ UNCHANGED <<catalogVars, panelVars>>)]_allPanelVars
  <1>1. Moved => [CatalogNext]_catalogVars
    BY DEF PanelNext, FrontIsDrawn, ShowPanel, HidePanel, TimerPolls, ShowPacketDetails,
       FollowButton, FollowFromMenu, ReadPacket, ReadEnds, allPanelVars
  <1>2. TypeInv /\ FrontInv /\ WholeInv /\ TypeInv' /\ FrontInv' /\ Moved => WholeInv'
    BY PanelStep
  <1>3. WholeInv /\ TabInv /\ Moved => TabInv'
    <2>1. WholeInv /\ Moved => TabNext \/ ClearView \/ UNCHANGED viewVars
                              \/ \E stream \in Streams \ {None} : Follow(stream)
      BY PanelMovesTab
    <2> HIDE DEF Moved
    <2>2. QED
      BY <2>1, TabStep
  <1>4. CatalogInit /\ PanelInit /\ ViewInit => WholeInv /\ TabInv
    BY PanelStarts, TabStarts
  <1>5. QED
    BY <1>1, <1>2, <1>3, <1>4, CatalogStarts, TypeStep, HintStep, LiveStep, FrontStep, TabShows,
       PTL DEF PanelSpec

-----------------------------------------------------------------------------
(* The Conversations table.                                                *)

\* One of two rows sorts ahead of the other, and no row of itself.
LEMMA RowsAreOrdered ==
    ASSUME NEW rows, Distinct(rows), NEW column \in Columns, NEW down \in BOOLEAN,
           NEW a \in ToSet(rows), NEW b \in ToSet(rows)
    PROVE  /\ a \notin Ahead(a, rows, column, down)
           /\ a # b => a \in Ahead(b, rows, column, down) \/ b \in Ahead(a, rows, column, down)
           /\ a \in Ahead(b, rows, column, down)
                => Ahead(a, rows, column, down) \subseteq Ahead(b, rows, column, down)
  <1>1. \A r \in ToSet(rows) : r.id \in Nat /\ (column # "stream" => r[column] \in Nat)
    BY DEF Distinct, ToSet
  <1>2. a # b => a.id # b.id
    BY DEF Distinct, ToSet
  <1>3. a \notin Ahead(a, rows, column, down)
    BY <1>1 DEF Ahead, before
  <1>4. a # b => a \in Ahead(b, rows, column, down) \/ b \in Ahead(a, rows, column, down)
    BY <1>1, <1>2 DEF Ahead, before
  <1>5. ASSUME a \in Ahead(b, rows, column, down), NEW r \in Ahead(a, rows, column, down)
        PROVE  r \in Ahead(b, rows, column, down)
    <2>1. r \in ToSet(rows)
      BY <1>5 DEF Ahead
    <2>2. CASE down
      BY <1>1, <1>5, <2>1, <2>2 DEF Ahead, before
    <2>3. CASE ~down
      BY <1>1, <1>5, <2>1, <2>3 DEF Ahead, before
    <2>4. QED
      BY <2>2, <2>3
  <1>6. QED
    BY <1>3, <1>4, <1>5

\* There are as many rows as places.
LEMMA RowsAreCounted ==
    ASSUME NEW rows, Distinct(rows)
    PROVE  IsFiniteSet(ToSet(rows)) /\ Cardinality(ToSet(rows)) = Len(rows) /\ Len(rows) \in Nat
  <1>1. Len(rows) \in Nat /\ DOMAIN rows = 1..Len(rows)
    BY DEF Distinct
  <1>2. rows \in Bijection(1..Len(rows), ToSet(rows))
    <2>1. rows \in [1..Len(rows) -> ToSet(rows)]
      BY <1>1 DEF Distinct
    <2>2. \A x, y \in 1..Len(rows) : rows[x] = rows[y] => x = y
      BY <1>1 DEF Distinct
    <2>3. \A r \in ToSet(rows) : \E x \in 1..Len(rows) : rows[x] = r
      BY <1>1 DEF ToSet
    <2>4. QED
      BY <2>1, <2>2, <2>3 DEF Bijection, Injection, Surjection, IsInjective
  <1>3. ExistsBijection(1..Len(rows), ToSet(rows))
    BY <1>2 DEF ExistsBijection
  <1>4. QED
    BY <1>1, <1>3, FS_NatBijection, FS_CountingElements

\* Each place is that of one row.
LEMMA RowsHaveAPlace ==
    ASSUME NEW rows, Distinct(rows), NEW column \in Columns, NEW down \in BOOLEAN
    PROVE  LET place(r) == Cardinality(Ahead(r, rows, column, down))
           IN  /\ \A r \in ToSet(rows) : place(r) \in 0..(Len(rows) - 1)
               /\ \A a, b \in ToSet(rows) : place(a) = place(b) => a = b
               /\ \A i \in 1..Len(rows) : \E r \in ToSet(rows) : place(r) = i - 1
  <1> DEFINE S == ToSet(rows)
             n == Len(rows)
             A(r) == Ahead(r, rows, column, down)
             f == [r \in S |-> Cardinality(A(r))]
  <1>0. IsFiniteSet(S) /\ Cardinality(S) = n /\ n \in Nat
    BY RowsAreCounted
  <1>1. \A r \in S : A(r) \in SUBSET S
    BY DEF Ahead
  <1>2. \A a, b \in S :
            /\ a \notin A(a)
            /\ a # b => a \in A(b) \/ b \in A(a)
            /\ a \in A(b) => A(a) \subseteq A(b)
    BY RowsAreOrdered
  <1> HIDE DEF S, n, A
  <1>3. ASSUME NEW r \in S PROVE IsFiniteSet(A(r)) /\ Cardinality(A(r)) \in 0..(n - 1)
    <2>1. IsFiniteSet(A(r)) /\ Cardinality(A(r)) <= n /\ (Cardinality(S) = Cardinality(A(r)) => S = A(r))
      BY <1>0, <1>1, FS_Subset
    <2>2. Cardinality(A(r)) \in Nat
      BY <2>1, FS_CardinalityType
    <2>3. Cardinality(A(r)) # n
      BY <1>0, <1>2, <2>1
    <2>4. QED
      BY <1>0, <2>1, <2>2, <2>3
  <1>4. ASSUME NEW a \in S, NEW b \in S, a \in A(b) PROVE Cardinality(A(a)) # Cardinality(A(b))
    <2>1. A(a) \in SUBSET A(b) /\ A(a) # A(b)
      BY <1>2, <1>4
    <2>2. QED
      BY <1>3, <2>1, FS_Subset
  <1>5. \A a, b \in S : f[a] = f[b] => a = b
    BY <1>2, <1>4
  <1>6. f \in [S -> 0..(n - 1)]
    BY <1>3
  <1>7. f \in Injection(S, 0..(n - 1))
    BY <1>5, <1>6 DEF Injection, IsInjective
  <1>8. IsFiniteSet(0..(n - 1)) /\ Cardinality(0..(n - 1)) = n
    <2>1. 0 \in Int /\ n - 1 \in Int
      BY <1>0
    <2>2. IsFiniteSet(0..(n - 1)) /\ Cardinality(0..(n - 1)) = IF 0 > n - 1 THEN 0 ELSE (n - 1) - 0 + 1
      BY <2>1, FS_Interval
    <2>3. QED
      BY <1>0, <2>2
  <1>9. f \in Surjection(S, 0..(n - 1))
    BY <1>0, <1>7, <1>8, FS_Injection
  <1>10. \A i \in 1..n : \E r \in S : f[r] = i - 1
    <2> TAKE i \in 1..n
    <2>1. i - 1 \in 0..(n - 1)
      BY <1>0
    <2>2. QED
      BY <2>1, <1>9 DEF Surjection
  <1>11. /\ \A r \in S : Cardinality(A(r)) \in 0..(n - 1)
         /\ \A a, b \in S : Cardinality(A(a)) = Cardinality(A(b)) => a = b
         /\ \A i \in 1..n : \E r \in S : Cardinality(A(r)) = i - 1
    BY <1>3, <1>5, <1>10
  <1>12. QED
    BY <1>11 DEF S, n, A

\* Rows that are sorted are the same rows, each of them once.
LEMMA SortedKeeps ==
    ASSUME NEW rows, Distinct(rows), NEW column \in Columns, NEW down \in BOOLEAN
    PROVE  LET o == Sorted(rows, column, down)
           IN  /\ ToSet(o) = ToSet(rows) /\ Len(o) = Len(rows)
               /\ Distinct(o)
  <1> DEFINE S == ToSet(rows)
             n == Len(rows)
             place(r) == Cardinality(Ahead(r, rows, column, down))
             o == [i \in 1..n |-> CHOOSE r \in S : place(r) = i - 1]
  <1>0. n \in Nat
    BY RowsAreCounted
  <1>1. /\ \A r \in S : place(r) \in 0..(n - 1)
        /\ \A a, b \in S : place(a) = place(b) => a = b
        /\ \A i \in 1..n : \E r \in S : place(r) = i - 1
    BY RowsHaveAPlace
  <1>2. Sorted(rows, column, down) = o
    BY DEF Sorted
  <1>3. /\ \A r \in S : r.id \in Nat \ {0} /\ \A c \in Columns \ {"stream"} : r[c] \in Nat
        /\ \A a, b \in S : a.id = b.id => a = b
    BY DEF Distinct, ToSet
  <1> HIDE DEF S, n, place
  <1>4. \A i \in 1..n : o[i] \in S /\ place(o[i]) = i - 1
    BY <1>1
  <1>5. DOMAIN o = 1..n
    OBVIOUS
  <1> HIDE DEF o
  <1>6. ToSet(o) = S
    <2>1. ASSUME NEW r \in S PROVE r \in ToSet(o)
      <3>1. place(r) + 1 \in 1..n
        BY <1>0, <1>1
      <3>2. place(o[place(r) + 1]) = place(r) /\ o[place(r) + 1] \in S
        BY <1>0, <1>1, <1>4, <3>1
      <3>3. QED
        BY <1>1, <1>5, <3>1, <3>2 DEF ToSet
    <2>2. QED
      BY <1>4, <1>5, <2>1 DEF ToSet
  <1>7. o \in Seq(ToSet(o)) /\ Len(o) = n
    <2>1. o \in [1..n -> S]
      BY <1>2, <1>4, <1>5 DEF o
    <2>2. o \in Seq(S)
      BY <1>0, <2>1, <1>5
    <2>3. QED
      BY <1>0, <1>5, <1>6, <2>2
  <1>8. \A i, j \in 1..n : o[i].id = o[j].id => i = j
    BY <1>0, <1>3, <1>4
  <1>9. Distinct(o)
    BY <1>3, <1>4, <1>5, <1>7, <1>8 DEF Distinct
  <1>10. QED
    BY <1>2, <1>6, <1>7, <1>9 DEF S, n

\* The inductive invariant: the rows are the snapshot's, each once, so that a conversation
\* is in one row at most and selecting that row is selecting it.
TableInv ==
    /\ TableTypeOK /\ SelectedIsPicked /\ TableIsTheSnapshot
    /\ Distinct(order)

\* No rows are rows, too.
LEMMA SnapshotsAreRows ==
    ASSUME NEW s \in Snapshots \cup {NoSnapshot}
    PROVE  Distinct(s.rows)
  <1>1. Distinct(<<>>)
    BY DEF Distinct, ToSet
  <1>2. QED
    BY <1>1, TableAssumption DEF NoSnapshot

\* The row of a conversation.
LEMMA RowOfIs ==
    ASSUME NEW rows, Distinct(rows), NEW id
    PROVE  LET row == rowOf(rows, id)
           IN  /\ row \in 0..Len(rows)
               /\ (\E r \in ToSet(rows) : r.id = id) => row \in 1..Len(rows) /\ rows[row].id = id
               /\ ~(\E r \in ToSet(rows) : r.id = id) => row = 0
  <1>1. Len(rows) \in Nat /\ DOMAIN rows = 1..Len(rows)
    BY DEF Distinct
  <1>2. (\E r \in ToSet(rows) : r.id = id) <=> \E i \in DOMAIN rows : rows[i].id = id
    BY DEF ToSet
  <1>3. (\E i \in DOMAIN rows : rows[i].id = id) =>
            rowOf(rows, id) \in DOMAIN rows /\ rows[rowOf(rows, id)].id = id
    BY DEF rowOf
  <1>4. ~(\E i \in DOMAIN rows : rows[i].id = id) => rowOf(rows, id) = 0
    BY DEF rowOf
  <1>5. QED
    BY <1>1, <1>2, <1>3, <1>4

\* A sort keeps the invariant.
LEMMA SortKeeps ==
    ASSUME TableInv, NEW column \in Columns, NEW down \in BOOLEAN, Sort(column, down)
    PROVE  TableInv'
  <1> DEFINE id == conversationAt(current)
  <1>1. /\ ToSet(order') = ToSet(order) /\ Len(order') = Len(order) /\ Distinct(order')
    BY SortedKeeps DEF TableInv, Sort
  <1>2. RowCount' = RowCount /\ RowCount \in Nat /\ Len(order) \in Nat /\ Len(order) <= RowCount
    BY <1>1 DEF Sort, RowCount, TableInv, Distinct
  <1>3. DOMAIN order = 1..Len(order) /\ DOMAIN order' = 1..Len(order)
    BY <1>1 DEF TableInv, Distinct
  <1>4. current' \in 0..RowCount' /\ SelectedIsPicked'
    <2>1. CASE id # 0
      <3>1. id = order[current].id /\ current \in DOMAIN order
        BY <2>1 DEF conversationAt
      <3>2. \E r \in ToSet(order') : r.id = id
        BY <1>1, <3>1 DEF ToSet
      <3>3. current' \in 1..Len(order) /\ order'[current'].id = id
        BY <1>1, <2>1, <3>2, RowOfIs DEF Sort
      <3>4. QED
        BY <1>2, <1>3, <3>3 DEF SelectedIsPicked, conversationAt, TableInv, Sort
    <2>2. CASE id = 0
      <3>1. current \notin DOMAIN order
        BY <2>2 DEF TableInv, Distinct, conversationAt
      <3>2. current' = current
        BY <2>2 DEF Sort
      <3>3. QED
        BY <1>2, <1>3, <2>2, <3>1, <3>2 DEF SelectedIsPicked, conversationAt, TableInv, Sort, TableTypeOK
    <2>3. QED
      BY <2>1, <2>2
  <1>5. QED
    BY <1>1, <1>4 DEF TableInv, TableTypeOK, TableIsTheSnapshot, Sort

\* A summary keeps the invariant.
LEMMA SummaryKeeps ==
    ASSUME TableInv, NEW s \in Snapshots \cup {NoSnapshot}, setSummary(s)
    PROVE  TableInv'
  <1> DEFINE id == conversationAt(current)
  <1>1. ToSet(order') = ToSet(s.rows) /\ Len(order') = Len(s.rows) /\ Distinct(order')
    BY SortedKeeps, SnapshotsAreRows DEF TableInv, TableTypeOK, setSummary, setConversations
  <1>2. Len(order') \in Nat /\ DOMAIN order' = 1..Len(order')
    BY <1>1 DEF Distinct
  <1>3. \A r \in ToSet(order') : r.id # 0
    BY <1>1 DEF Distinct, ToSet
  <1>4. id = picked /\ current' = rowOf(order', id)
    BY DEF TableInv, SelectedIsPicked, setSummary
  <1>5. (\E r \in ToSet(order') : r.id = picked) <=> \E i \in DOMAIN s.rows : s.rows[i].id = picked
    BY <1>1 DEF ToSet
  <1>6. current' \in 0..Len(order') /\ SelectedIsPicked'
    <2>1. CASE \E r \in ToSet(order') : r.id = picked
      <3>1. current' \in 1..Len(order') /\ order'[current'].id = picked
        BY <1>1, <1>4, <2>1, RowOfIs
      <3>2. picked' = picked
        BY <1>5, <2>1 DEF setSummary
      <3>3. QED
        BY <1>2, <3>1, <3>2 DEF SelectedIsPicked, conversationAt
    <2>2. CASE ~ \E r \in ToSet(order') : r.id = picked
      <3>1. current' = 0
        BY <1>1, <1>4, <2>2, RowOfIs
      <3>2. picked' = 0
        BY <1>5, <2>2 DEF setSummary
      <3>3. QED
        BY <1>2, <3>1, <3>2 DEF SelectedIsPicked, conversationAt
    <2>3. QED
      BY <2>1, <2>2
  <1>7. current' \in 0..RowCount'
    BY <1>2, <1>6 DEF RowCount
  <1>8. snapshot' = s
    BY DEF setSummary, setConversations
  <1>9. QED
    BY <1>1, <1>6, <1>7, <1>8 DEF TableInv, TableTypeOK, TableIsTheSnapshot, setSummary

\* A row selected, and a column shown or hidden, keep the invariant.
LEMMA RowAndColumnKeep ==
    ASSUME TableInv, \/ \E row \in 1..RowCount : Select(row)
                     \/ \E c \in Columns : showColumn(c)
                     \/ UNCHANGED tableVars
    PROVE  TableInv'
  <1>1. ASSUME NEW row \in 1..RowCount, Select(row) PROVE TableInv'
    <2>1. RowCount' = RowCount /\ RowCount \in Nat
      BY <1>1 DEF Select, RowCount, TableInv, Distinct
    <2>2. current' \in 0..RowCount'
      BY <1>1, <2>1 DEF Select
    <2>3. SelectedIsPicked'
      BY <1>1 DEF Select, SelectedIsPicked, conversationAt
    <2>4. QED
      BY <1>1, <2>2, <2>3 DEF Select, TableInv, TableTypeOK, TableIsTheSnapshot, Distinct
  <1>2. ASSUME NEW c \in Columns, showColumn(c) PROVE TableInv'
    <2>1. hidden' \subseteq Columns /\ saved' \subseteq Columns
      BY <1>2 DEF showColumn, TableInv, TableTypeOK
    <2>2. hidden' # Columns
      <3>1. CASE c \in hidden
        BY <1>2, <3>1 DEF showColumn
      <3>2. ASSUME c \notin hidden, hidden' = Columns PROVE FALSE
        <4>1. Columns \ hidden = {c}
          BY <1>2, <3>2 DEF showColumn
        <4>2. Cardinality(Columns \ hidden) = 1
          BY <4>1, FS_Singleton
        <4>3. QED
          BY <1>2, <3>2, <4>2 DEF showColumn, CanToggle
      <3>3. QED
        BY <3>1, <3>2
    <2>3. UNCHANGED <<snapshot, order, sortColumn, descending, current, picked>>
      BY <1>2 DEF showColumn
    <2>4. QED
      BY <2>1, <2>2, <2>3 DEF TableInv, TableTypeOK, TableIsTheSnapshot, SelectedIsPicked, conversationAt,
         RowCount, Distinct
  <1>3. CASE UNCHANGED tableVars
    BY <1>3 DEF tableVars, TableInv, TableTypeOK, TableIsTheSnapshot, SelectedIsPicked, conversationAt,
       RowCount, Distinct
  <1>4. QED
    BY <1>1, <1>2, <1>3

\* The table starts without rows.
LEMMA TableStarts == TableInit => TableInv
  <1> SUFFICES ASSUME TableInit PROVE TableInv
    OBVIOUS
  <1>1. Distinct(order) /\ Len(order) = 0 /\ DOMAIN order = {}
    BY DEF TableInit, Distinct, ToSet
  <1>2. hidden \subseteq Columns /\ hidden # Columns
    BY TableAssumption DEF TableInit
  <1>3. SelectedIsPicked
    BY <1>1 DEF TableInit, SelectedIsPicked, conversationAt
  <1>4. 0 \in 0..RowCount
    BY <1>1 DEF RowCount
  <1>5. QED
    BY <1>1, <1>2, <1>3, <1>4, TableAssumption
    DEF TableInit, TableInv, TableTypeOK, TableIsTheSnapshot, NoSnapshot

\* For any summaries and columns: whatever is sorted, replaced, selected and hidden, in
\* whatever order, the table shows each conversation of the latest summary once, the row
\* selected is that of the conversation the user selected as long as there is one, and at
\* least one column is shown (ConversationModel::sort(), ConversationTable::setSummary()
\* and updateColumnEntries()).
THEOREM TableShowsTheSummary == TableSpec => []TableShowsTheSnapshot
  <1>1. TableInv /\ [TableNext]_tableVars => TableInv'
    BY SortKeeps, SummaryKeeps, RowAndColumnKeep DEF TableNext
  <1>2. TableInv => TableShowsTheSnapshot
    BY DEF TableInv, TableShowsTheSnapshot
  <1>3. QED
    BY <1>1, <1>2, TableStarts, PTL DEF TableSpec

=============================================================================
