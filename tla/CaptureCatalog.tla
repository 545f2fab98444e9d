---------------------------- MODULE CaptureCatalog ----------------------------
(***************************************************************************)
(* The Capture Catalog (capture_catalog.cpp): what the tab of a text file  *)
(* shows of its capture, which tab is in front and which are live, and     *)
(* when the sidebar is told to draw the front anew (SidebarWidget's        *)
(* showFront).                                                             *)
(*                                                                         *)
(* A text file is known by its key (fileKey()), so that two spellings of a *)
(* path are one.  A CaptureIndex is known by its file and a number: every  *)
(* snapshot of a live capture has one of its own.                          *)
(***************************************************************************)
EXTENDS Integers, Sequences, FiniteSets, SequencesExt, FiniteSetsExt

CONSTANTS
    LiveFiles,   \* the text files of live captures
    Converted,   \* the text files of capture files converted
    Foreign,     \* other files, and the tab without one
    MaxUpdates,  \* bound: the entries kept and changed
    MaxFronts    \* bound: the tabs that come to the front

Kept == LiveFiles \cup Converted
Keys == Kept \cup Foreign
NoIndex == [file |-> "", number |-> 0]
NoEntry == [index |-> NoIndex, summary |-> 0, error |-> FALSE, raw |-> FALSE, withFormatHint |-> FALSE]

ASSUME CatalogAssumption ==
    /\ LiveFiles \cap Converted = {} /\ Foreign \cap (LiveFiles \cup Converted) = {}
    /\ Foreign # {} /\ MaxUpdates \in Nat /\ MaxFronts \in Nat

VARIABLES
    entries,         \* entries_: of every key, NoEntry for one that is not kept
    frontKey,        \* frontKey_
    liveKeys,        \* liveKeys_
    capturing,       \* capturing_
    formatHintShown, \* formatHintShown_
    shown,           \* what the sidebar drew of the front: its entry, and that it captures
    updates, fronts  \* bounds

catalogVars == <<entries, frontKey, liveKeys, capturing, formatHintShown, shown, updates, fronts>>

Indexes == {NoIndex} \cup [file : Kept, number : 1..MaxUpdates]
Entry == [index : Indexes, summary : 0..MaxUpdates, error : BOOLEAN, raw : BOOLEAN, withFormatHint : BOOLEAN]

CatalogTypeOK ==
    /\ entries \in [Kept -> Entry]
    /\ frontKey \in Keys /\ liveKeys \subseteq LiveFiles
    /\ capturing \in BOOLEAN /\ formatHintShown \in BOOLEAN

isKept(key) == key \in Kept /\ entries[key] # NoEntry

\* front(): what the tab in front shows, once entries, frontKey and liveKeys are these.
Drawn(all, key, live, runs) ==
    [entry |-> IF key \in Kept THEN all[key] ELSE NoEntry, capturing |-> runs /\ key \in live]
front == Drawn(entries, frontKey, liveKeys, capturing)

\* announceFront(): the observer draws the front, after the change.
Announce(is) ==
    shown' = IF is THEN Drawn(entries', frontKey', liveKeys', capturing') ELSE shown

CatalogInit ==
    /\ entries = [k \in Kept |-> NoEntry] /\ frontKey \in Foreign /\ liveKeys = {}
    /\ capturing = FALSE /\ formatHintShown = FALSE
    /\ shown = [entry |-> NoEntry, capturing |-> FALSE]
    /\ updates = 0 /\ fronts = 0

Changed == updates < MaxUpdates /\ updates' = updates + 1 /\ UNCHANGED fronts

\* keep(): the first entry of the load has the Log Format hint.
Keep(key, entry) ==
    /\ entries' = [entries EXCEPT ![key] = [entry EXCEPT !.withFormatHint = ~formatHintShown]]
    /\ formatHintShown' = TRUE
    /\ Changed

\* convertedEntry(), by openConverted() or keepConverted(): written in full already.
KeepConverted(key) ==
    /\ Keep(key, [NoEntry EXCEPT !.index = [file |-> key, number |-> updates + 1], !.summary = updates + 1])
    /\ UNCHANGED <<frontKey, liveKeys, capturing>>
    /\ Announce(key = frontKey)

startLive ==
    /\ ~capturing
    /\ liveKeys' = {} /\ capturing' = TRUE /\ Changed
    /\ UNCHANGED <<entries, frontKey, formatHintShown, shown>>

\* The text file is live before its entry is kept, and that before its tab opens.
openLiveFile(key) ==
    /\ capturing /\ key \notin liveKeys
    /\ liveKeys' = liveKeys \cup {key}
    /\ Keep(key, [NoEntry EXCEPT !.raw = TRUE])
    /\ UNCHANGED <<frontKey, capturing>>
    /\ Announce(key = frontKey)

\* updateFile(): with a snapshot's index, or the one the entry has.
updateFile(key, withIndex) ==
    /\ capturing /\ key \in liveKeys
    /\ entries' = IF isKept(key)
                  THEN [entries EXCEPT ![key].summary = updates + 1,
                                       ![key].index = IF withIndex THEN [file |-> key, number |-> updates + 1] ELSE @]
                  ELSE entries
    /\ Changed
    /\ UNCHANGED <<frontKey, liveKeys, capturing, formatHintShown>>
    /\ Announce(isKept(key) /\ key = frontKey)

\* updateSummary(): the entry's summary alone, as read again with other names.
updateSummary(key) ==
    /\ isKept(key)
    /\ entries' = [entries EXCEPT ![key].summary = updates + 1]
    /\ Changed
    /\ UNCHANGED <<frontKey, liveKeys, capturing, formatHintShown>>
    /\ Announce(key = frontKey)

setFileError(key) ==
    /\ capturing /\ isKept(key)
    /\ entries' = [entries EXCEPT ![key].error = TRUE]
    /\ Changed
    /\ UNCHANGED <<frontKey, liveKeys, capturing, formatHintShown>>
    /\ Announce(key = frontKey)

endLive ==
    /\ capturing
    /\ capturing' = FALSE
    /\ UNCHANGED <<entries, frontKey, liveKeys, formatHintShown, updates, fronts>>
    /\ Announce(frontKey \in liveKeys)

\* The host reports the tab in front, perhaps the same again.
setFront(key) ==
    /\ fronts < MaxFronts /\ fronts' = fronts + 1
    /\ frontKey' = key
    /\ UNCHANGED <<entries, liveKeys, capturing, formatHintShown, updates>>
    /\ Announce(key # frontKey)

\* partsToSave(): the parts of the latest index, or the raw file before there is one.
partsToSave == IF ~front.entry.raw THEN {} ELSE {IF front.entry.index = NoIndex THEN "raw file" ELSE "parts"}

CatalogNext ==
    \/ startLive \/ endLive
    \/ \E k \in Converted : KeepConverted(k)
    \/ \E k \in LiveFiles : openLiveFile(k) \/ setFileError(k)
    \/ \E k \in LiveFiles : \E withIndex \in BOOLEAN : updateFile(k, withIndex)
    \/ \E k \in Kept : updateSummary(k)
    \/ \E k \in Keys : setFront(k)

CatalogSpec == CatalogInit /\ [][CatalogNext]_catalogVars

-----------------------------------------------------------------------------

\* What the sidebar drew is what the tab in front shows now, of whatever tab is in front
\* and whatever became of its capture behind it; the Log Format hint is with one entry
\* at most; the running capture's files are kept.
DrawnIsTheFront ==
    /\ shown = front
    /\ Cardinality({k \in Kept : entries[k].withFormatHint}) <= 1
    /\ \A k \in liveKeys : isKept(k) /\ entries[k].raw
=============================================================================
