---------------------------- MODULE SavedProfile ----------------------------
(***************************************************************************)
(* What a research session saves about its viewer:                         *)
(* src/src/swipe_dating/domain/local_state.py, with the session methods    *)
(* that change it (src/src/swipe_dating/application/session.py).           *)
(*                                                                         *)
(* Whatever a file holds, hand-written or from an older version, loading   *)
(* and saving reduce it to an allowlist of short strings.  Here a save is  *)
(* one step; LocalStorage has its steps, and takes Clean from here.        *)
(*                                                                         *)
(* A string is a sequence of characters, as blanks and lengths matter; a   *)
(* JSON value of another type is a model value.  displayName stands for    *)
(* about and pronouns too, which only have other lengths.                  *)
(***************************************************************************)
EXTENDS Integers, SequencesExt

CONSTANTS
    Names,          \* what update_profile is given
    SKIN_ITEMS,     \* ids of the skins on offer
    HandWritten,    \* what the file may hold without having been saved
    MaxName, MaxSkins, MaxSkinId,  \* 64, 50 and 80 in the code
    Chars,          \* the characters of names and ids
    Blank,          \* the one that strip() removes
    Null,           \* a missing key, or null
    Number,         \* a value that is no string, list or mapping
    Unhashable,     \* a list or mapping where a tab is expected
    NoText,         \* no file, or an empty one
    BrokenText,     \* no JSON
    Undecodable     \* no UTF-8

Strings == Seq(Chars)

ASSUME LimitsAssumption ==
    MaxName \in Nat \ {0} /\ MaxSkins \in Nat \ {0} /\ MaxSkinId \in Nat \ {0}

ASSUME InputsAssumption == Blank \in Chars /\ Names \subseteq Strings /\ SKIN_ITEMS \subseteq Strings

VARIABLES
    file,        \* the text under LOCAL_STATE_KEY
    running,     \* a session has it loaded
    localState,  \* self.local_state
    ahead,       \* the last save failed: memory has what the file has not
    saved        \* the file is what a save has written, not hand-written

vars == <<file, running, localState, ahead, saved>>

----------------------------------------------------------------------------
(* Strings                                                                 *)

IsString(value) == value \notin {Null, Number}

Inked(text) == {i \in DOMAIN text : text[i] # Blank}

Rstrip(text) == IF Inked(text) = {} THEN <<>> ELSE SubSeq(text, 1, Max(Inked(text)))

Strip(text) ==
    IF Inked(text) = {} THEN <<>> ELSE SubSeq(text, Min(Inked(text)), Max(Inked(text)))

Cut(text, max) == SubSeq(text, 1, IF Len(text) < max THEN Len(text) ELSE max)

\* Fault: a blank that the cut has brought to the end stays.
CleanStringCutLast(value, max) == IF IsString(value) THEN Cut(Strip(value), max) ELSE <<>>

\* _clean_string
CleanString(value, max) == IF IsString(value) THEN Rstrip(Cut(Strip(value), max)) ELSE <<>>

WithEntry(kept, cleaned, maxItems) ==
    IF cleaned = <<>> \/ Contains(kept, cleaned) \/ Len(kept) >= maxItems
    THEN kept ELSE Append(kept, cleaned)

\* _unique_strings: the first ones, in order.
UniqueStrings(value, maxItems, max) ==
    IF ~IsString(value) THEN <<>>
    ELSE LET kept[i \in 0 .. Len(value)] ==
                 IF i = 0 THEN <<>>
                 ELSE WithEntry(kept[i - 1], CleanString(value[i], max), maxItems)
         IN  kept[Len(value)]

----------------------------------------------------------------------------
(* The allowlist                                                           *)

\* _as_mapping(mapping).get(key)
Get(mapping, key) ==
    IF mapping \notin {Null, Number} /\ key \in DOMAIN mapping THEN mapping[key] ELSE Null

\* create_default_local_state
Default ==
    [profile   |-> [displayName |-> <<>>],
     cosmetics |-> [ownedSkinIds |-> <<>>, selectedSkinId |-> Null],
     ui        |-> [hapticsEnabled |-> TRUE, lastTab |-> "Swipe"]]

OwnedSelection(selected, owned) ==
    IF selected # <<>> /\ Contains(owned, selected) THEN selected ELSE Null

\* sanitize_local_state.  ALLOWED_TABS is {"Swipe"}, so the tab is always that one.
Clean(value) ==
    LET cosmetics == Get(value, "cosmetics")
        owned == UniqueStrings(Get(cosmetics, "ownedSkinIds"), MaxSkins, MaxSkinId)
        selected == CleanString(Get(cosmetics, "selectedSkinId"), MaxSkinId)
        haptics == Get(Get(value, "ui"), "hapticsEnabled")
    IN  [profile   |-> [displayName |->
                            CleanString(Get(Get(value, "profile"), "displayName"), MaxName)],
         cosmetics |-> [ownedSkinIds |-> owned,
                        selectedSkinId |-> OwnedSelection(selected, owned)],
         ui        |-> [hapticsEnabled |-> IF haptics = FALSE THEN FALSE ELSE TRUE,
                        lastTab |-> "Swipe"]]

\* The keys of schema version 1, brought under those of version 2.
FromVersion1(raw) ==
    [profile   |-> [displayName |-> Get(raw, "profileName")],
     cosmetics |-> [ownedSkinIds |-> Get(raw, "ownedSkins"),
                    selectedSkinId |-> Get(raw, "selectedSkin")],
     ui        |-> [hapticsEnabled |-> Get(raw, "hapticsEnabled"),
                    lastTab |-> Get(raw, "lastTab")]]

\* migrate_local_state
Migrated(raw) ==
    CASE Get(raw, "schemaVersion") = 2 -> Clean(raw)
      [] Get(raw, "schemaVersion") = 1 -> Clean(FromVersion1(raw))
      [] OTHER -> Default

\* deserialize_local_state
Deserialized(text) == IF text \in {NoText, BrokenText} THEN Default ELSE Migrated(text)

\* Exceptions of load that nobody catches: read_text decodes the file, and the membership test
\* of sanitize_local_state hashes the tab.
Raises(text) ==
    \/ text = Undecodable
    \/ /\ text \notin {NoText, BrokenText}
       /\ \/ Get(text, "schemaVersion") = 2 /\ Get(Get(text, "ui"), "lastTab") = Unhashable
          \/ Get(text, "schemaVersion") = 1 /\ Get(text, "lastTab") = Unhashable

\* What sanitize_local_state looks up is of some JSON type: a string, a list of such values,
\* another value or nothing.
Entries == {Null, Number} \cup Strings

Readable(value) ==
    LET owned == Get(Get(value, "cosmetics"), "ownedSkinIds")
    IN  /\ Get(Get(value, "profile"), "displayName") \in Entries
        /\ Get(Get(value, "cosmetics"), "selectedSkinId") \in Entries
        /\ owned \in {Null, Number} \/ owned \in Seq(Entries)

ASSUME HandWrittenAssumption ==
    \A text \in HandWritten \ {NoText, BrokenText, Undecodable} :
        /\ Get(text, "schemaVersion") = 2 => Readable(text)
        /\ Get(text, "schemaVersion") = 1 => Readable(FromVersion1(text))

\* LocalState
Profiles == [displayName : Strings]
Cosmetics == [ownedSkinIds : Seq(Strings), selectedSkinId : Strings \cup {Null}]
Uis == [hapticsEnabled : BOOLEAN, lastTab : {"Swipe"}]
LocalStates == [profile : Profiles, cosmetics : Cosmetics, ui : Uis]

\* LocalState.to_dict under the current schema version; savedAt is left out.
Text(state) ==
    [schemaVersion |-> 2, profile |-> state.profile, cosmetics |-> state.cosmetics,
     ui |-> state.ui]

SavedTexts == [schemaVersion : {2}, profile : Profiles, cosmetics : Cosmetics, ui : Uis]

\* The values of other types are none of these.
ASSUME TypesAssumption ==
    /\ \A other \in {Null, Number} :
           /\ other \notin Strings /\ other \notin Seq(Entries) /\ other \notin Profiles
           /\ other \notin Cosmetics /\ other \notin Uis /\ other \notin LocalStates
           /\ other \notin SavedTexts
    /\ {NoText, BrokenText, Undecodable} \cap SavedTexts = {}

\* serialize_local_state
Serialized(state) == Text(Clean(state))

----------------------------------------------------------------------------

Init ==
    /\ file \in HandWritten \cup {NoText}
    /\ running = FALSE
    /\ localState = Default
    /\ ahead = FALSE
    /\ saved = FALSE

\* ResearchSession.__init__; nothing starts on a file whose load raises.
Start ==
    /\ ~running
    /\ ~Raises(file)
    /\ running' = TRUE
    /\ localState' = Deserialized(file)
    /\ ahead' = FALSE
    /\ UNCHANGED <<file, saved>>

\* The session ends, or its process does; memory is gone.
Stop ==
    /\ running
    /\ running' = FALSE
    /\ localState' = Default
    /\ ahead' = FALSE
    /\ UNCHANGED <<file, saved>>

\* Another program, or another version of this one, writes the file.
HandWrite ==
    /\ ~running
    /\ file' \in HandWritten
    /\ saved' = FALSE
    /\ UNCHANGED <<running, localState, ahead>>

\* _persist: memory becomes what a load of the saved text gives.
Persist(state) ==
    /\ file' = Serialized(state)
    /\ localState' = Deserialized(file')
    /\ ahead' = FALSE
    /\ saved' = TRUE

\* The adapter raises: memory has been changed, and nothing cleans it.
PersistFails(state) ==
    /\ localState' = state
    /\ ahead' = TRUE
    /\ UNCHANGED <<file, saved>>

ChangeTo(state) == running /\ (Persist(state) \/ PersistFails(state)) /\ UNCHANGED running

UpdateProfile(name) == ChangeTo([localState EXCEPT !.profile.displayName = name])

SetHaptics(enabled) == ChangeTo([localState EXCEPT !.ui.hapticsEnabled = enabled])

\* select_tab("Swipe"); the other tab is not saved.
SelectTab == ChangeTo([localState EXCEPT !.ui.lastTab = "Swipe"])

\* Fault: the newest skin comes first.
NewestFirst(owned, skin) == <<skin>> \o SelectSeq(owned, LAMBDA s : s # skin)

\* The skins in the order they were acquired, without a second copy.
WithSkin(owned, skin) == IF Contains(owned, skin) THEN owned ELSE Append(owned, skin)

AcquireOrApplySkin(skin) ==
    ChangeTo([localState EXCEPT
                  !.cosmetics = [ownedSkinIds |-> WithSkin(@.ownedSkinIds, skin),
                                 selectedSkinId |-> skin]])

ResetSavedProfile ==
    /\ running
    /\ file' = NoText
    /\ localState' = Default
    /\ ahead' = FALSE
    /\ saved' = FALSE
    /\ UNCHANGED running

Next ==
    \/ Start \/ Stop \/ HandWrite
    \/ \E name \in Names : UpdateProfile(name)
    \/ \E enabled \in BOOLEAN : SetHaptics(enabled)
    \/ SelectTab
    \/ \E skin \in SKIN_ITEMS : AcquireOrApplySkin(skin)
    \/ ResetSavedProfile

Spec == Init /\ [][Next]_vars

----------------------------------------------------------------------------
(* Properties                                                              *)

\* Loading what was saved changes nothing: the file, and so export_saved_profile, says what
\* the session shows, now and after a restart, however odd the names that were saved and
\* the file the session was started from.
SavedIsShown == running /\ saved /\ ~ahead => file = Text(localState)

\* A skin that was saved stays saved until the profile is reset or the file written by others:
\* no later acquisition at the limit, failed save or restart drops it.
SkinsAreKept ==
    [][saved /\ saved' =>
          ToSet(file.cosmetics.ownedSkinIds) \subseteq ToSet(file'.cosmetics.ownedSkinIds)]_vars

============================================================================
