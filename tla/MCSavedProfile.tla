--------------------------- MODULE MCSavedProfile ---------------------------
(***************************************************************************)
(* Names with blanks on every side of a cut after two characters, skins at *)
(* a limit of two, and files of every kind.                                *)
(***************************************************************************)
EXTENDS SavedProfile

CONSTANTS a, b, c

Letters == {Blank, a, b, c}

UserNames == {<<>>, <<Blank>>, <<a, b>>, <<Blank, a, b>>, <<a, Blank, b>>, <<a, b, Blank>>}

Skins == {<<a>>, <<b>>, <<c>>}

Version2(name, owned, selected, haptics, tab) ==
    [schemaVersion |-> 2, profile |-> [displayName |-> name],
     cosmetics |-> [ownedSkinIds |-> owned, selectedSkinId |-> selected],
     ui |-> [hapticsEnabled |-> haptics, lastTab |-> tab]]

Files ==
    {BrokenText, Undecodable, Number,
     Version2(<<a, Blank, b>>,
              <<<<Blank, c>>, Number, <<c>>, <<Blank>>, <<b, Blank>>, <<a>>>>,
              <<a>>, Number, "Skin Shop"),
     Version2(Number, Number, <<b>>, FALSE, Unhashable),
     [schemaVersion |-> 2, profile |-> Number],
     [schemaVersion |-> 3, profile |-> [displayName |-> <<a>>]],
     [schemaVersion |-> 1, profileName |-> <<Blank, b>>, ownedSkins |-> <<<<b>>, <<c>>>>,
      selectedSkin |-> <<Blank, b>>, hapticsEnabled |-> FALSE, lastTab |-> "Skin Shop"],
     [schemaVersion |-> 1, lastTab |-> Unhashable]}

=============================================================================
