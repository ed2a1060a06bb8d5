------------------------- MODULE SavedProfileProofs -------------------------
(***************************************************************************)
(* Proofs about SavedProfile, for any characters, limits, names, skins and *)
(* hand-written files of any content.                                      *)
(*                                                                         *)
(* Cleaning what has been cleaned changes nothing; so the text that a save *)
(* writes is loaded as what the save made of the session's state.          *)
(***************************************************************************)
EXTENDS SavedProfile, WellFoundedInduction, TLAPS

----------------------------------------------------------------------------
(* Induction over the positions of a sequence                              *)

\* A nonempty set of natural numbers has a least element.
LEMMA Least ==
    ASSUME NEW S \in SUBSET Nat, S # {}
    PROVE  \E m \in S : \A k \in S : m <= k
<1> DEFINE R == OpToRel(<, Nat)
<1>1. \E m \in S : \A k \in S : <<k, m>> \notin R
    <2>1. IsWellFoundedOn(R, Nat)
        BY NatLessThanWellFounded
    <2> HIDE DEF R
    <2>2. QED
        BY <2>1, WFMin
<1>2. \A k, m \in Nat : <<k, m>> \notin R => m <= k
    BY DEF OpToRel
<1>3. QED
    BY <1>1, <1>2

\* Induction up to n, over a set for want of an operator: what holds at the start and carries over.
LEMMA InductionUpTo ==
    ASSUME NEW n \in Nat, NEW good, 0 \in good,
           \A m \in 0 .. n : m > 0 /\ m - 1 \in good => m \in good
    PROVE  \A m \in 0 .. n : m \in good
<1> DEFINE bad == {m \in 0 .. n : m \notin good}
<1>1. SUFFICES ASSUME bad # {} PROVE FALSE
    OBVIOUS
<1>2. bad \in SUBSET Nat
    OBVIOUS
<1>3. PICK m \in bad : \A k \in bad : m <= k
    BY <1>1, <1>2, Least
<1>4. m > 0 /\ m \in 0 .. n
    OBVIOUS
<1>5. m - 1 \in 0 .. n /\ ~(m <= m - 1)
    BY <1>4
<1>6. m - 1 \in good
    BY <1>3, <1>5
<1>7. QED
    BY <1>4, <1>6

LEMMA Extremes ==
    ASSUME NEW n \in Nat, NEW S \in SUBSET (1 .. n), S # {}
    PROVE  /\ Min(S) \in S /\ Max(S) \in S
           /\ \A i \in S : Min(S) <= i /\ i <= Max(S)
<1>1. \E m \in S : \A k \in S : m <= k
    BY Least
<1>2. \E m \in S : \A k \in S : m >= k
    <2> DEFINE bounds == {b \in Nat : \A k \in S : b >= k}
    <2>1. n \in bounds
        OBVIOUS
    <2>2. PICK b \in bounds : \A k \in bounds : b <= k
        BY <2>1, Least
    <2>3. ASSUME b \notin S PROVE FALSE
        <3>1. \A k \in S : k \in Nat /\ b >= k /\ b # k /\ k >= 1
            BY <2>3
        <3>2. \A k \in S : b - 1 >= k
            BY <3>1
        <3>3. b - 1 \in Nat
            <4>1. PICK k \in S : TRUE
                OBVIOUS
            <4>2. k \in Nat /\ b \in Nat /\ b >= k /\ b # k
                BY <3>1
            <4>3. QED
                BY <4>2
        <3>4. b - 1 \in bounds
            BY <3>2, <3>3
        <3>5. b <= b - 1 /\ b \in Nat
            BY <2>2, <3>4
        <3>6. QED
            BY <3>5
    <2>4. QED
        BY <2>3
<1>3. QED
    BY <1>1, <1>2 DEF Min, Max

----------------------------------------------------------------------------
(* Strings                                                                 *)

\* What _clean_string returns: no blanks around it, and within the limit.
IsCleanText(text, max) ==
    /\ text \in Strings /\ Len(text) <= max
    /\ text # <<>> => text[1] # Blank /\ text[Len(text)] # Blank

LEMMA Part ==
    ASSUME NEW text \in Strings, NEW first \in 1 .. Len(text), NEW last \in first .. Len(text)
    PROVE  /\ SubSeq(text, first, last) \in Strings
           /\ Len(SubSeq(text, first, last)) = last - first + 1
           /\ \A i \in 1 .. last - first + 1 : SubSeq(text, first, last)[i] = text[first + i - 1]
           /\ SubSeq(text, first, last) # <<>>
BY DEF Strings

LEMMA Whole == \A text \in Strings : SubSeq(text, 1, Len(text)) = text
BY DEF Strings

LEMMA Stripped ==
    ASSUME NEW text \in Strings
    PROVE  /\ Strip(text) \in Strings
           /\ Strip(text) # <<>> => /\ Strip(text)[1] # Blank
                                    /\ Strip(text)[Len(Strip(text))] # Blank
<1>1. CASE Inked(text) = {}
    BY <1>1 DEF Strip, Strings
<1>2. CASE Inked(text) # {}
    <2> DEFINE first == Min(Inked(text))
               last == Max(Inked(text))
    <2>1. Len(text) \in Nat /\ DOMAIN text = 1 .. Len(text)
        BY DEF Strings
    <2>2. Inked(text) \in SUBSET (1 .. Len(text)) /\ \A i \in Inked(text) : text[i] # Blank
        BY <2>1 DEF Inked
    <2>3. /\ first \in Inked(text) /\ last \in Inked(text)
          /\ \A i \in Inked(text) : first <= i /\ i <= last
        BY <1>2, <2>1, <2>2, Extremes
    <2> HIDE DEF first, last
    <2>4. first \in 1 .. Len(text) /\ last \in first .. Len(text)
        BY <2>1, <2>2, <2>3
    <2>5. Strip(text) = SubSeq(text, first, last)
        BY <1>2 DEF Strip, first, last
    <2>6. /\ Strip(text) \in Strings /\ Len(Strip(text)) = last - first + 1
          /\ \A i \in 1 .. last - first + 1 : Strip(text)[i] = text[first + i - 1]
        BY <2>4, <2>5, Part
    <2>7. Strip(text)[1] = text[first] /\ Strip(text)[last - first + 1] = text[last]
        BY <2>1, <2>4, <2>6
    <2>8. QED
        BY <2>2, <2>3, <2>6, <2>7
<1>3. QED
    BY <1>1, <1>2

LEMMA CutOff ==
    ASSUME NEW text \in Strings, NEW max \in Nat \ {0}
    PROVE  /\ Cut(text, max) \in Strings /\ Len(Cut(text, max)) <= max
           /\ Len(text) <= max => Cut(text, max) = text
           /\ Cut(text, max) # <<>> => text # <<>> /\ Cut(text, max)[1] = text[1]
<1> DEFINE n == IF Len(text) < max THEN Len(text) ELSE max
<1>1. Len(text) \in Nat /\ (Len(text) = 0 <=> text = <<>>)
    BY DEF Strings
<1>2. Cut(text, max) = SubSeq(text, 1, n)
    BY DEF Cut
<1>3. CASE text = <<>>
    BY <1>1, <1>2, <1>3 DEF Strings
<1>4. CASE text # <<>>
    <2>1. n \in 1 .. Len(text) /\ n <= max /\ 1 \in 1 .. Len(text)
        BY <1>1, <1>4
    <2>2. Len(text) <= max => n = Len(text)
        BY <1>1
    <2> HIDE DEF n
    <2>3. /\ Cut(text, max) \in Strings /\ Len(Cut(text, max)) = n - 1 + 1
          /\ \A i \in 1 .. n - 1 + 1 : Cut(text, max)[i] = text[1 + i - 1]
        BY <1>2, <2>1, Part
    <2>4. Cut(text, max)[1] = text[1] /\ Len(Cut(text, max)) <= max
        BY <1>1, <2>1, <2>3
    <2>5. QED
        BY <1>2, <1>4, <2>2, <2>3, <2>4, Whole
<1>5. QED
    BY <1>3, <1>4

LEMMA RightStripped ==
    ASSUME NEW text \in Strings
    PROVE  /\ Rstrip(text) \in Strings /\ Len(Rstrip(text)) <= Len(text)
           /\ Rstrip(text) # <<>> => /\ text # <<>> /\ Rstrip(text)[1] = text[1]
                                     /\ Rstrip(text)[Len(Rstrip(text))] # Blank
<1>1. Len(text) \in Nat /\ DOMAIN text = 1 .. Len(text) /\ (Len(text) = 0 <=> text = <<>>)
    BY DEF Strings
<1>2. CASE Inked(text) = {}
    BY <1>1, <1>2 DEF Rstrip, Strings
<1>3. CASE Inked(text) # {}
    <2> DEFINE last == Max(Inked(text))
    <2>1. Inked(text) \in SUBSET (1 .. Len(text)) /\ \A i \in Inked(text) : text[i] # Blank
        BY <1>1 DEF Inked
    <2>2. last \in Inked(text)
        BY <1>1, <1>3, <2>1, Extremes
    <2> HIDE DEF last
    <2>3. 1 \in 1 .. Len(text) /\ last \in 1 .. Len(text)
        BY <1>1, <2>1, <2>2
    <2>4. Rstrip(text) = SubSeq(text, 1, last)
        BY <1>3 DEF Rstrip, last
    <2>5. /\ Rstrip(text) \in Strings /\ Len(Rstrip(text)) = last - 1 + 1
          /\ \A i \in 1 .. last - 1 + 1 : Rstrip(text)[i] = text[1 + i - 1]
        BY <2>3, <2>4, Part
    <2>6. Rstrip(text)[1] = text[1] /\ Rstrip(text)[last] = text[last]
          /\ Len(Rstrip(text)) = last /\ text # <<>>
        BY <1>1, <2>3, <2>5
    <2>7. QED
        BY <1>1, <2>1, <2>2, <2>3, <2>5, <2>6
<1>4. QED
    BY <1>2, <1>3

\* Whatever a file or a form gives, _clean_string makes it clean.
LEMMA CleanStringCleans ==
    ASSUME NEW value \in Entries, NEW max \in Nat \ {0}
    PROVE  IsCleanText(CleanString(value, max), max)
<1>1. CASE ~IsString(value)
    BY <1>1 DEF CleanString, IsCleanText, Strings
<1>2. CASE IsString(value)
    <2> DEFINE stripped == Strip(value)
               cut == Cut(stripped, max)
               cleaned == Rstrip(cut)
    <2>1. value \in Strings
        BY <1>2 DEF IsString, Entries
    <2>2. stripped \in Strings /\ (stripped # <<>> => stripped[1] # Blank)
        BY <2>1, Stripped
    <2> HIDE DEF stripped
    <2>3. /\ cut \in Strings /\ Len(cut) <= max
          /\ cut # <<>> => stripped # <<>> /\ cut[1] = stripped[1]
        BY <2>2, CutOff
    <2> HIDE DEF cut
    <2>4. /\ cleaned \in Strings /\ Len(cleaned) <= Len(cut)
          /\ cleaned # <<>> => /\ cut # <<>> /\ cleaned[1] = cut[1]
                               /\ cleaned[Len(cleaned)] # Blank
        BY <2>3, RightStripped
    <2> HIDE DEF cleaned
    <2>5. Len(cut) \in Nat /\ Len(cleaned) \in Nat
        BY <2>3, <2>4 DEF Strings
    <2>6. IsCleanText(cleaned, max)
        BY <2>2, <2>3, <2>4, <2>5 DEF IsCleanText
    <2>7. CleanString(value, max) = cleaned
        BY <1>2 DEF CleanString, cleaned, cut, stripped
    <2>8. QED
        BY <2>6, <2>7
<1>3. QED
    BY <1>1, <1>2

\* Cleaning a clean string again changes nothing.
LEMMA CleanStringKeeps ==
    ASSUME NEW max \in Nat \ {0}, NEW text, IsCleanText(text, max)
    PROVE  CleanString(text, max) = text
<1>1. text \in Strings /\ Len(text) \in Nat /\ DOMAIN text = 1 .. Len(text) /\ Len(text) <= max
    BY DEF IsCleanText, Strings
<1>2. IsString(text)
    BY <1>1, TypesAssumption DEF IsString
<1>3. Cut(text, max) = text
    BY <1>1, CutOff
<1>4. CASE text = <<>>
    <2>1. Inked(text) = {}
        BY <1>4 DEF Inked
    <2>2. QED
        BY <1>2, <1>3, <1>4, <2>1 DEF CleanString, Strip, Rstrip
<1>5. CASE text # <<>>
    <2>1. /\ 1 \in Inked(text) /\ Len(text) \in Inked(text)
          /\ Inked(text) \in SUBSET (1 .. Len(text))
        BY <1>1, <1>5 DEF IsCleanText, Inked, Strings
    <2>2. /\ Min(Inked(text)) \in 1 .. Len(text) /\ Max(Inked(text)) \in 1 .. Len(text)
          /\ Min(Inked(text)) <= 1 /\ Len(text) <= Max(Inked(text))
        BY <1>1, <2>1, Extremes
    <2>3. Min(Inked(text)) = 1 /\ Max(Inked(text)) = Len(text)
        BY <1>1, <2>2
    <2>4. Strip(text) = text /\ Rstrip(text) = text
        BY <1>1, <2>1, <2>3, Whole DEF Strip, Rstrip
    <2>5. QED
        BY <1>2, <1>3, <2>4 DEF CleanString
<1>6. QED
    BY <1>4, <1>5

----------------------------------------------------------------------------
(* Lists of strings                                                        *)

\* What _unique_strings returns: clean strings, none twice, within the limit.
IsCleanList(list, maxItems, max) ==
    /\ list \in Seq(Strings) /\ Len(list) <= maxItems
    /\ \A i \in DOMAIN list : IsCleanText(list[i], max) /\ list[i] # <<>>
    /\ \A i, j \in DOMAIN list : list[i] = list[j] => i = j

\* The loop of _unique_strings, as the list it has collected after each entry.
LEMMA Collected ==
    ASSUME NEW value \in Seq(Entries), NEW maxItems, NEW max
    PROVE  \E kept :
               /\ UniqueStrings(value, maxItems, max) = kept[Len(value)]
               /\ kept[0] = <<>>
               /\ \A i \in 1 .. Len(value) :
                      kept[i] = WithEntry(kept[i - 1], CleanString(value[i], max), maxItems)
<1> DEFINE n == Len(value)
           Step(f, i) == IF i = 0 THEN <<>>
                         ELSE WithEntry(f[i - 1], CleanString(value[i], max), maxItems)
           Upto(f, m) == f = [i \in 0 .. m |-> Step(f, i)]
           kept == CHOOSE f : Upto(f, n)
<1>1. n \in Nat
    OBVIOUS
<1>2. UniqueStrings(value, maxItems, max) = kept[n]
    BY TypesAssumption DEF UniqueStrings, IsString
<1>3. Upto(kept, n)
    <2> DEFINE defined == {m \in 0 .. n : \E f : Upto(f, m)}
    <2>1. 0 \in defined
        <3>1. Upto([i \in 0 .. 0 |-> <<>>], 0)
            OBVIOUS
        <3> HIDE DEF Upto
        <3>2. QED
            BY <1>1, <3>1
    <2>2. ASSUME NEW m \in 0 .. n, m > 0, m - 1 \in defined
          PROVE  m \in defined
        <3>1. PICK f : Upto(f, m - 1)
            BY <2>2
        <3> DEFINE g == [i \in 0 .. m |-> IF i = m THEN Step(f, m) ELSE f[i]]
        <3>2. \A i \in 0 .. m : g[i] = Step(g, i)
            <4> SUFFICES ASSUME NEW i \in 0 .. m PROVE g[i] = Step(g, i)
                OBVIOUS
            <4>1. CASE i = m
                <5>1. m - 1 \in 0 .. m /\ m - 1 # m /\ m # 0
                    BY <1>1, <2>2
                <5>2. g[m - 1] = f[m - 1]
                    BY <5>1
                <5>3. QED
                    BY <4>1, <5>1, <5>2
            <4>2. CASE i # m
                <5>1. i \in 0 .. m - 1 /\ (i # 0 => i - 1 \in 0 .. m /\ i - 1 # m)
                    BY <1>1, <4>2
                <5>2. g[i] = f[i] /\ (i # 0 => g[i - 1] = f[i - 1])
                    BY <4>2, <5>1
                <5>3. f[i] = Step(f, i)
                    BY <3>1, <5>1
                <5>4. QED
                    BY <5>2, <5>3
            <4>3. QED
                BY <4>1, <4>2
        <3>3. Upto(g, m)
            <4>1. g = [i \in 0 .. m |-> g[i]]
                OBVIOUS
            <4> HIDE DEF g, Step
            <4>2. QED
                BY <3>2, <4>1
        <3> HIDE DEF Upto
        <3>4. QED
            BY <3>3
    <2> HIDE DEF defined, Upto
    <2>3. \A m \in 0 .. n : m > 0 /\ m - 1 \in defined => m \in defined
        BY <2>2
    <2> HIDE DEF n
    <2>4. n \in defined
        BY <1>1, <2>1, <2>3, InductionUpTo
    <2>5. QED
        BY <2>4 DEF defined, kept
<1> HIDE DEF kept
<1>4. \A i \in 0 .. n : kept[i] = Step(kept, i)
    BY <1>3
<1>5. kept[0] = <<>>
    BY <1>1, <1>4
<1>6. \A i \in 1 .. n : kept[i] = WithEntry(kept[i - 1], CleanString(value[i], max), maxItems)
    BY <1>1, <1>4
<1>7. QED
    BY <1>2, <1>5, <1>6

LEMMA EmptyList ==
    ASSUME NEW maxItems \in Nat \ {0}, NEW max
    PROVE  IsCleanList(<<>>, maxItems, max)
BY DEF IsCleanList

LEMMA EntryAdded ==
    ASSUME NEW maxItems \in Nat \ {0}, NEW max \in Nat \ {0}, NEW list, NEW text,
           IsCleanList(list, maxItems, max), IsCleanText(text, max)
    PROVE  /\ IsCleanList(WithEntry(list, text, maxItems), maxItems, max)
           /\ ToSet(list) \subseteq ToSet(WithEntry(list, text, maxItems))
<1>1. /\ list \in Seq(Strings) /\ Len(list) \in Nat /\ DOMAIN list = 1 .. Len(list)
      /\ text \in Strings
    BY DEF IsCleanList, IsCleanText
<1>2. CASE WithEntry(list, text, maxItems) = list
    BY <1>2
<1>3. CASE ~(text = <<>> \/ Contains(list, text) \/ Len(list) >= maxItems)
    <2> DEFINE longer == Append(list, text)
    <2>1. WithEntry(list, text, maxItems) = longer
        BY <1>3 DEF WithEntry
    <2>2. /\ longer \in Seq(Strings) /\ Len(longer) = Len(list) + 1
          /\ DOMAIN longer = 1 .. Len(list) + 1
          /\ longer[Len(list) + 1] = text
          /\ \A i \in 1 .. Len(list) : longer[i] = list[i]
        BY <1>1
    <2> HIDE DEF longer
    <2>3. \A i \in DOMAIN longer : i \in DOMAIN list \/ i = Len(list) + 1
        BY <1>1, <2>2
    <2>4. \A i \in DOMAIN list : longer[i] # text /\ longer[i] = list[i] /\ i \in DOMAIN longer
        BY <1>1, <1>3, <2>2 DEF Contains
    <2>5. \A i \in DOMAIN longer : IsCleanText(longer[i], max) /\ longer[i] # <<>>
        BY <1>3, <2>2, <2>3, <2>4 DEF IsCleanList
    <2>6. \A i, j \in DOMAIN longer : longer[i] = longer[j] => i = j
        BY <2>2, <2>3, <2>4 DEF IsCleanList
    <2>7. Len(longer) <= maxItems
        BY <1>1, <1>3, <2>2
    <2>8. IsCleanList(longer, maxItems, max)
        BY <2>2, <2>5, <2>6, <2>7 DEF IsCleanList
    <2>9. ToSet(list) \subseteq ToSet(longer)
        BY <2>4 DEF ToSet
    <2>10. QED
        BY <2>1, <2>8, <2>9
<1>4. QED
    BY <1>2, <1>3 DEF WithEntry

LEMMA ListCleaned ==
    ASSUME NEW maxItems \in Nat \ {0}, NEW max \in Nat \ {0},
           NEW value \in {Null, Number} \cup Seq(Entries)
    PROVE  IsCleanList(UniqueStrings(value, maxItems, max), maxItems, max)
<1>1. CASE ~IsString(value)
    BY <1>1, EmptyList DEF UniqueStrings
<1>2. CASE IsString(value)
    <2>1. value \in Seq(Entries) /\ Len(value) \in Nat /\ DOMAIN value = 1 .. Len(value)
        BY <1>2 DEF IsString
    <2>2. PICK kept :
              /\ UniqueStrings(value, maxItems, max) = kept[Len(value)]
              /\ kept[0] = <<>>
              /\ \A i \in 1 .. Len(value) :
                     kept[i] = WithEntry(kept[i - 1], CleanString(value[i], max), maxItems)
        BY <2>1, Collected
    <2> DEFINE n == Len(value)
               good == {m \in 0 .. n : IsCleanList(kept[m], maxItems, max)}
    <2>3. 0 \in good
        BY <2>1, <2>2, EmptyList
    <2>4. ASSUME NEW m \in 0 .. n, m > 0, m - 1 \in good PROVE m \in good
        <3>1. value[m] \in Entries /\ m \in 1 .. n
            BY <2>1, <2>4
        <3>2. IsCleanText(CleanString(value[m], max), max)
            BY <3>1, CleanStringCleans
        <3>3. IsCleanList(kept[m - 1], maxItems, max)
            BY <2>4
        <3>4. IsCleanList(kept[m], maxItems, max)
            BY <2>2, <3>1, <3>2, <3>3, EntryAdded
        <3>5. QED
            BY <3>4
    <2>5. n \in good
        <3>1. n \in Nat
            BY <2>1
        <3> HIDE DEF n, good
        <3>2. \A m \in 0 .. n : m > 0 /\ m - 1 \in good => m \in good
            BY <2>4
        <3>3. QED
            BY <2>3, <3>1, <3>2, InductionUpTo
    <2>6. QED
        BY <2>2, <2>5
<1>3. QED
    BY <1>1, <1>2

\* A clean list at the head of another is taken over whole, and stays when more is added.
LEMMA HeadIsKept ==
    ASSUME NEW maxItems \in Nat \ {0}, NEW max \in Nat \ {0},
           NEW list, IsCleanList(list, maxItems, max),
           NEW value \in Seq(Entries), Len(list) <= Len(value),
           \A i \in DOMAIN list : value[i] = list[i]
    PROVE  /\ ToSet(list) \subseteq ToSet(UniqueStrings(value, maxItems, max))
           /\ Len(list) = Len(value) => UniqueStrings(value, maxItems, max) = list
<1> DEFINE n == Len(value)
           k == Len(list)
<1>1. /\ n \in Nat /\ DOMAIN value = 1 .. n /\ \A i \in 1 .. n : value[i] \in Entries
      /\ list \in Seq(Strings) /\ k \in Nat /\ DOMAIN list = 1 .. k /\ k <= maxItems /\ k <= n
      /\ \A i \in 1 .. k : list[i] \in Strings /\ value[i] = list[i]
    BY DEF IsCleanList
<1>2. PICK kept :
          /\ UniqueStrings(value, maxItems, max) = kept[n]
          /\ kept[0] = <<>>
          /\ \A i \in 1 .. n :
                 kept[i] = WithEntry(kept[i - 1], CleanString(value[i], max), maxItems)
    BY Collected
<1> HIDE DEF n, k
<1> DEFINE head(m) == SubSeq(list, 1, m)
<1>3. \A m \in 0 .. k : /\ head(m) \in Seq(Strings) /\ Len(head(m)) = m
                        /\ \A i \in 1 .. m : head(m)[i] = list[i]
    BY <1>1
<1>4. head(0) = <<>> /\ head(k) = list
    BY <1>1 DEF k
<1>5. ASSUME NEW m \in 1 .. k PROVE head(m) = Append(head(m - 1), list[m])
    BY <1>1, <1>3
<1> HIDE DEF head
<1> DEFINE same == {m \in 0 .. k : kept[m] = head(m)}
<1>6. 0 \in same
    BY <1>1, <1>2, <1>4
<1>7. ASSUME NEW m \in 0 .. k, m > 0, m - 1 \in same PROVE m \in same
    <2>1. m \in 1 .. k /\ m \in 1 .. n /\ m - 1 \in 0 .. k /\ ~(m - 1 >= maxItems)
        BY <1>1, <1>7
    <2>2. CleanString(value[m], max) = list[m] /\ list[m] # <<>>
        BY <1>1, <2>1, CleanStringKeeps DEF IsCleanList
    <2>3. ~Contains(head(m - 1), list[m])
        <3>1. ASSUME NEW i \in 1 .. m - 1, head(m - 1)[i] = list[m] PROVE FALSE
            <4>1. i \in DOMAIN list /\ m \in DOMAIN list /\ i # m
                BY <1>1, <2>1, <3>1
            <4>2. list[i] = list[m]
                BY <1>3, <2>1, <3>1
            <4>3. QED
                BY <4>1, <4>2 DEF IsCleanList
        <3>2. Len(head(m - 1)) = m - 1
            BY <1>3, <2>1
        <3>3. QED
            BY <3>1, <3>2 DEF Contains
    <2>4. kept[m] = WithEntry(head(m - 1), list[m], maxItems)
        BY <1>2, <1>7, <2>1, <2>2
    <2>5. kept[m] = Append(head(m - 1), list[m])
        BY <1>3, <2>1, <2>2, <2>3, <2>4 DEF WithEntry
    <2>6. QED
        BY <1>5, <2>1, <2>5
<1>8. kept[k] = list
    <2> HIDE DEF same
    <2>1. \A m \in 0 .. k : m > 0 /\ m - 1 \in same => m \in same
        BY <1>7
    <2>2. k \in Nat /\ k \in 0 .. k
        BY <1>1
    <2>3. k \in same
        BY <1>6, <2>1, <2>2, InductionUpTo
    <2>4. QED
        BY <1>4, <2>3 DEF same
<1> DEFINE holds(m) == IsCleanList(kept[m], maxItems, max) /\ ToSet(list) \subseteq ToSet(kept[m])
           good == {m \in 0 .. n : m < k \/ holds(m)}
<1>9. 0 \in good
    <2>1. k = 0 => holds(0)
        BY <1>8
    <2>2. QED
        BY <1>1, <2>1
<1>10. ASSUME NEW m \in 0 .. n, m > 0, m - 1 \in good PROVE m \in good
    <2>1. CASE m < k
        BY <2>1
    <2>2. CASE m = k
        BY <1>8, <2>2
    <2>3. CASE m > k
        <3>1. holds(m - 1) /\ m \in 1 .. n
            BY <1>1, <1>10, <2>3
        <3>2. IsCleanText(CleanString(value[m], max), max)
            BY <1>1, <3>1, CleanStringCleans
        <3>3. kept[m] = WithEntry(kept[m - 1], CleanString(value[m], max), maxItems)
            BY <1>2, <3>1
        <3>4. /\ IsCleanList(kept[m], maxItems, max)
              /\ ToSet(kept[m - 1]) \subseteq ToSet(kept[m])
            BY <3>1, <3>2, <3>3, EntryAdded
        <3>5. holds(m)
            BY <3>1, <3>4
        <3>6. QED
            BY <3>5
    <2>4. QED
        BY <1>1, <2>1, <2>2, <2>3
<1>11. ToSet(list) \subseteq ToSet(kept[n])
    <2> HIDE DEF good, holds
    <2>1. \A m \in 0 .. n : m > 0 /\ m - 1 \in good => m \in good
        BY <1>10
    <2>2. n \in Nat /\ n \in 0 .. n /\ ~(n < k)
        BY <1>1
    <2>3. n \in good
        BY <1>9, <2>1, <2>2, InductionUpTo
    <2>4. QED
        BY <2>2, <2>3 DEF good, holds
<1>12. QED
    BY <1>2, <1>8, <1>11 DEF n, k

----------------------------------------------------------------------------
(* Local states                                                            *)

\* What sanitize_local_state returns.
IsClean(state) ==
    /\ state \in LocalStates
    /\ IsCleanText(state.profile.displayName, MaxName)
    /\ IsCleanList(state.cosmetics.ownedSkinIds, MaxSkins, MaxSkinId)
    /\ \/ state.cosmetics.selectedSkinId = Null
       \/ Contains(state.cosmetics.ownedSkinIds, state.cosmetics.selectedSkinId)

\* The allowlist reads a session's state and its saved text field by field.
LEMMA FieldsRead ==
    ASSUME NEW value \in LocalStates \cup SavedTexts
    PROVE  /\ Get(Get(value, "profile"), "displayName") = value.profile.displayName
           /\ Get(Get(value, "cosmetics"), "ownedSkinIds") = value.cosmetics.ownedSkinIds
           /\ Get(Get(value, "cosmetics"), "selectedSkinId") = value.cosmetics.selectedSkinId
           /\ Get(Get(value, "ui"), "hapticsEnabled") = value.ui.hapticsEnabled
           /\ value.profile \in Profiles /\ value.cosmetics \in Cosmetics /\ value.ui \in Uis
<1>1. value.profile \in Profiles /\ value.cosmetics \in Cosmetics /\ value.ui \in Uis
    BY DEF LocalStates, SavedTexts
<1>2. /\ value \notin {Null, Number} /\ value.profile \notin {Null, Number}
      /\ value.cosmetics \notin {Null, Number} /\ value.ui \notin {Null, Number}
    BY <1>1, TypesAssumption
<1>3. /\ "profile" \in DOMAIN value /\ "cosmetics" \in DOMAIN value /\ "ui" \in DOMAIN value
    BY DEF LocalStates, SavedTexts
<1>4. /\ Get(value, "profile") = value.profile /\ Get(value, "cosmetics") = value.cosmetics
      /\ Get(value, "ui") = value.ui
    BY <1>2, <1>3 DEF Get
<1>5. /\ "displayName" \in DOMAIN value.profile
      /\ "ownedSkinIds" \in DOMAIN value.cosmetics /\ "selectedSkinId" \in DOMAIN value.cosmetics
      /\ "hapticsEnabled" \in DOMAIN value.ui
    BY <1>1 DEF Profiles, Cosmetics, Uis
<1>6. QED
    BY <1>1, <1>2, <1>4, <1>5 DEF Get

LEMMA StringLists == Seq(Strings) \subseteq Seq(Entries)
<1>1. SUFFICES ASSUME NEW list \in Seq(Strings) PROVE list \in Seq(Entries)
    OBVIOUS
<1>2. \A i \in 1 .. Len(list) : list[i] \in Entries
    BY DEF Entries
<1>3. QED
    BY <1>2

LEMMA StatesAreReadable == \A value \in LocalStates \cup SavedTexts : Readable(value)
<1> SUFFICES ASSUME NEW value \in LocalStates \cup SavedTexts PROVE Readable(value)
    OBVIOUS
<1>1. /\ value.profile.displayName \in Strings
      /\ value.cosmetics.selectedSkinId \in Strings \cup {Null}
      /\ value.cosmetics.ownedSkinIds \in Seq(Strings)
    BY FieldsRead DEF Profiles, Cosmetics
<1>2. QED
    BY <1>1, FieldsRead, StringLists DEF Readable, Entries

\* Whatever is read, sanitize_local_state makes it clean.
LEMMA CleanCleans ==
    ASSUME NEW value, Readable(value)
    PROVE  IsClean(Clean(value))
<1> DEFINE name == CleanString(Get(Get(value, "profile"), "displayName"), MaxName)
           owned == UniqueStrings(Get(Get(value, "cosmetics"), "ownedSkinIds"),
                                  MaxSkins, MaxSkinId)
           chosen == CleanString(Get(Get(value, "cosmetics"), "selectedSkinId"), MaxSkinId)
           haptics == IF Get(Get(value, "ui"), "hapticsEnabled") = FALSE THEN FALSE ELSE TRUE
           selected == OwnedSelection(chosen, owned)
<1>1. IsCleanText(name, MaxName)
    BY CleanStringCleans, LimitsAssumption DEF Readable
<1>2. IsCleanList(owned, MaxSkins, MaxSkinId)
    BY ListCleaned, LimitsAssumption DEF Readable
<1>3. IsCleanText(chosen, MaxSkinId)
    BY CleanStringCleans, LimitsAssumption DEF Readable
<1>4. haptics \in BOOLEAN
    OBVIOUS
<1>5. Clean(value) = [profile   |-> [displayName |-> name],
                      cosmetics |-> [ownedSkinIds |-> owned, selectedSkinId |-> selected],
                      ui        |-> [hapticsEnabled |-> haptics, lastTab |-> "Swipe"]]
    BY DEF Clean
<1> HIDE DEF name, owned, chosen, haptics
<1>6. selected = Null \/ (selected = chosen /\ Contains(owned, selected))
    BY DEF OwnedSelection
<1>7. selected \in Strings \cup {Null}
    BY <1>3, <1>6 DEF IsCleanText
<1> HIDE DEF selected
<1>8. Clean(value) \in LocalStates
    BY <1>1, <1>2, <1>4, <1>5, <1>7
    DEF LocalStates, Profiles, Cosmetics, Uis, IsCleanText, IsCleanList
<1>9. QED
    BY <1>1, <1>2, <1>5, <1>6, <1>8 DEF IsClean

\* A clean state is cleaned to itself, and so is the text saved of it.
LEMMA CleanKeeps ==
    ASSUME NEW state, IsClean(state),
           NEW value \in LocalStates \cup SavedTexts,
           value.profile = state.profile, value.cosmetics = state.cosmetics, value.ui = state.ui
    PROVE  Clean(value) = state
<1> DEFINE name == state.profile.displayName
           owned == state.cosmetics.ownedSkinIds
           selected == state.cosmetics.selectedSkinId
           haptics == state.ui.hapticsEnabled
<1>1. /\ state \in LocalStates /\ IsCleanText(name, MaxName)
      /\ IsCleanList(owned, MaxSkins, MaxSkinId)
      /\ selected = Null \/ Contains(owned, selected)
    BY DEF IsClean
<1>2. CleanString(name, MaxName) = name
    BY <1>1, CleanStringKeeps, LimitsAssumption
<1>3. UniqueStrings(owned, MaxSkins, MaxSkinId) = owned
    <2>1. owned \in Seq(Entries)
        BY <1>1, StringLists DEF IsCleanList
    <2> HIDE DEF owned
    <2>2. Len(owned) <= Len(owned)
        BY <2>1
    <2>3. QED
        BY <1>1, <2>1, <2>2, HeadIsKept, LimitsAssumption
<1>4. OwnedSelection(CleanString(selected, MaxSkinId), owned) = selected
    <2>1. CASE selected = Null
        BY <2>1 DEF CleanString, IsString, OwnedSelection
    <2>2. CASE Contains(owned, selected)
        <3>1. IsCleanText(selected, MaxSkinId) /\ selected # <<>>
            BY <1>1, <2>2 DEF Contains, IsCleanList
        <3>2. CleanString(selected, MaxSkinId) = selected
            BY <3>1, CleanStringKeeps, LimitsAssumption
        <3>3. QED
            BY <2>2, <3>1, <3>2 DEF OwnedSelection
    <2>3. QED
        BY <1>1, <2>1, <2>2
<1>5. haptics \in BOOLEAN
    BY <1>1 DEF LocalStates, Uis
<1>6. state = [profile   |-> [displayName |-> name],
               cosmetics |-> [ownedSkinIds |-> owned, selectedSkinId |-> selected],
               ui        |-> [hapticsEnabled |-> haptics, lastTab |-> "Swipe"]]
    BY <1>1 DEF LocalStates, Profiles, Cosmetics, Uis
<1>7. /\ Get(Get(value, "profile"), "displayName") = name
      /\ Get(Get(value, "cosmetics"), "ownedSkinIds") = owned
      /\ Get(Get(value, "cosmetics"), "selectedSkinId") = selected
      /\ Get(Get(value, "ui"), "hapticsEnabled") = haptics
    BY FieldsRead
<1> HIDE DEF name, owned, selected, haptics
<1>8. (IF haptics = FALSE THEN FALSE ELSE TRUE) = haptics
    BY <1>5
<1>9. QED
    BY <1>2, <1>3, <1>4, <1>6, <1>7, <1>8 DEF Clean

\* sanitize_local_state is idempotent, on the states a session is in and on anything a file
\* can hold.
THEOREM CleanIsIdempotent ==
    \A value : Readable(value) => Clean(Clean(value)) = Clean(value)
<1> SUFFICES ASSUME NEW value, Readable(value) PROVE Clean(Clean(value)) = Clean(value)
    OBVIOUS
<1>1. IsClean(Clean(value))
    BY CleanCleans
<1>2. Clean(value) \in LocalStates \cup SavedTexts
    BY <1>1 DEF IsClean
<1>3. QED
    BY <1>1, <1>2, CleanKeeps

LEMMA TextFields ==
    ASSUME NEW state \in LocalStates
    PROVE  /\ Text(state) \in SavedTexts
           /\ Text(state).profile = state.profile /\ Text(state).cosmetics = state.cosmetics
           /\ Text(state).ui = state.ui
           /\ Get(Text(state), "schemaVersion") = 2
<1>1. Text(state) \in SavedTexts
    BY DEF Text, SavedTexts, LocalStates
<1>2. Text(state) \notin {Null, Number}
    BY <1>1, TypesAssumption
<1>3. QED
    BY <1>1, <1>2 DEF Text, Get

\* What is saved is loaded as the clean form of what was saved.
THEOREM SavedTextIsRead ==
    \A state \in LocalStates : Deserialized(Serialized(state)) = Clean(state)
<1> SUFFICES ASSUME NEW state \in LocalStates
             PROVE  Deserialized(Serialized(state)) = Clean(state)
    OBVIOUS
<1> DEFINE clean == Clean(state)
           text == Text(clean)
<1>1. IsClean(clean) /\ clean \in LocalStates
    BY StatesAreReadable, CleanCleans DEF IsClean
<1> HIDE DEF clean
<1>2. /\ text \in SavedTexts /\ text.profile = clean.profile
      /\ text.cosmetics = clean.cosmetics /\ text.ui = clean.ui
      /\ Get(text, "schemaVersion") = 2
    BY <1>1, TextFields
<1>3. text \notin {NoText, BrokenText}
    BY <1>2, TypesAssumption
<1> HIDE DEF text
<1>4. Clean(text) = clean
    BY <1>1, <1>2, CleanKeeps
<1>5. Serialized(state) = text
    BY DEF Serialized, text, clean
<1>6. Deserialized(text) = Clean(text)
    BY <1>2, <1>3 DEF Deserialized, Migrated
<1>7. QED
    BY <1>4, <1>5, <1>6 DEF clean

----------------------------------------------------------------------------
(* The invariant                                                           *)

OwnedIn(state) == state.cosmetics.ownedSkinIds

BeginsWith(list, head) == Len(head) <= Len(list) /\ \A i \in DOMAIN head : list[i] = head[i]

\* A saved file is the text of a clean state, and a running session, which may be ahead of it,
\* owns its skins in their order, and possibly more after them.
IInv ==
    /\ localState \in LocalStates
    /\ ~saved => file \in HandWritten \cup {NoText}
    /\ saved => \E state : IsClean(state) /\ file = Text(state)
    /\ running /\ saved => BeginsWith(OwnedIn(localState), file.cosmetics.ownedSkinIds)
    /\ SavedIsShown

LEMMA SkinsAreStrings == \A state \in LocalStates : OwnedIn(state) \in Seq(Strings)
BY DEF OwnedIn, LocalStates, Cosmetics

LEMMA DefaultIsClean == IsClean(Default)
<1>1. IsCleanText(<<>>, MaxName)
    BY LimitsAssumption DEF IsCleanText, Strings
<1>2. IsCleanList(<<>>, MaxSkins, MaxSkinId)
    BY LimitsAssumption, EmptyList
<1>3. <<>> \in Strings /\ <<>> \in Seq(Strings)
    BY DEF Strings
<1>4. QED
    BY <1>1, <1>2, <1>3 DEF Default, IsClean, LocalStates, Profiles, Cosmetics, Uis

\* What LocalStorage assumes of sanitizing and of the default (CleanAssumption and
\* DefaultAssumption there) is true of sanitize_local_state.
THEOREM CleanSuitsStorage ==
    LET clean == [state \in LocalStates |-> Clean(state)]
    IN  /\ clean \in [LocalStates -> LocalStates]
        /\ \A state \in LocalStates : clean[clean[state]] = clean[state]
        /\ Default \in {clean[state] : state \in LocalStates}
<1> DEFINE clean == [state \in LocalStates |-> Clean(state)]
<1>1. ASSUME NEW state \in LocalStates
      PROVE  Clean(state) \in LocalStates /\ Clean(Clean(state)) = Clean(state)
    BY StatesAreReadable, CleanCleans, CleanIsIdempotent DEF IsClean
<1>2. Default \in LocalStates /\ Clean(Default) = Default
    BY DefaultIsClean, CleanKeeps DEF IsClean
<1>3. clean \in [LocalStates -> LocalStates]
    BY <1>1
<1>4. \A state \in LocalStates : clean[clean[state]] = clean[state]
    BY <1>1
<1>5. clean[Default] = Default
    BY <1>2
<1>6. QED
    BY <1>2, <1>3, <1>4, <1>5

\* Every file a session starts on is loaded as a clean state; a saved one as the state it is
\* the text of.
LEMMA Loaded ==
    ASSUME IInv, ~Raises(file)
    PROVE  /\ IsClean(Deserialized(file))
           /\ saved => file = Text(Deserialized(file))
<1>1. CASE saved
    <2>1. PICK state : IsClean(state) /\ file = Text(state)
        BY <1>1 DEF IInv
    <2>2. state \in LocalStates /\ Clean(state) = state
        BY <2>1, CleanKeeps DEF IsClean
    <2>3. file = Serialized(state)
        BY <2>1, <2>2 DEF Serialized
    <2>4. QED
        BY <2>1, <2>2, <2>3, SavedTextIsRead
<1>2. CASE ~saved
    <2>1. CASE file \in {NoText, BrokenText}
        BY <1>2, <2>1, DefaultIsClean DEF Deserialized
    <2>2. CASE file \notin {NoText, BrokenText}
        <3>1. file \in HandWritten \ {NoText, BrokenText, Undecodable}
            BY <1>2, <2>2 DEF IInv, Raises
        <3>2. CASE Get(file, "schemaVersion") = 2
            <4>1. Deserialized(file) = Clean(file)
                BY <2>2, <3>2 DEF Deserialized, Migrated
            <4>2. QED
                BY <1>2, <3>1, <3>2, <4>1, CleanCleans, HandWrittenAssumption
        <3>3. CASE Get(file, "schemaVersion") = 1
            <4>1. Deserialized(file) = Clean(FromVersion1(file))
                BY <2>2, <3>3 DEF Deserialized, Migrated
            <4>2. QED
                BY <1>2, <3>1, <3>3, <4>1, CleanCleans, HandWrittenAssumption
        <3>4. CASE Get(file, "schemaVersion") \notin {1, 2}
            <4>1. Deserialized(file) = Default
                BY <2>2, <3>4 DEF Deserialized, Migrated
            <4>2. QED
                BY <1>2, <4>1, DefaultIsClean
        <3>5. QED
            BY <3>2, <3>3, <3>4
    <2>3. QED
        BY <2>1, <2>2
<1>3. QED
    BY <1>1, <1>2

LEMMA InitIInv == Init => IInv
BY DefaultIsClean DEF Init, IInv, SavedIsShown, IsClean

\* What a step does to the skins in the file.
KeepsSkins ==
    saved /\ saved' =>
        ToSet(file.cosmetics.ownedSkinIds) \subseteq ToSet(file'.cosmetics.ownedSkinIds)

\* A change that adds to the owned skins at their end, if at all, may be saved or fail.
LEMMA ChangeIInv ==
    ASSUME IInv, NEW state \in LocalStates, BeginsWith(OwnedIn(state), OwnedIn(localState)),
           ChangeTo(state)
    PROVE  IInv' /\ KeepsSkins
<1> DEFINE old == file.cosmetics.ownedSkinIds
<1>1. ASSUME saved
      PROVE  /\ IsCleanList(old, MaxSkins, MaxSkinId) /\ old \in Seq(Strings)
             /\ BeginsWith(OwnedIn(state), old)
    <2>1. PICK clean : IsClean(clean) /\ file = Text(clean)
        BY <1>1 DEF IInv
    <2>2. IsCleanList(old, MaxSkins, MaxSkinId) /\ old \in Seq(Strings)
        BY <2>1, TextFields DEF IsClean, IsCleanList
    <2>3. BeginsWith(OwnedIn(localState), old)
        BY <1>1 DEF IInv, ChangeTo
    <2>4. OwnedIn(localState) \in Seq(Strings) /\ OwnedIn(state) \in Seq(Strings)
        BY SkinsAreStrings DEF IInv
    <2> HIDE DEF old
    <2>5. /\ Len(old) \in Nat /\ DOMAIN old = 1 .. Len(old)
          /\ Len(OwnedIn(localState)) \in Nat
          /\ DOMAIN OwnedIn(localState) = 1 .. Len(OwnedIn(localState))
          /\ Len(OwnedIn(state)) \in Nat
        BY <2>2, <2>4
    <2>6. BeginsWith(OwnedIn(state), old)
        BY <2>3, <2>5 DEF BeginsWith
    <2>7. QED
        BY <2>2, <2>6
<1>2. CASE Persist(state)
    <2> DEFINE clean == Clean(state)
    <2>1. IsClean(clean) /\ clean \in LocalStates
        BY StatesAreReadable, CleanCleans DEF IsClean
    <2>2. file' = Text(clean) /\ localState' = clean /\ saved'
        BY <1>2, SavedTextIsRead DEF Persist, Serialized
    <2>3. OwnedIn(clean) = UniqueStrings(OwnedIn(state), MaxSkins, MaxSkinId)
        BY FieldsRead DEF Clean, OwnedIn
    <2> HIDE DEF clean
    <2>4. file'.cosmetics.ownedSkinIds = OwnedIn(clean) /\ OwnedIn(clean) \in Seq(Strings)
        BY <2>1, <2>2, TextFields, SkinsAreStrings DEF OwnedIn
    <2>5. KeepsSkins
        <3>1. SUFFICES ASSUME saved
                       PROVE  ToSet(old) \subseteq ToSet(OwnedIn(clean))
            BY <2>4 DEF KeepsSkins
        <3>2. OwnedIn(state) \in Seq(Entries)
            BY SkinsAreStrings, StringLists
        <3>3. IsCleanList(old, MaxSkins, MaxSkinId) /\ BeginsWith(OwnedIn(state), old)
            BY <1>1, <3>1
        <3> HIDE DEF old
        <3>4. QED
            BY <2>3, <3>2, <3>3, HeadIsKept, LimitsAssumption DEF BeginsWith
    <2>6. BeginsWith(OwnedIn(localState)', file'.cosmetics.ownedSkinIds)
        <3>1. OwnedIn(localState)' = OwnedIn(clean)
            BY <2>2 DEF OwnedIn
        <3>2. QED
            BY <2>4, <3>1 DEF BeginsWith
    <2>7. IInv'
        BY <2>1, <2>2, <2>6 DEF IInv, SavedIsShown
    <2>8. QED
        BY <2>5, <2>7
<1>3. CASE PersistFails(state)
    <2>1. localState' = state /\ ahead' /\ file' = file /\ saved' = saved /\ running' = running
        BY <1>3 DEF PersistFails, ChangeTo
    <2>2. KeepsSkins
        BY <2>1 DEF KeepsSkins
    <2>3. saved => BeginsWith(OwnedIn(localState)', file'.cosmetics.ownedSkinIds)
        BY <1>1, <2>1 DEF OwnedIn
    <2>4. QED
        BY <2>1, <2>2, <2>3 DEF IInv, SavedIsShown
<1>4. QED
    BY <1>2, <1>3 DEF ChangeTo

LEMMA SkinAdded ==
    ASSUME NEW owned \in Seq(Strings), NEW skin \in Strings
    PROVE  WithSkin(owned, skin) \in Seq(Strings) /\ BeginsWith(WithSkin(owned, skin), owned)
<1>1. CASE WithSkin(owned, skin) = owned
    BY <1>1 DEF BeginsWith
<1>2. CASE WithSkin(owned, skin) = Append(owned, skin)
    <2>1. /\ Append(owned, skin) \in Seq(Strings)
          /\ Len(owned) \in Nat /\ DOMAIN owned = 1 .. Len(owned)
          /\ Len(Append(owned, skin)) = Len(owned) + 1
          /\ \A i \in 1 .. Len(owned) : Append(owned, skin)[i] = owned[i]
        OBVIOUS
    <2>2. QED
        BY <1>2, <2>1 DEF BeginsWith
<1>3. QED
    BY <1>1, <1>2 DEF WithSkin

\* Every step keeps the invariant and the skins in the file.
LEMMA StepKeeps ==
    ASSUME IInv, [Next]_vars
    PROVE  IInv' /\ KeepsSkins
<1>1. /\ localState \in LocalStates /\ OwnedIn(localState) \in Seq(Strings)
      /\ BeginsWith(OwnedIn(localState), OwnedIn(localState))
    BY SkinsAreStrings DEF IInv, BeginsWith
<1>2. CASE Start
    <2>1. /\ localState' = Deserialized(file) /\ file' = file /\ saved' = saved
          /\ ~Raises(file)
        BY <1>2 DEF Start
    <2>2. IsClean(localState') /\ (saved => file = Text(localState'))
        BY <2>1, Loaded
    <2>3. localState' \in LocalStates
        BY <2>2 DEF IsClean
    <2>4. saved => BeginsWith(OwnedIn(localState)', file'.cosmetics.ownedSkinIds)
        <3>1. SUFFICES ASSUME saved
                       PROVE  BeginsWith(OwnedIn(localState)', file'.cosmetics.ownedSkinIds)
            OBVIOUS
        <3>2. file'.cosmetics.ownedSkinIds = OwnedIn(localState')
            BY <2>1, <2>2, <2>3, <3>1, TextFields DEF OwnedIn
        <3>3. OwnedIn(localState)' = OwnedIn(localState')
            BY DEF OwnedIn
        <3>4. OwnedIn(localState') \in Seq(Strings)
            BY <2>3, SkinsAreStrings
        <3>5. QED
            BY <3>2, <3>3, <3>4 DEF BeginsWith
    <2>5. QED
        BY <2>1, <2>2, <2>3, <2>4 DEF IInv, KeepsSkins, SavedIsShown
<1>3. CASE Stop
    <2>1. Default \in LocalStates
        BY DefaultIsClean DEF IsClean
    <2>2. QED
        BY <1>3, <2>1 DEF Stop, IInv, KeepsSkins, SavedIsShown
<1>4. CASE HandWrite
    BY <1>4 DEF HandWrite, IInv, KeepsSkins, SavedIsShown
<1>5. ASSUME NEW name \in Names, UpdateProfile(name)
      PROVE  IInv' /\ KeepsSkins
    <2> DEFINE state == [localState EXCEPT !.profile.displayName = name]
    <2>1. state \in LocalStates /\ OwnedIn(state) = OwnedIn(localState)
        BY <1>1, InputsAssumption DEF LocalStates, Profiles, OwnedIn
    <2> HIDE DEF state
    <2>2. ChangeTo(state)
        BY <1>5 DEF UpdateProfile, state
    <2>3. QED
        BY <1>1, <2>1, <2>2, ChangeIInv
<1>6. ASSUME NEW enabled \in BOOLEAN, SetHaptics(enabled)
      PROVE  IInv' /\ KeepsSkins
    <2> DEFINE state == [localState EXCEPT !.ui.hapticsEnabled = enabled]
    <2>1. state \in LocalStates /\ OwnedIn(state) = OwnedIn(localState)
        BY <1>1 DEF LocalStates, Uis, OwnedIn
    <2> HIDE DEF state
    <2>2. ChangeTo(state)
        BY <1>6 DEF SetHaptics, state
    <2>3. QED
        BY <1>1, <2>1, <2>2, ChangeIInv
<1>7. CASE SelectTab
    <2> DEFINE state == [localState EXCEPT !.ui.lastTab = "Swipe"]
    <2>1. state \in LocalStates /\ OwnedIn(state) = OwnedIn(localState)
        BY <1>1 DEF LocalStates, Uis, OwnedIn
    <2> HIDE DEF state
    <2>2. ChangeTo(state)
        BY <1>7 DEF SelectTab, state
    <2>3. QED
        BY <1>1, <2>1, <2>2, ChangeIInv
<1>8. ASSUME NEW skin \in SKIN_ITEMS, AcquireOrApplySkin(skin)
      PROVE  IInv' /\ KeepsSkins
    <2> DEFINE state == [localState EXCEPT
                  !.cosmetics = [ownedSkinIds |-> WithSkin(@.ownedSkinIds, skin),
                                 selectedSkinId |-> skin]]
    <2>1. /\ WithSkin(OwnedIn(localState), skin) \in Seq(Strings) /\ skin \in Strings
          /\ BeginsWith(WithSkin(OwnedIn(localState), skin), OwnedIn(localState))
        BY <1>1, SkinAdded, InputsAssumption
    <2>2. state \in LocalStates /\ OwnedIn(state) = WithSkin(OwnedIn(localState), skin)
        BY <1>1, <2>1 DEF LocalStates, Cosmetics, OwnedIn
    <2> HIDE DEF state
    <2>3. ChangeTo(state)
        BY <1>8 DEF AcquireOrApplySkin, state
    <2>4. QED
        BY <1>1, <2>1, <2>2, <2>3, ChangeIInv
<1>9. CASE ResetSavedProfile
    <2>1. Default \in LocalStates
        BY DefaultIsClean DEF IsClean
    <2>2. QED
        BY <1>9, <2>1 DEF ResetSavedProfile, IInv, KeepsSkins, SavedIsShown
<1>10. CASE UNCHANGED vars
    BY <1>10 DEF vars, IInv, KeepsSkins, SavedIsShown, OwnedIn
<1>11. QED
    BY <1>2, <1>3, <1>4, <1>5, <1>6, <1>7, <1>8, <1>9, <1>10 DEF Next

LEMMA Invariance == Spec => []IInv
<1>1. IInv /\ [Next]_vars => IInv'
    BY StepKeeps
<1>2. QED
    BY <1>1, InitIInv, PTL DEF Spec

----------------------------------------------------------------------------
(* What a save promises                                                    *)

\* A save writes what the session shows from then on, and a restart shows it again: of any
\* names, skins and hand-written files, and of a session that has failed to save before.
THEOREM SavedProfileIsShown == Spec => []SavedIsShown
<1>1. IInv => SavedIsShown
    BY DEF IInv
<1>2. QED
    BY <1>1, Invariance, PTL

\* Only a reset or another program takes a saved skin out of the file: acquiring more than the
\* limit, failed saves and restarts never do.
THEOREM SavedSkinsAreKept == Spec => SkinsAreKept
<1>1. IInv /\ [Next]_vars => KeepsSkins
    BY StepKeeps
<1>2. QED
    BY <1>1, Invariance, PTL DEF Spec, SkinsAreKept, KeepsSkins

=============================================================================
