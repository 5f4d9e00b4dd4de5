--------------------------- MODULE InputFormsProofs ----------------------------
(***************************************************************************)
(* Theorems of InputForms for all inputs that UrlForms can tell apart, any *)
(* lines and any length of the list.                                       *)
(***************************************************************************)
EXTENDS InputForms, FiniteSetTheorems, TLAPS

--------------------------------------------------------------------------------
(***************************************************************************)
(* Regular expressions against parsers                                     *)
(***************************************************************************)

\* What the form of a kind checks, and what the tools behind it read.
LEMMA ByKind ==
  ASSUME NEW i
  PROVE  /\ validateUrl(i, formType("video")) = validateVideoUrl(i)
         /\ validateUrl(i, formType("extractor")) = validateVideoUrl(i)
         /\ validateUrl(i, formType("playlist")) = validatePlaylistUrl(i)
         /\ validateUrl(i, formType("channel")) = validateChannelUrl(i)
         /\ Takes(i, "video") = ExtractVideoID(i)
         /\ Takes(i, "extractor") = ExtractAny(i)
         /\ Takes(i, "bulk") = ExtractVideoID(i)
         /\ Takes(i, "playlist") = ExtractPlaylistID(i)
         /\ Takes(i, "channel") = ExtractChannelValue(i)
<1>1. /\ formType("video") = "video" /\ formType("extractor") = "video"
      /\ formType("playlist") = "playlist" /\ formType("channel") = "channel"
  BY DEF formType
<1> QED BY <1>1, Zenon DEF validateUrl, Takes

\* No input has both a form and the form of the other kind.
LEMMA FormsOfInputs ==
  /\ \A i \in Bare : i.form = "bare"
  /\ \A i \in Urls : i.form = "url"
  BY DEF Bare, Urls

\* For a whole URL or a word: what a form accepts its tools can read, or it is
\* sloppy.
LEMMA AcceptedIsTaken ==
  ASSUME NEW i \in Bare \cup Urls
  PROVE  /\ validateVideoUrl(i) => ExtractVideoID(i) \/ Sloppy(i, "video")
         /\ validateVideoUrl(i) => ExtractAny(i) \/ Sloppy(i, "extractor")
         /\ validateYouTubeUrl(i) => ExtractVideoID(i) \/ Sloppy(i, "bulk")
         /\ validatePlaylistUrl(i) =>
              ExtractPlaylistID(i) \/ Sloppy(i, "playlist")
         /\ validateChannelUrl(i) =>
              ExtractChannelValue(i) \/ Sloppy(i, "channel")
<1>1. CASE i \in Bare
  BY <1>1, FormsOfInputs
  DEF validateVideoUrl, validateYouTubeUrl, validatePlaylistUrl, ExtractAny,
      validateChannelUrl, ExtractVideoID, ExtractPlaylistID, ExtractChannelValue,
      IsWord, IsUrl
<1>2. CASE i \in Urls
  <2>1. /\ i.form = "url" /\ i.lead \in Leads /\ i.host \in Hosts
        /\ i.path \in Paths /\ i.slash \in BOOLEAN /\ i.id \in Lengths
        /\ i.v \in Values /\ i.list \in Values
        /\ (i.path \in NoId => i.id = "none")
    BY <1>2 DEF Urls
  <2> USE <2>1 DEF IsWord, IsUrl, Begins, Whole, ShortHost, Sloppy, Leads, Hosts,
                   Paths, NoId, Lengths, Values, OnYouTube, OnShortener
  <2>2. validateVideoUrl(i) => ExtractVideoID(i) \/ Sloppy(i, "video")
    BY DEF validateVideoUrl, ExtractVideoID
  <2>3. validateVideoUrl(i) => ExtractVideoID(i) \/ Sloppy(i, "extractor")
    BY DEF validateVideoUrl, ExtractVideoID
  <2>4. validateYouTubeUrl(i) => ExtractVideoID(i) \/ Sloppy(i, "bulk")
    BY DEF validateYouTubeUrl, ExtractVideoID
  <2>5. validatePlaylistUrl(i) => ExtractPlaylistID(i) \/ Sloppy(i, "playlist")
    BY DEF validatePlaylistUrl, ExtractPlaylistID
  <2>6. validateChannelUrl(i) => ExtractChannelValue(i) \/ Sloppy(i, "channel")
    BY DEF validateChannelUrl, ExtractChannelValue
  <2> QED BY <2>2, <2>3, <2>4, <2>5, <2>6 DEF ExtractAny
<1> QED BY <1>1, <1>2

\* And what a form rejects its tools cannot read, or it is uncommon.
LEMMA RejectedIsNotTaken ==
  ASSUME NEW i \in Bare \cup Urls
  PROVE  /\ ExtractVideoID(i) => validateVideoUrl(i) \/ Uncommon(i, "video")
         /\ ExtractAny(i) => validateVideoUrl(i) \/ Uncommon(i, "extractor")
         /\ ExtractVideoID(i) => validateYouTubeUrl(i) \/ Uncommon(i, "bulk")
         /\ ExtractPlaylistID(i) =>
              validatePlaylistUrl(i) \/ Uncommon(i, "playlist")
         /\ ExtractChannelValue(i) =>
              validateChannelUrl(i) \/ Uncommon(i, "channel")
<1>1. CASE i \in Bare
  BY <1>1, FormsOfInputs
  DEF validateVideoUrl, validateYouTubeUrl, validatePlaylistUrl, Uncommon,
      validateChannelUrl, ExtractVideoID, ExtractPlaylistID, ExtractChannelValue,
      IsWord, IsUrl, OnYouTube, OnShortener
<1>2. CASE i \in Urls
  <2>1. /\ i.form = "url" /\ i.lead \in Leads /\ i.host \in Hosts
        /\ i.path \in Paths /\ i.slash \in BOOLEAN /\ i.id \in Lengths
        /\ i.v \in Values /\ i.list \in Values
    BY <1>2 DEF Urls
  <2> USE <2>1 DEF IsWord, IsUrl, Begins, Whole, ShortHost, Leads, Hosts,
                   Paths, NoId, Lengths, Values, OnYouTube, OnShortener
  <2>2. ExtractVideoID(i) => validateVideoUrl(i) \/ Uncommon(i, "video")
    BY DEF validateVideoUrl, ExtractVideoID, Uncommon
  <2>3. ExtractAny(i) => validateVideoUrl(i) \/ Uncommon(i, "extractor")
    <3>1. CASE ExtractVideoID(i)
      BY <2>2, <3>1 DEF Uncommon
    <3>2. CASE ~ExtractVideoID(i)
      BY <3>2, Zenon DEF Uncommon
    <3> QED BY <3>1, <3>2
  <2>4. ExtractVideoID(i) => validateYouTubeUrl(i) \/ Uncommon(i, "bulk")
    BY DEF validateYouTubeUrl, ExtractVideoID, Uncommon
  <2>5. ExtractPlaylistID(i) => validatePlaylistUrl(i) \/ Uncommon(i, "playlist")
    BY DEF validatePlaylistUrl, ExtractPlaylistID, Uncommon
  <2>6. ExtractChannelValue(i) => validateChannelUrl(i) \/ Uncommon(i, "channel")
    BY DEF validateChannelUrl, ExtractChannelValue, Uncommon
  <2> QED BY <2>2, <2>3, <2>4, <2>5, <2>6
<1> QED BY <1>1, <1>2

--------------------------------------------------------------------------------
(***************************************************************************)
(* The lines that a filter keeps                                           *)
(***************************************************************************)

\* The elements of a set of places are counted off: each number up to its size
\* is the place of one of them.
LEMMA CountedOff ==
  ASSUME NEW n \in Nat, NEW kept \in SUBSET (1 .. n)
  PROVE  /\ Cardinality(kept) \in Nat
         /\ \A k \in 1 .. Cardinality(kept) :
              \E i \in kept : Cardinality({m \in kept : m <= i}) = k
<1> DEFINE upTo(i) == {m \in kept : m <= i}
           place == [i \in kept |-> Cardinality(upTo(i))]
           N == Cardinality(kept)
<1>1. IsFiniteSet(kept) /\ N \in Nat
  <2>1. IsFiniteSet(1 .. n)
    BY FS_Interval
  <2> QED BY <2>1, FS_Subset, FS_CardinalityType
<1>2. ASSUME NEW i \in kept
      PROVE  /\ IsFiniteSet(upTo(i)) /\ Cardinality(upTo(i)) \in Nat
             /\ Cardinality(upTo(i)) # 0 /\ Cardinality(upTo(i)) <= N
  <2>1. upTo(i) \in SUBSET kept /\ upTo(i) # {}
    OBVIOUS
  <2> HIDE DEF upTo
  <2>2. IsFiniteSet(upTo(i)) /\ Cardinality(upTo(i)) <= N
    BY <1>1, <2>1, FS_Subset
  <2>3. Cardinality(upTo(i)) \in Nat /\ Cardinality(upTo(i)) # 0
    BY <2>1, <2>2, FS_CardinalityType, FS_EmptySet
  <2> QED BY <2>2, <2>3
<1>3. ASSUME NEW i \in kept, NEW j \in kept, i < j
      PROVE  Cardinality(upTo(i)) # Cardinality(upTo(j))
  <2>1. upTo(i) \in SUBSET upTo(j) /\ j \in upTo(j) /\ j \notin upTo(i)
    <3>1. i \in Nat /\ j \in Nat /\ \A m \in kept : m \in Nat
      OBVIOUS
    <3>2. \A m \in kept : m <= i => m <= j
      BY <1>3, <3>1
    <3>3. j <= j /\ ~(j <= i)
      BY <1>3, <3>1
    <3> QED BY <3>2, <3>3
  <2> HIDE DEF upTo
  <2> QED BY <1>2, <2>1, FS_Subset
<1>4. place \in Injection(kept, 1 .. N)
  <2>1. place \in [kept -> 1 .. N]
    <3> HIDE DEF upTo
    <3> QED BY <1>1, <1>2
  <2>2. ASSUME NEW i \in kept, NEW j \in kept, i # j PROVE place[i] # place[j]
    <3>1. i < j \/ j < i
      BY <2>2
    <3> HIDE DEF upTo
    <3> QED BY <1>3, <3>1
  <2> HIDE DEF place, N
  <2> QED BY <2>1, <2>2 DEF Injection, IsInjective
<1>5. IsFiniteSet(1 .. N) /\ Cardinality(1 .. N) = N
  <2>1. IsFiniteSet(1 .. N) /\ Cardinality(1 .. N) = IF 1 > N THEN 0 ELSE N - 1 + 1
    BY <1>1, FS_Interval
  <2> QED BY <1>1, <2>1
<1>6. place \in Surjection(kept, 1 .. N)
  BY <1>1, <1>4, <1>5, FS_Injection
<1>7. \A k \in 1 .. N : \E i \in kept : place[i] = k
  BY <1>6 DEF Surjection
<1> QED BY <1>1, <1>7

\* What a filter returns stood at one of the places kept.
LEMMA FilterKeeps ==
  ASSUME NEW S, NEW t \in Seq(S), NEW kept \in SUBSET DOMAIN t
  PROVE  /\ Filter(t, kept) \in Seq(S)
         /\ \A k \in DOMAIN Filter(t, kept) :
              \E n \in kept : Filter(t, kept)[k] = t[n]
<1> DEFINE place(n) == Cardinality({m \in kept : m <= n})
           at(k) == CHOOSE n \in kept : place(n) = k
<1>1. Filter(t, kept) = [k \in 1 .. Cardinality(kept) |-> t[at(k)]]
  BY DEF Filter
<1>2. /\ Cardinality(kept) \in Nat
      /\ \A k \in 1 .. Cardinality(kept) : \E n \in kept : place(n) = k
  <2>1. Len(t) \in Nat /\ kept \in SUBSET (1 .. Len(t))
    OBVIOUS
  <2> QED BY <2>1, CountedOff
<1>3. \A k \in 1 .. Cardinality(kept) : at(k) \in kept
  BY <1>2
<1>4. \A n \in kept : t[n] \in S
  OBVIOUS
<1> HIDE DEF at
<1> QED BY <1>1, <1>2, <1>3, <1>4

\* The lines that are valid are lines, and each of them is valid.
LEMMA ValidAreValid ==
  ASSUME NEW S, NEW t \in Seq(S)
  PROVE  /\ validLines(t) \in Seq(S)
         /\ \A n \in DOMAIN validLines(t) : validateYouTubeUrl(validLines(t)[n])
<1> DEFINE l == listLines(t)
           kept == {n \in DOMAIN l : validateYouTubeUrl(l[n])}
<1>1. validLines(t) = Filter(l, kept)
  BY DEF validLines
<1>2. l \in Seq(S)
  BY FilterKeeps DEF listLines
<1> HIDE DEF l
<1>3. kept \in SUBSET DOMAIN l /\ \A n \in kept : validateYouTubeUrl(l[n])
  OBVIOUS
<1> HIDE DEF kept
<1>4. /\ Filter(l, kept) \in Seq(S)
      /\ \A k \in DOMAIN Filter(l, kept) : \E n \in kept : Filter(l, kept)[k] = l[n]
  BY <1>2, <1>3, FilterKeeps
<1> QED BY <1>1, <1>3, <1>4

\* And so are the first of them.
LEMMA FirstOfList ==
  ASSUME NEW S, NEW s \in Seq(S)
  PROVE  /\ FirstOf(MaxUrls, s) \in Seq(S)
         /\ \A n \in DOMAIN FirstOf(MaxUrls, s) :
              n \in DOMAIN s /\ FirstOf(MaxUrls, s)[n] = s[n]
  BY FormsAssumption DEF FirstOf

--------------------------------------------------------------------------------
(***************************************************************************)
(* The machine of the forms                                                *)
(***************************************************************************)

TextInv ==
  /\ kind \in UrlKinds \cup TextKinds \cup {"bulk"}
  /\ kind \in UrlKinds => text \in Bare \cup Urls
  /\ kind = "bulk" => text \in Seq(Bare \cup Urls)
  /\ touched \in BOOLEAN /\ late \in BOOLEAN
  /\ paste \in {"no", "touched", "untouched"}

\* The error is that of the text since the field was touched, and before that
\* there is none.  A paste that will check the text began in a touched field.
FieldInv ==
  /\ kind \in UrlKinds =>
       /\ touched /\ ~late => error = validate(text)
       /\ ~touched => error = NoError
       /\ paste = "touched" => touched
  /\ kind \notin UrlKinds => paste = "no"

\* What a field handed over had no error, what a list handed over is valid line
\* for line, and what a block handed over is within its limit.
HandedInv ==
  /\ kind \in UrlKinds /\ handed # <<>> =>
       /\ handed[1] \in Bare \cup Urls
       /\ validate(handed[1]) = NoError
  /\ kind = "bulk" /\ handed # <<>> =>
       \A n \in DOMAIN handed[1] : /\ handed[1][n] \in Bare \cup Urls
                                   /\ validateYouTubeUrl(handed[1][n])
  /\ kind \in TextKinds /\ handed # <<>> => handed[1] \in Within

FormInv == TextInv /\ FieldInv /\ HandedInv

LEMMA KindsApart ==
  /\ "bulk" \notin UrlKinds /\ "bulk" \notin TextKinds
  /\ \A k \in TextKinds : k \notin UrlKinds
  BY DEF UrlKinds, TextKinds

LEMMA BlankFits == Word("blank") \in Bare /\ IsWord(Word("blank"), {"blank"})
  BY DEF Word, Bare, IsWord

LEMMA FormStarts == Init => FormInv
<1> SUFFICES ASSUME Init PROVE FormInv
  OBVIOUS
<1>1. kind \in UrlKinds => text = Word("blank")
  BY Zenon, KindsApart DEF Init
<1>2. kind = "bulk" => text = <<>>
  BY Zenon, KindsApart DEF Init
<1>3. /\ kind \in UrlKinds \cup TextKinds \cup {"bulk"}
      /\ touched = FALSE /\ late = FALSE /\ paste = "no" /\ error = NoError
      /\ handed = <<>>
  BY Zenon DEF Init
<1>4. TextInv
  <2>1. kind \in UrlKinds => text \in Bare \cup Urls
    BY <1>1, BlankFits
  <2>2. kind = "bulk" => text \in Seq(Bare \cup Urls)
    BY <1>2
  <2> QED BY <1>3, <2>1, <2>2 DEF TextInv
<1>5. FieldInv /\ HandedInv
  BY <1>3 DEF FieldInv, HandedInv
<1> QED BY <1>4, <1>5 DEF FormInv

\* The lists are sequences of lines.
LEMMA ListsAreLines == Lists \subseteq Seq(Bare \cup Urls)
<1> SUFFICES ASSUME NEW t \in Lists PROVE t \in Seq(Bare \cup Urls)
  OBVIOUS
<1>1. PICK n \in 0 .. MaxLines : t \in [1 .. n -> Lines]
  BY DEF Lists
<1> QED BY <1>1, FormsAssumption

LEMMA FieldKeeps ==
  ASSUME FormInv, kind \in UrlKinds,
         \/ handleChange \/ onBlur \/ handleSubmit \/ handlePaste \/ pasted
         \/ pasteDenied
  PROVE  FormInv'
<1>1. Inputs \subseteq Bare \cup Urls
  BY FormsAssumption
<1>2. CASE handleChange
  BY <1>1, <1>2, KindsApart
  DEF handleChange, FormInv, TextInv, FieldInv, HandedInv, validate
<1>3. CASE onBlur
  BY <1>3, KindsApart
  DEF onBlur, FormInv, TextInv, FieldInv, HandedInv, validate
<1>4. CASE handleSubmit
  <2>1. CASE validate(text) # NoError
    BY <1>4, <2>1, KindsApart
    DEF handleSubmit, FormInv, TextInv, FieldInv, HandedInv, validate
  <2>2. CASE validate(text) = NoError
    <3>1. Submitted(text) /\ UNCHANGED <<error, late>> /\ touched' = TRUE
      BY <1>4, <2>2 DEF handleSubmit
    <3>2. error = NoError \/ late
      BY <1>4, <2>2 DEF handleSubmit, FormInv, TextInv, FieldInv
    <3>3. handed' = <<text>> /\ UNCHANGED <<kind, text, paste>>
      BY <3>1 DEF Submitted
    <3>4. TextInv' /\ FieldInv'
      BY <2>2, <3>1, <3>2, <3>3, KindsApart
      DEF FormInv, TextInv, FieldInv, validate
    <3>5. HandedInv'
      BY <2>2, <3>3, KindsApart DEF FormInv, TextInv, HandedInv, validate
    <3> QED BY <3>4, <3>5 DEF FormInv
  <2> QED BY <2>1, <2>2
<1>5. CASE handlePaste
  BY <1>5, KindsApart
  DEF handlePaste, FormInv, TextInv, FieldInv, HandedInv, validate
<1>6. CASE pasted
  BY <1>1, <1>6, KindsApart
  DEF pasted, FormInv, TextInv, FieldInv, HandedInv, validate
<1>7. CASE pasteDenied
  BY <1>7, KindsApart
  DEF pasteDenied, FormInv, TextInv, FieldInv, HandedInv, validate
<1> QED BY <1>2, <1>3, <1>4, <1>5, <1>6, <1>7

LEMMA ListKeeps ==
  ASSUME FormInv, kind = "bulk", bulkChange \/ bulkPaste \/ bulkClear \/ bulkSubmit
  PROVE  FormInv'
<1>1. kind \notin UrlKinds \cup TextKinds /\ Lines \subseteq Bare \cup Urls
  BY KindsApart, FormsAssumption
<1>2. UNCHANGED <<kind, paste>> /\ touched' = touched /\ late' = late
  BY DEF bulkChange, bulkPaste, bulkClear, bulkSubmit, OnlyText, Submitted
<1>3. text' \in Seq(Bare \cup Urls)
  <2>1. text \in Seq(Bare \cup Urls)
    BY DEF FormInv, TextInv
  <2>2. CASE bulkChange
    BY <2>2, ListsAreLines DEF bulkChange
  <2>3. CASE bulkPaste
    BY <1>1, <2>1, <2>3 DEF bulkPaste
  <2>4. CASE bulkClear
    BY <2>4 DEF bulkClear
  <2>5. CASE bulkSubmit
    BY <2>1, <2>5 DEF bulkSubmit, Submitted
  <2> QED BY <2>2, <2>3, <2>4, <2>5
<1>4. HandedInv'
  <2>1. CASE bulkSubmit
    <3> DEFINE v == validLines(text)
               h == FirstOf(MaxUrls, v)
    <3>1. /\ v \in Seq(Bare \cup Urls)
          /\ \A n \in DOMAIN v : validateYouTubeUrl(v[n])
      BY ValidAreValid DEF FormInv, TextInv
    <3>2. handed' = <<h>>
      BY <2>1 DEF bulkSubmit, Submitted
    <3> HIDE DEF v
    <3>3. /\ h \in Seq(Bare \cup Urls)
          /\ \A n \in DOMAIN h : n \in DOMAIN v /\ h[n] = v[n]
      BY <3>1, FirstOfList
    <3> HIDE DEF h
    <3>4. handed'[1] = h
      BY <3>2
    <3>5. \A n \in DOMAIN h : h[n] \in Bare \cup Urls /\ validateYouTubeUrl(h[n])
      BY <3>1, <3>3
    <3> QED BY <1>1, <1>2, <3>4, <3>5 DEF HandedInv
  <2>2. CASE bulkChange \/ bulkPaste \/ bulkClear
    <3>1. handed' = handed
      BY <2>2 DEF bulkChange, bulkPaste, bulkClear, OnlyText
    <3> QED BY <1>1, <1>2, <3>1 DEF FormInv, HandedInv
  <2> QED BY <2>1, <2>2
<1> QED BY <1>1, <1>2, <1>3, <1>4 DEF FormInv, TextInv, FieldInv

LEMMA BlockKeeps ==
  ASSUME FormInv, kind \in TextKinds,
         blockChange \/ blockPaste \/ blockClear \/ blockSubmit
  PROVE  FormInv'
<1>1. kind \notin UrlKinds /\ kind # "bulk"
  BY KindsApart
<1>2. UNCHANGED <<kind, paste>> /\ touched' = touched /\ late' = late
  BY DEF blockChange, blockPaste, blockClear, blockSubmit, OnlyText, Submitted
<1>3. handed' # <<>> => handed'[1] \in Within'
  <2>1. Within' = Within
    BY <1>2 DEF Within
  <2>2. CASE blockSubmit
    BY <2>1, <2>2 DEF blockSubmit, Submitted
  <2>3. CASE blockChange \/ blockPaste \/ blockClear
    BY <2>1, <2>3
    DEF blockChange, blockPaste, blockClear, OnlyText, FormInv, HandedInv
  <2> QED BY <2>2, <2>3
<1> QED BY <1>1, <1>2, <1>3 DEF FormInv, TextInv, FieldInv, HandedInv

\* Every step is one of the form that there is, or one of the page around it.
LEMMA FormSteps ==
  ASSUME FormInv, [Next]_vars
  PROVE  FormInv'
<1>1. CASE settled \/ render \/ UNCHANGED vars
  BY <1>1
  DEF settled, render, vars, FormInv, TextInv, FieldInv, HandedInv, validate,
      Within
<1>2. CASE handleChange \/ onBlur \/ handleSubmit \/ handlePaste \/ pasted
           \/ pasteDenied
  <2>1. kind \in UrlKinds
    BY <1>2
    DEF handleChange, onBlur, handleSubmit, handlePaste, pasted, pasteDenied,
        FormInv, FieldInv
  <2> QED BY <1>2, <2>1, FieldKeeps
<1>3. CASE bulkChange \/ bulkPaste \/ bulkClear \/ bulkSubmit
  BY <1>3, ListKeeps DEF bulkChange, bulkPaste, bulkClear, bulkSubmit
<1>4. CASE blockChange \/ blockPaste \/ blockClear \/ blockSubmit
  BY <1>4, BlockKeeps DEF blockChange, blockPaste, blockClear, blockSubmit
<1> QED BY <1>1, <1>2, <1>3, <1>4 DEF Next

LEMMA FormsKeepInv == Spec => []FormInv
<1>1. Init => FormInv
  BY FormStarts
<1>2. FormInv /\ [Next]_vars => FormInv'
  BY FormSteps
<1> QED BY <1>1, <1>2, PTL DEF Spec

\* A text that the field calls invalid does not pass the check of its type.
LEMMA InvalidFails ==
  ASSUME kind \in UrlKinds, NEW x
  PROVE  /\ validate(x) = "invalid" => ~validateUrl(x, formType(kind))
         /\ validate(x) = NoError => validateUrl(x, formType(kind))
  BY DEF validate, NoError

LEMMA InvShows == FormInv => ErrorMatchesText /\ FormGivesWhatToolTakes
<1> SUFFICES ASSUME FormInv PROVE ErrorMatchesText /\ FormGivesWhatToolTakes
  OBVIOUS
<1>1. ErrorMatchesText
  BY DEF FormInv, FieldInv, ErrorMatchesText
<1>2. ASSUME kind \in UrlKinds PROVE FormGivesWhatToolTakes
  <2>1. Refused = IF error = "invalid" /\ ~late THEN {text} ELSE {}
    BY <1>2, Zenon, KindsApart DEF Refused
  <2>2. SUFFICES ASSUME error = "invalid", ~late
                 PROVE  ~Takes(text, kind) \/ Uncommon(text, kind)
    BY <1>2, <2>1, KindsApart DEF FormGivesWhatToolTakes
  <2>3. validate(text) = "invalid"
    BY <1>2, <2>2 DEF FormInv, TextInv, FieldInv, NoError
  <2>4. ~validateUrl(text, formType(kind)) /\ text \in Bare \cup Urls
    BY <1>2, <2>3, InvalidFails DEF FormInv, TextInv
  <2> QED BY <1>2, <2>4, ByKind, RejectedIsNotTaken DEF UrlKinds
<1>3. ASSUME kind = "bulk" PROVE FormGivesWhatToolTakes
  <2>1. Refused = {text[n] : n \in {m \in DOMAIN text : ~validateYouTubeUrl(text[m])}}
    BY <1>3, Zenon, KindsApart DEF Refused
  <2>2. SUFFICES ASSUME NEW n \in DOMAIN text, ~validateYouTubeUrl(text[n])
                 PROVE  ~Takes(text[n], "bulk") \/ Uncommon(text[n], "bulk")
    BY <1>3, <2>1, KindsApart DEF FormGivesWhatToolTakes
  <2>3. text[n] \in Bare \cup Urls
    BY <1>3, <2>2 DEF FormInv, TextInv
  <2> QED BY <2>2, <2>3, ByKind, RejectedIsNotTaken
<1>4. ASSUME kind \in TextKinds PROVE FormGivesWhatToolTakes
  <2>1. Refused = {text} \ Within
    <3>1. kind \notin UrlKinds /\ kind # "bulk"
      BY <1>4, KindsApart
    <3> QED BY <1>4, <3>1, Zenon DEF Refused
  <2>2. SUFFICES ASSUME text \notin Within
                 PROVE  \/ ~TakesText(text)
                        \/ text = (IF kind = "offset" THEN "spaces" ELSE "longer")
    BY <1>4, <2>1 DEF FormGivesWhatToolTakes
  <2> QED BY <1>4, <2>2 DEF TakesText, Within, TextKinds
<1>5. FormGivesWhatToolTakes
  BY <1>2, <1>3, <1>4 DEF FormInv, TextInv
<1> QED BY <1>1, <1>5

--------------------------------------------------------------------------------
(***************************************************************************)
(* Theorems                                                                *)
(***************************************************************************)

\* What stands under a touched URL field is about the text in it, whatever order
\* typing, leaving, submitting and pastes that end late come in; but for the paste
\* that was begun before the field was touched (url-input.tsx).
THEOREM ErrorsMatch == Spec => []ErrorMatchesText
  BY FormsKeepInv, InvShows, PTL

\* What a form refuses before the user's eyes, of all inputs that the features
\* describe, its tool would not have read, but for the uncommon links, the rest that
\* the extractor takes, white space to be shifted and long chapter lists.
THEOREM RefusedIsNotTaken == Spec => []FormGivesWhatToolTakes
  BY FormsKeepInv, InvShows, PTL

\* What a form hands over, of the inputs that the features describe, the tool behind
\* it can read, but for the sloppy links and for a text that is short in characters
\* and too long in bytes.
THEOREM GivesWhatIsTaken == Spec => []ToolTakesWhatFormGave
<1>1. FormInv => ToolTakesWhatFormGave
  <2> SUFFICES ASSUME FormInv, handed # <<>> PROVE ToolTakesWhatFormGave
    BY DEF ToolTakesWhatFormGave, Given
  <2>1. CASE kind \in UrlKinds
    <3>1. Given = {handed[1]}
      BY <2>1, KindsApart DEF Given
    <3>2. /\ handed[1] \in Bare \cup Urls
          /\ validateUrl(handed[1], formType(kind))
      BY <2>1, InvalidFails DEF FormInv, HandedInv
    <3>3. Takes(handed[1], kind) \/ Sloppy(handed[1], kind)
      BY <2>1, <3>2, ByKind, AcceptedIsTaken DEF UrlKinds
    <3> QED BY <2>1, <3>1, <3>3, KindsApart DEF ToolTakesWhatFormGave
  <2>2. CASE kind = "bulk"
    <3>1. Given = {handed[1][n] : n \in DOMAIN handed[1]}
      BY <2>2, Zenon, KindsApart DEF Given
    <3>2. ASSUME NEW n \in DOMAIN handed[1]
          PROVE  Takes(handed[1][n], "bulk") \/ Sloppy(handed[1][n], "bulk")
      <4>1. handed[1][n] \in Bare \cup Urls /\ validateYouTubeUrl(handed[1][n])
        BY <2>2, <3>2 DEF FormInv, HandedInv
      <4> QED BY <4>1, ByKind, AcceptedIsTaken
    <3> QED BY <2>2, <3>1, <3>2, KindsApart DEF ToolTakesWhatFormGave
  <2>3. CASE kind \in TextKinds
    <3>1. Given = {handed[1]}
      BY <2>3, KindsApart DEF Given
    <3>2. handed[1] \in Within
      BY <2>3 DEF FormInv, HandedInv
    <3>3. TakesText(handed[1]) \/ (kind = "offset" /\ handed[1] = "wide")
      BY <2>3, <3>2 DEF TakesText, Within, TextKinds
    <3> QED BY <2>3, <3>1, <3>3 DEF ToolTakesWhatFormGave
  <2> QED BY <2>1, <2>2, <2>3 DEF FormInv, TextInv
<1> QED BY <1>1, FormsKeepInv, PTL
================================================================================
