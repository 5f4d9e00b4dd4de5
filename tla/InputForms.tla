------------------------------ MODULE InputForms -------------------------------
(***************************************************************************)
(* The three input forms of the tool pages: the URL field (url-input.tsx), *)
(* the list of URLs (bulk-url-input.tsx) and the text block                *)
(* (text-block-input.tsx).  A behaviour is the life of one form under one  *)
(* page.  The page renders isLoading some time after its call changes, so  *)
(* that a form can be submitted once more although a call is pending.      *)
(***************************************************************************)
EXTENDS UrlForms, Sequences, FiniteSets

CONSTANTS
  Inputs,   \* what may stand in the URL field
  Lines,    \* what may stand in a line of the list
  MaxLines, \* bound: lines in the list
  MaxUrls   \* maxUrls of the list

ASSUME FormsAssumption ==
  /\ Word("blank") \in Inputs
  /\ Inputs \subseteq Bare \cup Urls /\ Lines \subseteq Bare \cup Urls
  /\ MaxLines \in Nat /\ MaxUrls \in Nat \ {0}

VARIABLES
  kind,     \* which form, and what its URL is to be
  text,     \* the state text, or url
  touched, error,
  paste,    \* the clipboard is being read: "no", or touched when it was asked
  pending,  \* the page's call is pending
  loading,  \* isLoading as it was last rendered
  handed,   \* what the form last handed to onSubmit
  late      \* a paste begun in an untouched field ended in a touched one
            \* (for the properties only)

vars == <<kind, text, touched, error, paste, pending, loading, handed, late>>

NoError == "none"  \* nothing to show under the field

UrlKinds == {"video", "extractor", "playlist", "channel"}

\* The pages of timestamp-offset and chapter-validator.
TextKinds == {"offset", "chapters"}

\* The text block counts UTF-16 units, the tools count bytes.  A text of white
\* space alone; one of up to 10,000 units, and of up to 50,000 that has no more
\* bytes than that ("longer") or has ("wide"); and one beyond all limits.
Blocks == {"empty", "spaces", "short", "longer", "wide", "over"}

Lists == UNION {[1 .. n -> Lines] : n \in 0 .. MaxLines}

Texts == CASE kind \in UrlKinds -> Inputs
           [] kind = "bulk"     -> Lists
           [] kind \in TextKinds -> Blocks

Init ==
  /\ kind \in UrlKinds \cup TextKinds \cup {"bulk"}
  /\ text = CASE kind \in UrlKinds -> Word("blank")
              [] kind = "bulk"     -> <<>>
              [] kind \in TextKinds -> "empty"
  /\ touched = FALSE /\ error = NoError /\ paste = "no"
  /\ pending = FALSE /\ loading = FALSE
  /\ handed = <<>> /\ late = FALSE

Submitted(x) == /\ handed' = <<x>>
                /\ pending' = TRUE
                /\ UNCHANGED <<kind, text, paste, loading>>

--------------------------------------------------------------------------------
(***************************************************************************)
(* url-input.tsx                                                           *)
(***************************************************************************)

validate(x) == IF IsWord(x, {"blank"})                 THEN "empty"
               ELSE IF ~validateUrl(x, formType(kind)) THEN "invalid"
               ELSE NoError

\* Mutant of handleChange: it waits for the blur to check again.
handleChangeUnchecked ==
  /\ kind \in UrlKinds /\ ~loading
  /\ \E x \in Inputs : text' = x
  /\ late' = FALSE
  /\ UNCHANGED <<kind, touched, error, paste, pending, loading, handed>>

handleChange ==
  /\ kind \in UrlKinds /\ ~loading
  /\ \E x \in Inputs : /\ text' = x
                       /\ error' = IF touched THEN validate(x) ELSE error
  /\ late' = FALSE
  /\ UNCHANGED <<kind, touched, paste, pending, loading, handed>>

onBlur ==
  /\ kind \in UrlKinds
  /\ touched' = TRUE /\ error' = validate(text)
  /\ late' = FALSE
  /\ UNCHANGED <<kind, text, paste, pending, loading, handed>>

\* The button is enabled.  The error is set and never cleared here.
handleSubmit ==
  /\ kind \in UrlKinds /\ ~loading /\ ~(touched /\ error # NoError)
  /\ touched' = TRUE
  /\ \/ /\ validate(text) # NoError
        /\ error' = validate(text) /\ late' = FALSE
        /\ UNCHANGED <<kind, text, paste, pending, loading, handed>>
     \/ /\ validate(text) = NoError
        /\ Submitted(text)
        /\ UNCHANGED <<error, late>>

\* handlePaste up to its await: the rest of it sees touched as it is here.
handlePaste ==
  /\ kind \in UrlKinds /\ ~loading /\ paste = "no"
  /\ paste' = IF touched THEN "touched" ELSE "untouched"
  /\ UNCHANGED <<kind, text, touched, error, pending, loading, handed, late>>

\* It ends with the clipboard's text, also when the page is loading by now.
pasted ==
  /\ paste # "no" /\ paste' = "no"
  /\ \E x \in Inputs :
       /\ text' = x
       /\ error' = IF paste = "touched" THEN validate(x) ELSE error
  /\ late' = (paste = "untouched" /\ touched)
  /\ UNCHANGED <<kind, touched, pending, loading, handed>>

pasteDenied ==
  /\ paste # "no" /\ paste' = "no"
  /\ UNCHANGED <<kind, text, touched, error, pending, loading, handed, late>>

--------------------------------------------------------------------------------
(***************************************************************************)
(* bulk-url-input.tsx                                                      *)
(***************************************************************************)

\* filter: the elements of the list at the places kept, in their order.
Filter(t, kept) ==
  LET place(n) == Cardinality({m \in kept : m <= n})
  IN  [k \in 1 .. Cardinality(kept) |-> t[CHOOSE n \in kept : place(n) = k]]

listLines(t) == Filter(t, {n \in DOMAIN t : ~IsWord(t[n], {"blank"})})

\* Mutant of validLines: all lines that are not blank.
allLines(t) == listLines(t)

validLines(t) ==
  LET l == listLines(t)
  IN  Filter(l, {n \in DOMAIN l : validateYouTubeUrl(l[n])})
FirstOf(n, s) == IF Len(s) <= n THEN s ELSE SubSeq(s, 1, n)
isOverLimit(t) == Len(validLines(t)) > MaxUrls

OnlyText == UNCHANGED <<kind, touched, error, paste, pending, loading, handed,
                        late>>

bulkChange ==
  /\ kind = "bulk" /\ ~loading
  /\ text' \in Lists
  /\ OnlyText

\* A paste is added to what is there when it ends, loading or not.
bulkPaste ==
  /\ kind = "bulk" /\ Len(text) < MaxLines
  /\ \E l \in Lines : text' = Append(text, l)
  /\ OnlyText

bulkClear ==
  /\ kind = "bulk" /\ text # <<>>
  /\ text' = <<>>
  /\ OnlyText

bulkSubmit ==
  /\ kind = "bulk" /\ validLines(text) # <<>> /\ ~loading /\ ~isOverLimit(text)
  /\ Submitted(FirstOf(MaxUrls, validLines(text)))
  /\ UNCHANGED <<touched, error, late>>

--------------------------------------------------------------------------------
(***************************************************************************)
(* text-block-input.tsx                                                    *)
(***************************************************************************)

\* What is not blank and within maxChars, which is 10,000 on the page of
\* chapter-validator and 50,000 on the other.
Within == IF kind = "chapters" THEN {"short"} ELSE {"short", "longer", "wide"}

blockChange ==
  /\ kind \in TextKinds /\ ~loading
  /\ text' \in Blocks
  /\ OnlyText

\* A paste replaces what is there when it ends, loading or not.
blockPaste ==
  /\ kind \in TextKinds
  /\ text' \in Blocks
  /\ OnlyText

blockClear ==
  /\ kind \in TextKinds
  /\ text' = "empty"
  /\ OnlyText

blockSubmit ==
  /\ kind \in TextKinds /\ text \in Within /\ ~loading
  /\ Submitted(text)
  /\ UNCHANGED <<touched, error, late>>

--------------------------------------------------------------------------------
(***************************************************************************)
(* The page around the form.                                               *)
(***************************************************************************)

settled ==
  /\ pending /\ loading
  /\ pending' = FALSE
  /\ UNCHANGED <<kind, text, touched, error, paste, loading, handed, late>>

render ==
  /\ loading # pending
  /\ loading' = pending
  /\ UNCHANGED <<kind, text, touched, error, paste, pending, handed, late>>

Next ==
  \/ handleChange \/ onBlur \/ handleSubmit
  \/ handlePaste \/ pasted \/ pasteDenied
  \/ bulkChange \/ bulkPaste \/ bulkClear \/ bulkSubmit
  \/ blockChange \/ blockPaste \/ blockClear \/ blockSubmit
  \/ settled \/ render

Spec == Init /\ [][Next]_vars

--------------------------------------------------------------------------------
\* What is shown under the field, and locks its button, is about the text in it;
\* but for a paste that was begun before the field was touched and that ended
\* after (handlePaste reads touched before its await, url-input.tsx:63).
ErrorMatchesText ==
  kind \in UrlKinds /\ touched /\ ~late => error = validate(text)

\* Of what the text block can hold, what its page's tool takes as its text: both
\* count bytes, and only the validator trims before it asks for an empty one.
TakesText(t) == \/ t \in {"short", "longer"}
                \/ kind = "offset" /\ t = "spaces"

\* The single inputs that a form handed over last.
Given == IF handed = <<>> THEN {}
         ELSE IF kind = "bulk" THEN {handed[1][n] : n \in DOMAIN handed[1]}
         ELSE {handed[1]}

\* The inputs that a form refuses before the user's eyes.
Refused == CASE kind \in UrlKinds  -> IF error = "invalid" /\ ~late
                                      THEN {text} ELSE {}
             [] kind = "bulk"      -> {text[n] : n \in
                                        {m \in DOMAIN text :
                                           ~validateYouTubeUrl(text[m])}}
             [] kind \in TextKinds -> {text} \ Within

\* Of the inputs that the features describe: what a form hands over, the tool
\* behind it can read, but for the sloppy links that no anchor keeps out
\* (validation.ts and bulk-url-input.tsx against internal/urlkit; a list with one
\* such line fails as a whole), and for a text of 50,000 characters or fewer that
\* has more bytes than that (text-block-input.tsx against timestamp-offset).
ToolTakesWhatFormGave ==
  \A i \in Given :
     IF kind \in TextKinds THEN TakesText(i) \/ (kind = "offset" /\ i = "wide")
     ELSE Takes(i, kind) \/ Sloppy(i, kind)

\* And what a form refuses, the tool could not have read either, but for the links
\* that are seldom written, for all that is no video on the page of
\* youtube-id-extractor, for white space to be shifted, and for the chapter lists
\* beyond the page's own limit.
FormGivesWhatToolTakes ==
  \A i \in Refused :
     IF kind \in TextKinds
     THEN ~TakesText(i) \/ i = (IF kind = "offset" THEN "spaces" ELSE "longer")
     ELSE ~Takes(i, kind) \/ Uncommon(i, kind)
================================================================================
