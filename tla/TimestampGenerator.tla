--------------------------- MODULE TimestampGenerator --------------------------
(***************************************************************************)
(* The page of the timestamp generator, the one with two mutations: the    *)
(* first looks up the identifier of a URL with the ID extractor, the       *)
(* second generates the links for the rows in the editor.  A URL is a      *)
(* number that counts submissions, and stands for its identifier as well;  *)
(* of the rows only their number is kept.  The page renders at once here.  *)
(***************************************************************************)
EXTENDS Naturals, Sequences

CONSTANTS
  MaxUrls,   \* bound: URLs submitted on one visit
  MaxClicks, \* bound: clicks on Generate
  MaxRows    \* bound: rows in the editor

ASSUME GeneratorAssumption ==
  MaxUrls \in Nat /\ MaxClicks \in Nat /\ MaxRows \in Nat \ {0, 1}

VARIABLES
  submitted,  \* URLs submitted so far
  videoUrl,   \* the URL, 0 for none
  videoId,    \* the URL that the identifier in the state came from, or 0
  rows,       \* rows in the editor
  urlMut,     \* urlMutation: status, the URL, the identifier it got (or 0)
  genMut,     \* generateMutation: status and its click
  clicks,     \* what each click on Generate sent, and whether it is answered
  moved       \* a URL was submitted since the links were made
              \* (for the properties only)

genVars == <<submitted, videoUrl, videoId, rows, urlMut, genMut, clicks, moved>>

NoLookup == [status |-> "idle", url |-> 0, id |-> 0]
NoLinks == [status |-> "idle", click |-> 0]

GenInit ==
  /\ submitted = 0 /\ videoUrl = 0 /\ videoId = 0 /\ rows = 2
  /\ urlMut = NoLookup /\ genMut = NoLinks
  /\ clicks = <<>> /\ moved = FALSE

GenMounts ==
  /\ submitted' = 0 /\ videoUrl' = 0 /\ videoId' = 0 /\ rows' = 2
  /\ urlMut' = NoLookup /\ genMut' = NoLinks
  /\ clicks' = <<>> /\ moved' = FALSE

\* Mutant of isLoading: only the lookup locks the form.
isLoadingUrl == urlMut.status = "pending"

\* isLoading, and the status of the results panel.
isLoading == urlMut.status = "pending" \/ genMut.status = "pending"

panelStatus == IF isLoading                   THEN "loading"
               ELSE IF "error" \in {urlMut.status, genMut.status} THEN "error"
               ELSE IF genMut.status = "success" THEN "success"
               ELSE "idle"

editorShown == videoId # 0 /\ genMut.status # "success"

\* The results panel has children only if it is a success; they are the links of
\* the mutation's data.
linksShown == panelStatus = "success"

handleUrlSubmit ==
  /\ ~isLoading /\ submitted < MaxUrls
  /\ submitted' = submitted + 1 /\ videoUrl' = submitted + 1
  /\ urlMut' = [status |-> "pending", url |-> submitted + 1, id |-> 0]
  /\ moved' = (genMut.status = "success")
  /\ UNCHANGED <<videoId, rows, genMut, clicks>>

\* onSuccess runs before the mutation is a success.  The extractor may know a
\* list or a channel in the URL and no video: then the old identifier stays.
LookupAnswered ==
  /\ urlMut.status = "pending"
  /\ \/ urlMut' = [urlMut EXCEPT !.status = "error"] /\ UNCHANGED videoId
     \/ urlMut' = [urlMut EXCEPT !.status = "success"] /\ UNCHANGED videoId
     \/ /\ urlMut' = [urlMut EXCEPT !.status = "success", !.id = urlMut.url]
        /\ videoId' = urlMut.url
  /\ UNCHANGED <<submitted, videoUrl, rows, genMut, clicks, moved>>

handleAddRow ==
  /\ editorShown /\ rows < MaxRows /\ rows' = rows + 1
  /\ UNCHANGED <<submitted, videoUrl, videoId, urlMut, genMut, clicks, moved>>

handleRemoveRow ==
  /\ editorShown /\ rows > 1 /\ rows' = rows - 1
  /\ UNCHANGED <<submitted, videoUrl, videoId, urlMut, genMut, clicks, moved>>

\* The button stays enabled while a lookup or another generation is pending.
Generate ==
  /\ editorShown /\ Len(clicks) < MaxClicks
  /\ clicks' = Append(clicks, [url |-> videoUrl, rows |-> rows, open |-> TRUE])
  /\ genMut' = [status |-> "pending", click |-> Len(clicks) + 1]
  /\ UNCHANGED <<submitted, videoUrl, videoId, rows, urlMut, moved>>

\* The answers come in any order; only that of the last click counts.
GenerateAnswered(n) ==
  /\ n \in DOMAIN clicks /\ clicks[n].open
  /\ clicks' = [clicks EXCEPT ![n].open = FALSE]
  /\ IF genMut.click = n
     THEN /\ \E s \in {"success", "error"} : genMut' = [genMut EXCEPT !.status = s]
          /\ moved' = FALSE
     ELSE UNCHANGED <<genMut, moved>>
  /\ UNCHANGED <<submitted, videoUrl, videoId, rows, urlMut>>

\* The button is below the links.  The rows stay.
StartOver ==
  /\ linksShown
  /\ videoId' = 0 /\ videoUrl' = 0 /\ genMut' = NoLinks /\ urlMut' = NoLookup
  /\ UNCHANGED <<submitted, rows, clicks, moved>>

GenNext == \/ handleUrlSubmit \/ LookupAnswered
           \/ handleAddRow \/ handleRemoveRow
           \/ Generate \/ StartOver
           \/ \E n \in 1 .. MaxClicks : GenerateAnswered(n)

--------------------------------------------------------------------------------
\* Links that are shown are those of the URL that was submitted last and of the
\* rows of the last click; but for a URL that was submitted while they were on
\* the page (page.tsx:66 keeps the generation, and so it hides the editor).
LinksOfVideo ==
  linksShown => /\ ~moved => clicks[genMut.click].url = videoUrl
                /\ genMut.click = Len(clicks)

\* The identifier over the editor is of the URL that the editor's Generate sends,
\* once the lookup of that URL has found one; and Start Over forgets both.
IdOfUrl ==
  /\ urlMut.id # 0 => videoId = videoUrl
  /\ videoUrl = 0 => videoId = 0

\* What the page of the generator shows belongs together.
GeneratorAgrees == LinksOfVideo /\ IdOfUrl
================================================================================
