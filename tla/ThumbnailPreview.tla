---------------------------- MODULE ThumbnailPreview ---------------------------
(***************************************************************************)
(* The page that previews a thumbnail, of a video or of an uploaded file,  *)
(* and the upload panel in it (image-upload.tsx).  The panel and the page  *)
(* each read the file with a FileReader of their own; no reader is ever    *)
(* aborted.  The choices of the user are numbered.                         *)
(***************************************************************************)
EXTENDS Naturals

CONSTANT MaxChoices  \* bound: files and URLs chosen on one visit

ASSUME PreviewAssumption == MaxChoices \in Nat

VARIABLES
  uploaded,   \* uploadedImage of the page: the choice it is from, 0 for none
  preview,    \* preview of the panel
  pageReads,  \* files that a reader of the page still reads
  panelReads, \* files that a reader of the panel still reads
  fetching,   \* the mutation: its status and the choice it is for
  choices,    \* choices made so far
  chosen,     \* the last choice, its kind, and whether a reader disturbed it
  badFile     \* the panel shows an error (for a file of a wrong type or size)

previewVars == <<uploaded, preview, pageReads, panelReads, fetching, choices,
                 chosen, badFile>>

NoFetch == [status |-> "idle", choice |-> 0]
Nothing == [kind |-> "none", choice |-> 0, disturbed |-> FALSE]

PreviewInit ==
  /\ uploaded = 0 /\ preview = 0 /\ pageReads = {} /\ panelReads = {}
  /\ fetching = NoFetch /\ choices = 0 /\ chosen = Nothing /\ badFile = FALSE

PreviewMounts ==
  /\ uploaded' = 0 /\ preview' = 0 /\ pageReads' = {} /\ panelReads' = {}
  /\ fetching' = NoFetch /\ choices' = 0 /\ chosen' = Nothing
  /\ badFile' = FALSE

\* A reader that is at work when the user chooses again will land in the later
\* choice.
Chooses(kind) ==
  /\ choices < MaxChoices /\ choices' = choices + 1
  /\ chosen' = [kind |-> kind, choice |-> choices + 1,
                disturbed |-> pageReads \cup panelReads # {}]

--------------------------------------------------------------------------------

\* processFile with a good file: the panel's reader, and handleImageUpload of the
\* page, which drops the mutation so that the image takes precedence.
processFile ==
  /\ Chooses("file")
  /\ panelReads' = panelReads \cup {choices + 1}
  /\ pageReads' = pageReads \cup {choices + 1}
  /\ fetching' = NoFetch
  /\ badFile' = FALSE
  /\ UNCHANGED <<uploaded, preview>>

\* A file of a wrong type, or too big: what is shown stays.
rejectFile ==
  /\ badFile' = TRUE
  /\ UNCHANGED <<uploaded, preview, pageReads, panelReads, fetching, choices,
                 chosen>>

\* Remove image, or a dialog that is left without a file.
handleClear ==
  /\ preview' = 0 /\ uploaded' = 0 /\ badFile' = FALSE
  /\ chosen' = IF chosen.kind = "url" THEN chosen
               ELSE [Nothing EXCEPT !.disturbed = pageReads \cup panelReads # {}]
  /\ UNCHANGED <<pageReads, panelReads, fetching, choices>>

\* onload, of any reader at work.
pageLoaded ==
  /\ \E f \in pageReads : uploaded' = f /\ pageReads' = pageReads \ {f}
  /\ UNCHANGED <<preview, panelReads, fetching, choices, chosen, badFile>>

panelLoaded ==
  /\ \E f \in panelReads : preview' = f /\ panelReads' = panelReads \ {f}
  /\ UNCHANGED <<uploaded, pageReads, fetching, choices, chosen, badFile>>

\* A reader at work fails: neither has an onerror, so what was there stays.
pageReadFails ==
  /\ \E f \in pageReads : pageReads' = pageReads \ {f}
  /\ chosen' = [chosen EXCEPT !.disturbed = TRUE]
  /\ UNCHANGED <<uploaded, preview, panelReads, fetching, choices, badFile>>

panelReadFails ==
  /\ \E f \in panelReads : panelReads' = panelReads \ {f}
  /\ chosen' = [chosen EXCEPT !.disturbed = TRUE]
  /\ UNCHANGED <<uploaded, preview, pageReads, fetching, choices, badFile>>

\* Mutant of submitUrl: the uploaded image stays and takes precedence.
submitUrlBehind ==
  /\ fetching.status # "pending"
  /\ Chooses("url")
  /\ fetching' = [status |-> "pending", choice |-> choices + 1]
  /\ UNCHANGED <<uploaded, preview, pageReads, panelReads, badFile>>

\* A submission of the form.  The panel is not told.
submitUrl ==
  /\ fetching.status # "pending"
  /\ Chooses("url")
  /\ uploaded' = 0
  /\ fetching' = [status |-> "pending", choice |-> choices + 1]
  /\ UNCHANGED <<preview, pageReads, panelReads, badFile>>

\* An answer to a mutation that has been reset reaches nobody.
previewAnswered ==
  /\ fetching.status = "pending"
  /\ \E s \in {"success", "error"} : fetching' = [fetching EXCEPT !.status = s]
  /\ UNCHANGED <<uploaded, preview, pageReads, panelReads, choices, chosen,
                 badFile>>

PreviewNext ==
  \/ processFile \/ rejectFile \/ handleClear \/ pageLoaded \/ panelLoaded
  \/ pageReadFails \/ panelReadFails \/ submitUrl \/ previewAnswered

--------------------------------------------------------------------------------

\* activeImageUrl, by the choice it is from.
activeImage == IF uploaded # 0 THEN uploaded
               ELSE IF fetching.status = "success" THEN fetching.choice ELSE 0

settledPreview ==
  pageReads = {} /\ panelReads = {} /\ fetching.status # "pending"

\* When nothing is at work any more, the mockups show what the user chose last,
\* and nothing that was removed; the panel shows the same file.  But for readers
\* that were at work when it was chosen: these land in any order (image-upload.tsx:39,
\* page.tsx:42).  And but for a reader that failed: then the image of an earlier
\* choice stays, without an error, as if it were the file that was chosen.
LastChoiceShown ==
  settledPreview /\ ~chosen.disturbed =>
    /\ activeImage \in {chosen.choice} \cup
         IF fetching.status = "error" THEN {0} ELSE {}
    /\ chosen.kind = "file" => preview = chosen.choice
================================================================================
