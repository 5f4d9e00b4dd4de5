--------------------------------- MODULE Site ----------------------------------
(***************************************************************************)
(* The pages of the site under one router.  One page is mounted at a time; *)
(* a visit to another drops the state of the old one and whatever it       *)
(* waited for.                                                             *)
(***************************************************************************)
EXTENDS ToolPage, TimestampGenerator, ThumbnailPreview, ResultTable,
        ChapterText

VARIABLE
  route  \* the kind of the page: "tool" (which one is in page), or one of the two
         \* pages with a machine of their own, or the old address of a page; or the
         \* page of the bulk metadata extractor seen by its table alone, or those
         \* for lists of chapters by their text

vars == <<pageVars, genVars, previewVars, tableVars, chapterVars, route>>

Routes == {"tool", "timestamp-generator", "thumbnail-preview",
           "channel-id-finder", "table", "chapters"}

Init ==
  /\ ToolInit /\ GenInit /\ PreviewInit /\ TableInit /\ ChapterInit
  /\ route = "tool"

\* What page says while no tool page is open; it is of no account.
anyPage == CHOOSE p \in Pages : TRUE

\* A link to another page.
Go(r) ==
  /\ route' = r
  /\ GenMounts /\ PreviewMounts /\ TableMounts /\ ChapterMounts
  /\ UNCHANGED online

GoElsewhere ==
  \/ /\ route # "tool"
     /\ \E p \in Pages : Mounts(p)
     /\ Go("tool")
  \/ \E r \in Routes \ {"tool", route} :
       /\ Mounts(anyPage)
       /\ Go(r)

\* The page that was renamed sends its visitor on from an effect.
Redirect ==
  /\ route = "channel-id-finder"
  /\ "channel-rss-feed-generator" \in Pages
  /\ Mounts("channel-rss-feed-generator")
  /\ Go("tool")

Next ==
  \/ /\ route = "tool" /\ ToolNext
     /\ UNCHANGED <<genVars, previewVars, tableVars, chapterVars, route>>
  \/ /\ route = "timestamp-generator" /\ GenNext
     /\ UNCHANGED <<pageVars, previewVars, tableVars, chapterVars, route>>
  \/ /\ route = "thumbnail-preview" /\ PreviewNext
     /\ UNCHANGED <<pageVars, genVars, tableVars, chapterVars, route>>
  \/ /\ route = "table" /\ TableNext
     /\ UNCHANGED <<pageVars, genVars, previewVars, chapterVars, route>>
  \/ /\ route = "chapters" /\ ChapterNext
     /\ UNCHANGED <<pageVars, genVars, previewVars, tableVars, route>>
  \/ GoElsewhere
  \/ Redirect

Spec == Init /\ [][Next]_vars

\* A pending call goes on: the token comes or fails, the server answers within its
\* timeouts or the connection breaks, the browser renders what has changed.
CallGoesOn(n) ==
  route = "tool" /\ (\/ TokenDone(n) \/ FetchFails(n) \/ Respond(n)
                     \/ BodyFails(n) \/ BodyRead(n) \/ Resume(n))
  /\ UNCHANGED <<genVars, previewVars, tableVars, chapterVars, route>>

Renders == route = "tool" /\ Render
           /\ UNCHANGED <<genVars, previewVars, tableVars, chapterVars, route>>

Fairness == /\ \A n \in 1 .. MaxCalls : WF_vars(CallGoesOn(n))
            /\ WF_vars(Renders)

LiveSpec == Spec /\ Fairness

--------------------------------------------------------------------------------
\* Whoever submits sees an outcome of the latest submission, or has left the page,
\* or is off line: no answer, error or overtaken call leaves the page loading.
SubmissionAnswered ==
  (route = "tool" /\ mut.status = "pending") ~>
    \/ seen = mut /\ seen.status \in {"success", "error"}
    \/ calls = <<>>
    \/ ~online
================================================================================
