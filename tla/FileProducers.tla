----------------------------- MODULE FileProducers -----------------------------
(***************************************************************************)
(* The tools that answer with a link to one file: the thumbnail downloader,*)
(* the transcript downloader and the playlist exporter (to CSV or JSON),   *)
(* running beside the download store, its worker and its handlers.  Each   *)
(* Execute fetches from outside, makes a temp directory, fills a file in   *)
(* it, and registers the file; every step may fail, and what an error path *)
(* removes differs from tool to tool.                                      *)
(*                                                                         *)
(* A path of DownloadStore is one request here.  The steps on the disk are *)
(* the tools' own; ImplementsStore says that they are what DownloadStore   *)
(* takes its requests to do.                                               *)
(***************************************************************************)
EXTENDS DownloadStore

CONSTANTS Tools,   \* the tools in this instance, a subset of AllTools
          TTLOf    \* TTLOf[k]: the lifetime that tool k registers with

AllTools == {"thumbnail", "transcript", "csv", "json"}

ASSUME ProducersAssumption ==
  /\ Tools \subseteq AllTools
  /\ TTLOf \in [Tools -> TTLs]
  /\ "json" \in Tools => "abandon" \in Faults       \* see FillFails
  /\ "transcript" \in Tools => "phantom" \in Faults \* see DownloadSubtitles

VARIABLES tool,  \* tool[p]: the tool that request p runs, or None
          at,    \* at[p]: where its Execute is: new, fetch, mkdir, create,
                 \* fill, register, or one of Finished
          full   \* files whose content is complete

jobVars == <<tool, at, full>>
pvars == <<vars, jobVars>>

Finished == {"ok", "error", "cut"}

PInit ==
  /\ Init
  /\ tool = [p \in Paths |-> None]
  /\ at = [p \in Paths |-> "new"]
  /\ full = {}

Step(p, from, to) ==
  /\ at[p] = from
  /\ at' = [at EXCEPT ![p] = to]
  /\ UNCHANGED tool

StoreAlone == UNCHANGED <<now, storeVars, cleaner, handlerVars>>
DiskAlone  == UNCHANGED <<diskVars, full>>

\* os.RemoveAll of the temp directory of p.
RemoveAll(p) ==
  /\ dirs' = dirs \ {p}
  /\ files' = files \ {p}
  /\ full' = full \ {p}
  /\ staged' = staged \ {p}

\* The request ends and what it has on disk stays there.
LeaveBehind(p) ==
  /\ staged' = staged \ {p}
  /\ UNCHANGED <<dirs, files, full>>

--------------------------------------------------------------------------------

Begin(p, k) ==
  /\ at[p] = "new"
  /\ at' = [at EXCEPT ![p] = "fetch"]
  /\ tool' = [tool EXCEPT ![p] = k]
  /\ DiskAlone /\ StoreAlone

\* The CDN is asked for the image, yt-dlp for the title or the playlist.
Fetch(p) ==
  /\ Step(p, "fetch", "mkdir") \/ Step(p, "fetch", "error")
  /\ DiskAlone /\ StoreAlone

\* os.MkdirAll and os.MkdirTemp.
MkdirTemp(p) ==
  /\ Step(p, "mkdir", "create")
  /\ dirs' = dirs \cup {p}
  /\ staged' = staged \cup {p}
  /\ UNCHANGED <<files, full>> /\ StoreAlone

MkdirFails(p) ==
  /\ Step(p, "mkdir", "error")
  /\ DiskAlone /\ StoreAlone

\* os.Create of the thumbnail or of the export.
Create(p) ==
  /\ tool[p] # "transcript"
  /\ Step(p, "create", "fill")
  /\ files' = files \cup {p}
  /\ UNCHANGED <<dirs, staged, full>> /\ StoreAlone

CreateFails(p) ==
  /\ tool[p] # "transcript"
  /\ Step(p, "create", "error")
  /\ RemoveAll(p) /\ StoreAlone

\* io.Copy of the image, or the encoder, gets to the end.
Fill(p) ==
  /\ Step(p, "fill", "register")
  /\ full' = full \cup {p}
  /\ UNCHANGED diskVars /\ StoreAlone

\* Mutants of FillFails: no tool cleans up; the error is ignored, as the bulk
\* thumbnail tool ignores the one of io.Copy.
FillFailsDirty(p) ==
  /\ Step(p, "fill", "error")
  /\ LeaveBehind(p)
  /\ StoreAlone

FillFailsIgnored(p) ==
  /\ Step(p, "fill", "register")
  /\ DiskAlone /\ StoreAlone

\* It does not: the thumbnail and the CSV export clean up, the JSON export
\* returns at once.
FillFails(p) ==
  /\ Step(p, "fill", "error")
  /\ IF tool[p] = "json" THEN LeaveBehind(p) ELSE RemoveAll(p)
  /\ StoreAlone

\* yt-dlp exits with status 0.  It may have found no subtitles to write; the
\* expected path is returned all the same.
DownloadSubtitles(p) ==
  /\ tool[p] = "transcript"
  /\ Step(p, "create", "register")
  /\ \/ files' = files \cup {p} /\ full' = full \cup {p}
     \/ UNCHANGED <<files, full>>
  /\ UNCHANGED <<dirs, staged>> /\ StoreAlone

SubtitlesFail(p) ==
  /\ tool[p] = "transcript"
  /\ Step(p, "create", "error")
  /\ RemoveAll(p) /\ StoreAlone

\* Mutant of RegisterFile: os.RemoveAll is deferred.
RegisterFileOnly(p) ==
  /\ Step(p, "register", "ok")
  /\ \E t \in Tokens : RegisterThenRemove(t, p, TTLOf[tool[p]])
  /\ full' = full \ {p}

RegisterFile(p) ==
  /\ Step(p, "register", "ok")
  /\ \E t \in Tokens : Register(t, p, TTLOf[tool[p]])
  /\ UNCHANGED full

--------------------------------------------------------------------------------

Execute(p) ==
  \/ Fetch(p) \/ MkdirTemp(p) \/ MkdirFails(p) \/ Create(p) \/ CreateFails(p)
  \/ Fill(p) \/ FillFails(p) \/ DownloadSubtitles(p) \/ SubtitlesFail(p)
  \/ RegisterFile(p)

\* The other goroutines.  A sweep takes the content with the file.
Others ==
  /\ (\E h \in Handlers : Handler(h)) \/ Cleanup \/ Tick
  /\ full' = full \cap files'
  /\ UNCHANGED <<tool, at>>

CutByRestart ==
  /\ Restart
  /\ at' = [p \in Paths |-> IF at[p] \in {"new"} \cup Finished THEN at[p] ELSE "cut"]
  /\ UNCHANGED <<tool, full>>

PNext ==
  \/ \E p \in Paths, k \in Tools : Begin(p, k)
  \/ \E p \in Paths : Execute(p)
  \/ Others
  \/ CutByRestart

PSpec == PInit /\ [][PNext]_pvars

--------------------------------------------------------------------------------

\* README.md line 229: "Error paths call os.RemoveAll immediately".  All of
\* them do but one, that of the JSON encoder, which leaves its directory behind.
ErrorPathsCleanButJson ==
  \A p \in Paths : at[p] = "error" /\ tool[p] # "json" => p \notin dirs \cup files

\* No link ever leads to a half-written file: whatever is registered and on
\* disk is complete, with the encoders and copies failing at any point.
NoPartialFile == Registered \cap files \subseteq full

\* What is registered is "a file" (store.go line 35), so that a link works for as
\* long as it has been promised to, while sweeps, failures of other requests and
\* restarts go on beside it; but for the path that client.go line 103 returns
\* without a look.
LinksWorkButTranscripts ==
  \A t \in Tokens :
    Live(t) /\ tool[items[t].path] # "transcript" => items[t].path \in files

\* The tools use the store as DownloadStore takes its requests to do, with the
\* faults of this instance and no others.
ImplementsStore == Spec
================================================================================
