------------------------------- MODULE SiteProofs -------------------------------
(***************************************************************************)
(* Proofs about the pages of the site, for any number of submissions on a  *)
(* visit and whichever pages are visited: first of the contract between    *)
(* pages and tools, slug by slug; then of the machine of a page, by an     *)
(* inductive invariant, and in the whole site.  After these, about the     *)
(* pages with a machine of their own, the generator of timestamp links and *)
(* the thumbnail preview, about the table of the bulk metadata extractor   *)
(* and about lists of chapters, in the whole site and for any number of    *)
(* submissions, clicks, rows and choices on a visit.  At last, about the   *)
(* home page, for whatever configurations are on the server.               *)
(***************************************************************************)
EXTENDS Site, HomePage, TLAPS, FiniteSetTheorems, WellFoundedInduction

--------------------------------------------------------------------------------
(***************************************************************************)
(* The contract of ToolPages                                               *)
(***************************************************************************)

\* The two tables that the slugs are looked up in.
LEMMA PageOfSlug ==
  /\ PageOf["youtube-url-cleaner"] = YoutubeUrlCleanerPage
  /\ PageOf["youtube-id-extractor"] = YoutubeIdExtractorPage
  /\ PageOf["shorts-url-converter"] = ShortsUrlConverterPage
  /\ PageOf["channel-rss-feed-generator"] = ChannelRssFeedGeneratorPage
  /\ PageOf["thumbnail-downloader"] = ThumbnailDownloaderPage
  /\ PageOf["video-metadata-viewer"] = VideoMetadataViewerPage
  /\ PageOf["playlist-exporter"] = PlaylistExporterPage
  /\ PageOf["playlist-duration-calculator"] = PlaylistDurationCalculatorPage
  /\ PageOf["transcript-extractor"] = TranscriptExtractorPage
  /\ PageOf["transcript-downloader"] = TranscriptDownloaderPage
  /\ PageOf["transcript-search"] = TranscriptSearchPage
  /\ PageOf["video-duration-calculator"] = VideoDurationCalculatorPage
  /\ PageOf["bulk-metadata-extractor"] = BulkMetadataExtractorPage
  /\ PageOf["bulk-thumbnail-downloader"] = BulkThumbnailDownloaderPage
  /\ PageOf["timestamp-offset"] = TimestampOffsetPage
  /\ PageOf["chapter-validator"] = ChapterValidatorPage
  BY Zenon DEF PageOf, Slugs

LEMMA ToolOfSlug ==
  /\ ToolOf["youtube-url-cleaner"] = YoutubeUrlCleaner
  /\ ToolOf["youtube-id-extractor"] = YoutubeIdExtractor
  /\ ToolOf["shorts-url-converter"] = ShortsUrlConverter
  /\ ToolOf["channel-rss-feed-generator"] = ChannelIdFinder
  /\ ToolOf["thumbnail-downloader"] = ThumbnailDownloader
  /\ ToolOf["video-metadata-viewer"] = VideoMetadataViewer
  /\ ToolOf["playlist-exporter"] = PlaylistExporter
  /\ ToolOf["playlist-duration-calculator"] = PlaylistDurationCalculator
  /\ ToolOf["transcript-extractor"] = TranscriptExtractor
  /\ ToolOf["transcript-downloader"] = TranscriptDownloader
  /\ ToolOf["transcript-search"] = TranscriptSearch
  /\ ToolOf["video-duration-calculator"] = VideoDurationCalculator
  /\ ToolOf["bulk-metadata-extractor"] = BulkMetadataExtractor
  /\ ToolOf["bulk-thumbnail-downloader"] = BulkThumbnailDownloader
  /\ ToolOf["timestamp-offset"] = TimestampOffset
  /\ ToolOf["chapter-validator"] = ChapterValidator
  BY Zenon DEF ToolOf, Slugs

\* Each page reads unasked only what its tool always gives, but for the one whose
\* tool gets nothing from it.
LEMMA FieldsFit ==
  /\ YoutubeUrlCleanerPage.reads \subseteq YoutubeUrlCleaner.gives
  /\ YoutubeIdExtractorPage.reads \subseteq YoutubeIdExtractor.gives
  /\ ShortsUrlConverterPage.reads \subseteq ShortsUrlConverter.gives
  /\ ChannelRssFeedGeneratorPage.reads \subseteq ChannelIdFinder.gives
  /\ ThumbnailDownloaderPage.reads \subseteq ThumbnailDownloader.gives
  /\ VideoMetadataViewerPage.reads \subseteq VideoMetadataViewer.gives
  /\ PlaylistExporterPage.reads \subseteq PlaylistExporter.gives
  /\ PlaylistDurationCalculatorPage.reads \subseteq PlaylistDurationCalculator.gives
  /\ TranscriptExtractorPage.reads \subseteq TranscriptExtractor.gives
  /\ TranscriptDownloaderPage.reads \subseteq TranscriptDownloader.gives
  /\ TranscriptSearchPage.reads \subseteq TranscriptSearch.gives
  /\ VideoDurationCalculatorPage.reads \subseteq VideoDurationCalculator.gives
  /\ BulkMetadataExtractorPage.reads \subseteq BulkMetadataExtractor.gives
  /\ BulkThumbnailDownloaderPage.reads \subseteq BulkThumbnailDownloader.gives
  /\ TimestampOffsetPage.reads \subseteq TimestampOffset.gives
  BY DEF Page, Tool, YoutubeUrlCleanerPage, YoutubeIdExtractorPage,
         ShortsUrlConverterPage, ChannelRssFeedGeneratorPage,
         ThumbnailDownloaderPage, VideoMetadataViewerPage,
         PlaylistExporterPage, PlaylistDurationCalculatorPage,
         TranscriptExtractorPage, TranscriptDownloaderPage,
         TranscriptSearchPage, VideoDurationCalculatorPage,
         BulkMetadataExtractorPage, BulkThumbnailDownloaderPage,
         TimestampOffsetPage, ChapterValidatorPage, YoutubeUrlCleaner,
         YoutubeIdExtractor, ShortsUrlConverter, ChannelIdFinder,
         ThumbnailDownloader, VideoMetadataViewer, PlaylistExporter,
         PlaylistDurationCalculator, TranscriptExtractor,
         TranscriptDownloader, TranscriptSearch, VideoDurationCalculator,
         BulkMetadataExtractor, BulkThumbnailDownloader, TimestampOffset,
         ChapterValidator

\* Every value that a page offers is one that its tool accepts, and no option that
\* the tool asks for is missing.
OptionsFit(offered, accepted) ==
  \A o \in DOMAIN accepted :
    /\ o \in DOMAIN offered
    /\ \A n \in DOMAIN offered[o] : offered[o][n] \in accepted[o]

LEMMA SmallDomains ==
  /\ \A a : DOMAIN <<a>> = {1}
  /\ \A a, b : DOMAIN <<a, b>> = {1, 2}
  /\ \A a, b, c : DOMAIN <<a, b, c>> = {1, 2, 3}
  /\ \A a, b, c, d : DOMAIN <<a, b, c, d>> = {1, 2, 3, 4}
  OBVIOUS

LEMMA NoneFits == DOMAIN None = {} /\ \A x : OptionsFit(x, None)
<1>1. DOMAIN None = {}
  BY DEF None
<1> QED BY <1>1 DEF OptionsFit

LEMMA PagesOptionsFit ==
  /\ OptionsFit(YoutubeUrlCleanerPage.options, YoutubeUrlCleaner.accepts)
  /\ OptionsFit(YoutubeIdExtractorPage.options, YoutubeIdExtractor.accepts)
  /\ OptionsFit(ShortsUrlConverterPage.options, ShortsUrlConverter.accepts)
  /\ OptionsFit(ChannelRssFeedGeneratorPage.options, ChannelIdFinder.accepts)
  /\ OptionsFit(ThumbnailDownloaderPage.options, ThumbnailDownloader.accepts)
  /\ OptionsFit(VideoMetadataViewerPage.options, VideoMetadataViewer.accepts)
  /\ OptionsFit(PlaylistExporterPage.options, PlaylistExporter.accepts)
  /\ OptionsFit(PlaylistDurationCalculatorPage.options,
                  PlaylistDurationCalculator.accepts)
  /\ OptionsFit(TranscriptExtractorPage.options, TranscriptExtractor.accepts)
  /\ OptionsFit(TranscriptDownloaderPage.options, TranscriptDownloader.accepts)
  /\ OptionsFit(TranscriptSearchPage.options, TranscriptSearch.accepts)
  /\ OptionsFit(VideoDurationCalculatorPage.options,
                  VideoDurationCalculator.accepts)
  /\ OptionsFit(BulkMetadataExtractorPage.options,
                  BulkMetadataExtractor.accepts)
  /\ OptionsFit(BulkThumbnailDownloaderPage.options,
                  BulkThumbnailDownloader.accepts)
<1>1. OptionsFit(YoutubeUrlCleanerPage.options, YoutubeUrlCleaner.accepts)
  BY SmallDomains, NoneFits
  DEF OptionsFit, YoutubeUrlCleanerPage, YoutubeUrlCleaner, Page, Tool,
      Languages
<1>2. OptionsFit(YoutubeIdExtractorPage.options, YoutubeIdExtractor.accepts)
  BY SmallDomains, NoneFits
  DEF OptionsFit, YoutubeIdExtractorPage, YoutubeIdExtractor, Page, Tool,
      Languages
<1>3. OptionsFit(ShortsUrlConverterPage.options, ShortsUrlConverter.accepts)
  BY SmallDomains, NoneFits
  DEF OptionsFit, ShortsUrlConverterPage, ShortsUrlConverter, Page, Tool,
      Languages
<1>4. OptionsFit(ChannelRssFeedGeneratorPage.options, ChannelIdFinder.accepts)
  BY SmallDomains, NoneFits
  DEF OptionsFit, ChannelRssFeedGeneratorPage, ChannelIdFinder, Page, Tool,
      Languages
<1>5. OptionsFit(ThumbnailDownloaderPage.options, ThumbnailDownloader.accepts)
  BY SmallDomains, NoneFits
  DEF OptionsFit, ThumbnailDownloaderPage, ThumbnailDownloader, Page, Tool,
      Languages
<1>6. OptionsFit(VideoMetadataViewerPage.options, VideoMetadataViewer.accepts)
  BY SmallDomains, NoneFits
  DEF OptionsFit, VideoMetadataViewerPage, VideoMetadataViewer, Page, Tool,
      Languages
<1>7. OptionsFit(PlaylistExporterPage.options, PlaylistExporter.accepts)
  BY SmallDomains, NoneFits
  DEF OptionsFit, PlaylistExporterPage, PlaylistExporter, Page, Tool,
      Languages
<1>8. OptionsFit(PlaylistDurationCalculatorPage.options,
                PlaylistDurationCalculator.accepts)
  BY SmallDomains, NoneFits
  DEF OptionsFit, PlaylistDurationCalculatorPage, PlaylistDurationCalculator, Page,
      Tool, Languages
<1>9. OptionsFit(TranscriptExtractorPage.options, TranscriptExtractor.accepts)
  BY SmallDomains, NoneFits
  DEF OptionsFit, TranscriptExtractorPage, TranscriptExtractor, Page, Tool,
      Languages
<1>10. OptionsFit(TranscriptDownloaderPage.options, TranscriptDownloader.accepts)
  BY SmallDomains, NoneFits
  DEF OptionsFit, TranscriptDownloaderPage, TranscriptDownloader, Page, Tool,
      Languages
<1>11. OptionsFit(TranscriptSearchPage.options, TranscriptSearch.accepts)
  BY SmallDomains, NoneFits
  DEF OptionsFit, TranscriptSearchPage, TranscriptSearch, Page, Tool,
      Languages
<1>12. OptionsFit(VideoDurationCalculatorPage.options,
                VideoDurationCalculator.accepts)
  BY SmallDomains, NoneFits
  DEF OptionsFit, VideoDurationCalculatorPage, VideoDurationCalculator, Page, Tool,
      Languages
<1>13. OptionsFit(BulkMetadataExtractorPage.options,
                BulkMetadataExtractor.accepts)
  BY SmallDomains, NoneFits
  DEF OptionsFit, BulkMetadataExtractorPage, BulkMetadataExtractor, Page, Tool,
      Languages
<1>14. OptionsFit(BulkThumbnailDownloaderPage.options,
                BulkThumbnailDownloader.accepts)
  BY SmallDomains, NoneFits
  DEF OptionsFit, BulkThumbnailDownloaderPage, BulkThumbnailDownloader, Page, Tool,
      Languages
<1> QED BY <1>1, <1>2, <1>3, <1>4, <1>5, <1>6, <1>7, <1>8, <1>9, <1>10, <1>11,
      <1>12, <1>13, <1>14

\* The pages whose options always fit.
Fitting == Slugs \ {"chapter-validator", "timestamp-offset"}

LEMMA ContractFits ==
  /\ \A s \in Slugs : PageOf[s].member = ToolOf[s].member =>
                        PageOf[s].reads \subseteq ToolOf[s].gives
  /\ \A s \in Fitting : /\ PageOf[s].member = ToolOf[s].member
                        /\ OptionsFit(PageOf[s].options, ToolOf[s].accepts)
<1>1. ChapterValidatorPage.member # ChapterValidator.member
  BY DEF ChapterValidatorPage, ChapterValidator, Page, Tool
<1>2. \A s \in Slugs : PageOf[s].member = ToolOf[s].member =>
                         PageOf[s].reads \subseteq ToolOf[s].gives
  BY <1>1, PageOfSlug, ToolOfSlug, FieldsFit DEF Slugs
<1>3. \A s \in Fitting : OptionsFit(PageOf[s].options, ToolOf[s].accepts)
  BY PageOfSlug, ToolOfSlug, PagesOptionsFit DEF Slugs, Fitting
<1>4. \A s \in Fitting : PageOf[s].member = ToolOf[s].member
  BY PageOfSlug, ToolOfSlug DEF Slugs, Fitting, Page, Tool,
         YoutubeUrlCleanerPage, YoutubeIdExtractorPage,
         ShortsUrlConverterPage, ChannelRssFeedGeneratorPage,
         ThumbnailDownloaderPage, VideoMetadataViewerPage,
         PlaylistExporterPage, PlaylistDurationCalculatorPage,
         TranscriptExtractorPage, TranscriptDownloaderPage,
         TranscriptSearchPage, VideoDurationCalculatorPage,
         BulkMetadataExtractorPage, BulkThumbnailDownloaderPage,
         YoutubeUrlCleaner, YoutubeIdExtractor, ShortsUrlConverter,
         ChannelIdFinder, ThumbnailDownloader, VideoMetadataViewer,
         PlaylistExporter, PlaylistDurationCalculator, TranscriptExtractor,
         TranscriptDownloader, TranscriptSearch, VideoDurationCalculator,
         BulkMetadataExtractor, BulkThumbnailDownloader
<1> QED BY <1>2, <1>3, <1>4

\* Every option of a page has an initial value.
HasInitial(offered) == \A o \in DOMAIN offered : 1 \in DOMAIN offered[o]

LEMMA OptionsHaveInitial ==
  \A s \in Slugs : HasInitial(PageOf[s].options)
<1>1. HasInitial(YoutubeUrlCleanerPage.options)
  BY SmallDomains, NoneFits
  DEF HasInitial, YoutubeUrlCleanerPage, Page, Languages
<1>2. HasInitial(YoutubeIdExtractorPage.options)
  BY SmallDomains, NoneFits
  DEF HasInitial, YoutubeIdExtractorPage, Page, Languages
<1>3. HasInitial(ShortsUrlConverterPage.options)
  BY SmallDomains, NoneFits
  DEF HasInitial, ShortsUrlConverterPage, Page, Languages
<1>4. HasInitial(ChannelRssFeedGeneratorPage.options)
  BY SmallDomains, NoneFits
  DEF HasInitial, ChannelRssFeedGeneratorPage, Page, Languages
<1>5. HasInitial(ThumbnailDownloaderPage.options)
  BY SmallDomains, NoneFits
  DEF HasInitial, ThumbnailDownloaderPage, Page, Languages
<1>6. HasInitial(VideoMetadataViewerPage.options)
  BY SmallDomains, NoneFits
  DEF HasInitial, VideoMetadataViewerPage, Page, Languages
<1>7. HasInitial(PlaylistExporterPage.options)
  BY SmallDomains, NoneFits
  DEF HasInitial, PlaylistExporterPage, Page, Languages
<1>8. HasInitial(PlaylistDurationCalculatorPage.options)
  BY SmallDomains, NoneFits
  DEF HasInitial, PlaylistDurationCalculatorPage, Page, Languages
<1>9. HasInitial(TranscriptExtractorPage.options)
  BY SmallDomains, NoneFits
  DEF HasInitial, TranscriptExtractorPage, Page, Languages
<1>10. HasInitial(TranscriptDownloaderPage.options)
  BY SmallDomains, NoneFits
  DEF HasInitial, TranscriptDownloaderPage, Page, Languages
<1>11. HasInitial(TranscriptSearchPage.options)
  BY SmallDomains, NoneFits
  DEF HasInitial, TranscriptSearchPage, Page, Languages
<1>12. HasInitial(VideoDurationCalculatorPage.options)
  BY SmallDomains, NoneFits
  DEF HasInitial, VideoDurationCalculatorPage, Page, Languages
<1>13. HasInitial(BulkMetadataExtractorPage.options)
  BY SmallDomains, NoneFits
  DEF HasInitial, BulkMetadataExtractorPage, Page, Languages
<1>14. HasInitial(BulkThumbnailDownloaderPage.options)
  BY SmallDomains, NoneFits
  DEF HasInitial, BulkThumbnailDownloaderPage, Page, Languages
<1>15. HasInitial(TimestampOffsetPage.options)
  BY SmallDomains, NoneFits
  DEF HasInitial, TimestampOffsetPage, Page, Languages
<1>16. HasInitial(ChapterValidatorPage.options)
  BY SmallDomains, NoneFits
  DEF HasInitial, ChapterValidatorPage, Page, Languages
<1> QED BY <1>1, <1>2, <1>3, <1>4, <1>5, <1>6, <1>7, <1>8, <1>9, <1>10, <1>11,
      <1>12, <1>13, <1>14, <1>15, <1>16, PageOfSlug DEF Slugs
--------------------------------------------------------------------------------
(***************************************************************************)
(* The inductive invariant of ToolPage                                     *)
(***************************************************************************)

Stages == {"paused", "token", "fetch", "body", "done"}
Statuses == {"idle", "pending", "success", "error"}
Ended == {"success", "error"}
Good == {"full", "bare"}
ReplyKinds == Good \cup {Empty, "toolError", "bareError", "notJson"}
Codes == {Empty, "NETWORK_ERROR", "TOOL_CODE", "UNKNOWN_ERROR", "INVALID_RESPONSE"}

\* The values that the options of a page can have.
OptsOf(p) ==
  {f \in [DOMAIN PageOf[p].options ->
            UNION {OptionValues(p, o) : o \in DOMAIN PageOf[p].options}] :
     \A o \in DOMAIN PageOf[p].options : f[o] \in OptionValues(p, o)}

CallOf(p) == [opts : OptsOf(p) \cup {None}, reply : ReplyKinds, stage : Stages]

TypeInv ==
  /\ page \in Pages /\ opts \in OptsOf(page)
  /\ calls \in Seq(CallOf(page)) /\ Len(calls) <= MaxCalls
  /\ mut.status \in Statuses /\ mut.code \in Codes /\ mut.call = Len(calls)
  /\ seen.status \in Statuses /\ seen.code \in Codes
  /\ seen.call \in Nat /\ seen.call <= mut.call
  /\ prev = seen.status
  /\ timers \in 0 .. MaxCopies
  /\ events \in Seq(Ended \X Codes) /\ owed \in Nat

\* Nothing of the latest call is under way once it has an outcome, and nothing
\* else can bring one; an outcome is rendered before the next one can come.
OutcomeInv ==
  /\ mut.status = "idle" => calls = <<>>
  /\ mut.status \in Ended =>
       /\ calls # <<>> /\ calls[Len(calls)].stage = "done"
       /\ seen = mut \/ seen.status = "pending"
  /\ mut.status = "pending" => calls # <<>>

\* The panel is behind by the outcome that is not rendered yet.
TrackedInv ==
  /\ mut.status \in Ended /\ seen.status = "pending" => owed = Len(events) + 1
  /\ ~(mut.status \in Ended /\ seen.status = "pending") => owed = Len(events)
  /\ seen.status \in Ended =>
       /\ events # <<>>
       /\ events[Len(events)] = <<seen.status, seen.code>>

\* What is under way was sent with options of the page, and a good reply is one
\* to a request that the tool accepted.
RequestInv ==
  \A n \in DOMAIN calls :
    /\ calls[n].stage # "done" => calls[n].opts \in OptsOf(page)
    /\ calls[n].stage = "body" /\ calls[n].reply \in Good =>
         PageOf[page].member = ToolOf[page].member

AnswerInv ==
  /\ mut.status = "success" => PageOf[page].reads \subseteq mut.answer
  /\ seen.status = "success" => PageOf[page].reads \subseteq seen.answer

PageInv == TypeInv /\ OutcomeInv /\ TrackedInv /\ RequestInv /\ AnswerInv

LEMMA InitialOptionsFit == \A p \in Slugs : InitialOptions(p) \in OptsOf(p)
<1> SUFFICES ASSUME NEW p \in Slugs PROVE InitialOptions(p) \in OptsOf(p)
  OBVIOUS
<1>1. \A o \in DOMAIN PageOf[p].options :
        PageOf[p].options[o][1] \in OptionValues(p, o)
  BY OptionsHaveInitial DEF OptionValues, HasInitial
<1> QED BY <1>1 DEF InitialOptions, OptsOf

\* A page that mounts, as the first one does or after whatever was before.
LEMMA PageMounts == ASSUME NEW p \in Pages, Mounts(p) PROVE PageInv'
<1>1. p \in Slugs
  BY PageAssumption
<1>2. TypeInv'
  BY <1>1, InitialOptionsFit, PageAssumption
  DEF Mounts, TypeInv, Idle, Statuses, Codes
<1>3. OutcomeInv' /\ TrackedInv' /\ RequestInv' /\ AnswerInv'
  BY DEF Mounts, OutcomeInv, TrackedInv, RequestInv, AnswerInv, Idle, Ended
<1> QED BY <1>2, <1>3 DEF PageInv

LEMMA PageStarts == ToolInit => PageInv
<1> SUFFICES ASSUME ToolInit PROVE PageInv
  OBVIOUS
<1>1. page \in Slugs
  BY PageAssumption DEF ToolInit
<1>2. TypeInv
  BY <1>1, InitialOptionsFit, PageAssumption
  DEF ToolInit, TypeInv, Idle, Statuses, Codes
<1>3. OutcomeInv /\ TrackedInv /\ RequestInv /\ AnswerInv
  BY DEF ToolInit, OutcomeInv, TrackedInv, RequestInv, AnswerInv, Idle, Ended
<1> QED BY <1>2, <1>3 DEF PageInv

--------------------------------------------------------------------------------
(***************************************************************************)
(* The steps of the API client                                             *)
(***************************************************************************)

\* A step that changes the stage of a call and neither its options nor its
\* outcome, and ends none.
LEMMA StageMoves ==
  ASSUME PageInv, NEW n \in DOMAIN calls, calls[n].stage # "done",
         NEW c \in CallOf(page), calls' = [calls EXCEPT ![n] = c],
         c.opts = calls[n].opts, c.stage # "done",
         c.stage = "body" /\ c.reply \in Good =>
           PageOf[page].member = ToolOf[page].member,
         UNCHANGED <<mut, owed>>, OnlyCalls
  PROVE  PageInv'
<1>1. /\ calls' \in Seq(CallOf(page)) /\ Len(calls') = Len(calls)
      /\ DOMAIN calls' = DOMAIN calls
      /\ \A m \in DOMAIN calls : calls'[m] = IF m = n THEN c ELSE calls[m]
  BY DEF PageInv, TypeInv
<1>2. TypeInv'
  BY <1>1 DEF PageInv, TypeInv, OnlyCalls
<1>3. OutcomeInv'
  BY <1>1 DEF PageInv, TypeInv, OutcomeInv, OnlyCalls
<1>4. TrackedInv' /\ AnswerInv'
  BY DEF PageInv, TrackedInv, AnswerInv, OnlyCalls
<1>5. RequestInv'
  BY <1>1 DEF PageInv, RequestInv, OnlyCalls
<1> QED BY <1>2, <1>3, <1>4, <1>5 DEF PageInv

\* A call that ends.  If it is the latest, it has been rendered as pending.
LEMMA CallSettles ==
  ASSUME PageInv, NEW n \in DOMAIN calls, calls[n].stage # "done", Rendered(n),
         NEW status \in Ended, NEW code \in Codes, NEW answer,
         status = "success" => PageOf[page].reads \subseteq answer,
         Settles(n, status, code, answer)
  PROVE  PageInv'
<1>1. Done \in CallOf(page)
  BY DEF Done, CallOf, Stages, ReplyKinds
<1>2. /\ calls' \in Seq(CallOf(page)) /\ Len(calls') = Len(calls)
      /\ DOMAIN calls' = DOMAIN calls
      /\ \A m \in DOMAIN calls : calls'[m] = IF m = n THEN Done ELSE calls[m]
  BY <1>1 DEF PageInv, TypeInv, Settles
<1>3. RequestInv'
  BY <1>2 DEF PageInv, RequestInv, Settles, OnlyCalls, Done, Good
<1>4. CASE mut.call = n
  <2>1. mut.status = "pending" /\ seen.status = "pending" /\ n = Len(calls)
    BY <1>4 DEF PageInv, TypeInv, OutcomeInv, Rendered, Statuses, Ended
  <2>2. /\ mut' = [status |-> status, call |-> n, code |-> code,
                   answer |-> answer]
        /\ owed' = owed + 1
    BY <1>4 DEF Settles
  <2>3. TypeInv'
    BY <1>2, <2>1, <2>2
    DEF PageInv, TypeInv, Settles, OnlyCalls, Statuses, Ended
  <2>4. OutcomeInv'
    BY <1>2, <2>1, <2>2
    DEF PageInv, TypeInv, OutcomeInv, Settles, OnlyCalls, Ended, Done
  <2>5. TrackedInv'
    BY <2>1, <2>2 DEF PageInv, TypeInv, TrackedInv, Settles, OnlyCalls, Ended
  <2>6. AnswerInv'
    BY <2>1, <2>2 DEF PageInv, AnswerInv, Settles, OnlyCalls
  <2> QED BY <1>3, <2>3, <2>4, <2>5, <2>6 DEF PageInv
<1>5. CASE mut.call # n
  <2>1. UNCHANGED <<mut, owed>>
    BY <1>5 DEF Settles
  <2>2. TypeInv'
    BY <1>2, <2>1 DEF PageInv, TypeInv, Settles, OnlyCalls
  <2>3. OutcomeInv'
    BY <1>2, <2>1, <1>5
    DEF PageInv, TypeInv, OutcomeInv, Settles, OnlyCalls
  <2>4. TrackedInv' /\ AnswerInv'
    BY <2>1 DEF PageInv, TrackedInv, AnswerInv, Settles, OnlyCalls
  <2> QED BY <1>3, <2>2, <2>3, <2>4 DEF PageInv
<1> QED BY <1>4, <1>5

LEMMA PageCalls ==
  ASSUME PageInv, NEW n \in 1 .. MaxCalls, Step(n)
  PROVE  PageInv'
<1>0. /\ Resume(n) \/ TokenDone(n) \/ FetchFails(n) \/ Respond(n) \/ BodyFails(n)
         \/ BodyRead(n)
      /\ page \in Slugs
  BY PageAssumption DEF Step, PageInv, TypeInv
<1>1. ASSUME n \in DOMAIN calls PROVE calls[n] \in CallOf(page)
  BY <1>1 DEF PageInv, TypeInv
<1>2. CASE Resume(n)
  <2>1. [calls[n] EXCEPT !.stage = "token"] \in CallOf(page)
    BY <1>1, <1>2 DEF Resume, At, CallOf, Stages
  <2> QED BY <1>1, <1>2, <2>1, StageMoves
    DEF Resume, At, PageInv, RequestInv, CallOf
<1>3. CASE TokenDone(n)
  <2>1. [calls[n] EXCEPT !.stage = "fetch"] \in CallOf(page)
    BY <1>1, <1>3 DEF TokenDone, At, CallOf, Stages
  <2> QED BY <1>1, <1>3, <2>1, StageMoves
    DEF TokenDone, At, PageInv, RequestInv, CallOf
<1>4. CASE FetchFails(n)
  BY <1>4, CallSettles DEF FetchFails, At, Ended, Codes
<1>5. CASE Respond(n)
  <2>1. PICK r \in Replies(n) :
          calls' = [calls EXCEPT ![n].stage = "body", ![n].reply = r]
    BY <1>5 DEF Respond
  <2>2. r \in ReplyKinds /\ (r \in Good => PageOf[page].member = ToolOf[page].member)
    BY <2>1 DEF Replies, Validates, Good, ReplyKinds
  <2> DEFINE c == [calls[n] EXCEPT !.stage = "body", !.reply = r]
  <2>3. c \in CallOf(page) /\ c.opts = calls[n].opts /\ c.stage = "body"
        /\ c.reply = r
    BY <1>1, <1>5, <2>2 DEF Respond, At, CallOf, Stages
  <2>4. calls' = [calls EXCEPT ![n] = c]
    BY <2>1
  <2> HIDE DEF c
  <2> QED BY <1>5, <2>2, <2>3, <2>4, StageMoves DEF Respond, At
<1>6. CASE BodyFails(n)
  BY <1>6, CallSettles DEF BodyFails, At, Ended, Codes
<1>7. CASE BodyRead(n)
  <2>1. calls[n].reply \in Good =>
          PageOf[page].reads \subseteq ToolOf[page].gives
    BY <1>0, <1>7, ContractFits DEF BodyRead, At, PageInv, RequestInv
  <2>2. PICK status \in Ended, code \in Codes :
          \E answer :
            /\ status = "success" => PageOf[page].reads \subseteq answer
            /\ Settles(n, status, code, answer)
    BY <1>7, <2>1 DEF BodyRead, Ended, Good, Codes, At
  <2>3. PICK answer :
          /\ status = "success" => PageOf[page].reads \subseteq answer
          /\ Settles(n, status, code, answer)
    BY <2>2
  <2> QED BY <1>7, <2>3, CallSettles DEF BodyRead, At
<1> QED BY <1>0, <1>2, <1>3, <1>4, <1>5, <1>6, <1>7

--------------------------------------------------------------------------------
(***************************************************************************)
(* The steps of the page                                                   *)
(***************************************************************************)

LEMMA PageSubmits == ASSUME PageInv, Submit PROVE PageInv'
<1> DEFINE c == [opts |-> opts, reply |-> Empty,
                 stage |-> IF online THEN "token" ELSE "paused"]
<1>1. /\ c \in CallOf(page) /\ c.opts \in OptsOf(page)
      /\ c.stage \notin {"done", "body"}
  BY DEF PageInv, TypeInv, CallOf, ReplyKinds, Stages
<1>2. calls' = Append(calls, c)
  BY DEF Submit
<1> HIDE DEF c
<1>3. /\ calls' \in Seq(CallOf(page)) /\ Len(calls') = Len(calls) + 1
      /\ \A m \in DOMAIN calls' :
           calls'[m] = IF m = Len(calls') THEN c ELSE calls[m]
      /\ \A m \in DOMAIN calls' : m # Len(calls') => m \in DOMAIN calls
  BY <1>1, <1>2 DEF PageInv, TypeInv
<1>4. mut'.status = "pending" /\ mut'.call = Len(calls') /\ mut'.code = Empty
  BY <1>3 DEF Submit, Idle, PageInv, TypeInv
<1>5. TypeInv'
  BY <1>3, <1>4, PageAssumption
  DEF Submit, PageInv, TypeInv, Statuses, Codes
<1>6. OutcomeInv'
  BY <1>3, <1>4 DEF Submit, PageInv, TypeInv, OutcomeInv, Ended
<1>7. TrackedInv'
  BY <1>4 DEF Submit, PageInv, TypeInv, OutcomeInv, TrackedInv, Ended
<1>8. RequestInv'
  BY <1>1, <1>3 DEF Submit, PageInv, RequestInv
<1>9. AnswerInv'
  BY <1>4 DEF Submit, PageInv, AnswerInv
<1> QED BY <1>5, <1>6, <1>7, <1>8, <1>9 DEF PageInv

\* A paused call with other options.
LEMMA CallWith ==
  ASSUME NEW p, NEW c \in CallOf(p), NEW f \in OptsOf(p)
  PROVE  /\ [c EXCEPT !.opts = f] \in CallOf(p)
         /\ [c EXCEPT !.opts = f].stage = c.stage
         /\ [c EXCEPT !.opts = f].reply = c.reply
         /\ [c EXCEPT !.opts = f].opts = f
  BY DEF CallOf

LEMMA PageSetsOption == ASSUME PageInv, SetOption PROVE PageInv'
<1>1. PICK o \in DOMAIN opts : \E v \in OptionValues(page, o) \ {opts[o]} :
        opts' = [opts EXCEPT ![o] = v]
  BY DEF SetOption
<1>2. opts' \in OptsOf(page)
  BY <1>1 DEF PageInv, TypeInv, OptsOf
<1>3. \A n \in DOMAIN calls :
        /\ [calls[n] EXCEPT !.opts = opts'] \in CallOf(page)
        /\ [calls[n] EXCEPT !.opts = opts'].stage = calls[n].stage
        /\ [calls[n] EXCEPT !.opts = opts'].reply = calls[n].reply
        /\ [calls[n] EXCEPT !.opts = opts'].opts = opts'
  BY <1>2, CallWith DEF PageInv, TypeInv
<1>4. calls' = [n \in DOMAIN calls |->
                  IF n = mut.call /\ At(n, "paused")
                  THEN [calls[n] EXCEPT !.opts = opts'] ELSE calls[n]]
  BY DEF SetOption
<1>5. /\ calls' \in Seq(CallOf(page)) /\ Len(calls') = Len(calls)
      /\ DOMAIN calls' = DOMAIN calls
      /\ \A n \in DOMAIN calls :
           /\ calls'[n].stage = calls[n].stage
           /\ calls'[n].reply = calls[n].reply
           /\ calls'[n].opts \in {opts', calls[n].opts}
  <2>1. DOMAIN calls = 1 .. Len(calls) /\ Len(calls) \in Nat
    BY DEF PageInv, TypeInv
  <2>2. \A n \in DOMAIN calls : calls[n] \in CallOf(page)
    BY DEF PageInv, TypeInv
  <2>3. calls' \in [1 .. Len(calls) -> CallOf(page)]
    BY <1>3, <1>4, <2>1, <2>2
  <2>4. calls' \in Seq(CallOf(page)) /\ Len(calls') = Len(calls)
    BY <2>1, <2>3
  <2> QED BY <1>3, <1>4, <2>1, <2>4
<1>6. TypeInv'
  BY <1>2, <1>5 DEF SetOption, PageInv, TypeInv
<1>7. OutcomeInv'
  BY <1>5 DEF SetOption, PageInv, TypeInv, OutcomeInv
<1>8. TrackedInv' /\ AnswerInv'
  BY DEF SetOption, PageInv, TrackedInv, AnswerInv
<1>9. RequestInv'
  BY <1>2, <1>5 DEF SetOption, PageInv, RequestInv
<1> QED BY <1>6, <1>7, <1>8, <1>9 DEF PageInv

\* The effect of the panel meets an outcome that is new to it exactly if it tracks
\* one: between two of them it has rendered the one that was pending.
LEMMA PageRenders == ASSUME PageInv, Render PROVE PageInv'
<1>1. mut.status \in Ended => seen.status = "pending"
  BY DEF PageInv, OutcomeInv, Render
<1>2. CASE mut.status \in Ended
  <2>1. events' = Append(events, <<mut.status, mut.code>>)
    BY <1>1, <1>2 DEF Render, PageInv, TypeInv, Ended
  <2>2. /\ events' \in Seq(Ended \X Codes) /\ Len(events') = Len(events) + 1
        /\ events' # <<>> /\ events'[Len(events')] = <<mut.status, mut.code>>
    BY <1>2, <2>1 DEF PageInv, TypeInv
  <2>3. TypeInv'
    BY <2>2 DEF Render, PageInv, TypeInv
  <2>4. TrackedInv'
    BY <1>1, <1>2, <2>2 DEF Render, PageInv, TypeInv, TrackedInv, Ended
  <2>5. OutcomeInv' /\ RequestInv' /\ AnswerInv'
    BY DEF Render, PageInv, OutcomeInv, RequestInv, AnswerInv
  <2> QED BY <2>3, <2>4, <2>5 DEF PageInv
<1>3. CASE mut.status \notin Ended
  <2>1. events' = events
    BY <1>3 DEF Render, Ended
  <2>2. TypeInv'
    BY <2>1 DEF Render, PageInv, TypeInv
  <2>3. TrackedInv'
    BY <1>3, <2>1 DEF Render, PageInv, TrackedInv
  <2>4. OutcomeInv' /\ RequestInv' /\ AnswerInv'
    BY DEF Render, PageInv, OutcomeInv, RequestInv, AnswerInv
  <2> QED BY <2>2, <2>3, <2>4 DEF PageInv
<1> QED BY <1>2, <1>3

LEMMA PageElse ==
  ASSUME PageInv, handleCopy \/ TimerFires \/ NetworkChanges
  PROVE  PageInv'
<1>1. UNCHANGED <<page, opts, calls, mut, seen, prev, events, owed>>
  BY DEF handleCopy, TimerFires, NetworkChanges
<1>2. timers' \in 0 .. MaxCopies
  BY PageAssumption
  DEF handleCopy, TimerFires, NetworkChanges, PageInv, TypeInv
<1> QED BY <1>1, <1>2
  DEF PageInv, TypeInv, OutcomeInv, TrackedInv, RequestInv, AnswerInv

LEMMA PageSteps ==
  ASSUME PageInv, [ToolNext]_pageVars \/ \E p \in Pages : Mounts(p)
  PROVE  PageInv'
<1>1. CASE \E p \in Pages : Mounts(p)
  BY <1>1, PageMounts
<1>2. CASE handleDownload \/ Visit
  BY <1>2, PageMounts DEF handleDownload, Visit, PageInv, TypeInv
<1>3. CASE \E n \in 1 .. MaxCalls : Step(n)
  BY <1>3, PageCalls
<1>4. CASE Submit \/ SetOption \/ Render
  BY <1>4, PageSubmits, PageSetsOption, PageRenders
<1>5. CASE handleCopy \/ TimerFires \/ NetworkChanges
  BY <1>5, PageElse
<1>6. CASE UNCHANGED pageVars
  BY <1>6 DEF pageVars, PageInv, TypeInv, OutcomeInv, TrackedInv, RequestInv,
              AnswerInv
<1> QED BY <1>1, <1>2, <1>3, <1>4, <1>5, <1>6 DEF ToolNext

\* The offsets that are no int apart, the page for offsets fits its tool.
LEMMA OffsetFits ==
  ASSUME NEW f \in OptsOf("timestamp-offset"), f.offset \notin BeyondInt
  PROVE  Validates("timestamp-offset", PageOf["timestamp-offset"].member, f)
<1> DEFINE offered == [action |-> <<"add", "subtract">>,
                       offset |-> <<"10", "100000000000000000000", "1e+21">>]
           accepted == [action |-> {"add", "subtract"}, offset |-> {"10"}]
<1>1. /\ PageOf["timestamp-offset"].options = offered
      /\ ToolOf["timestamp-offset"].accepts = accepted
      /\ PageOf["timestamp-offset"].member = ToolOf["timestamp-offset"].member
  BY PageOfSlug, ToolOfSlug DEF TimestampOffsetPage, TimestampOffset, Page, Tool
<1>2. DOMAIN offered = {"action", "offset"} /\ DOMAIN accepted = {"action", "offset"}
  OBVIOUS
<1>3. {offered.action[n] : n \in DOMAIN offered.action} = {"add", "subtract"}
  BY SmallDomains
<1>4. {offered.offset[n] : n \in DOMAIN offered.offset} =
        {"10", "100000000000000000000", "1e+21"}
  BY SmallDomains
<1>5. accepted.action = {"add", "subtract"} /\ accepted.offset = {"10"}
  OBVIOUS
<1> HIDE DEF offered, accepted
<1>6. /\ DOMAIN f = {"action", "offset"}
      /\ f.action \in {"add", "subtract"} /\ f.offset \in {"10"} \cup BeyondInt
  BY <1>1, <1>2, <1>3, <1>4 DEF OptsOf, OptionValues, BeyondInt
<1> QED BY <1>1, <1>2, <1>5, <1>6 DEF Validates

LEMMA PageInvShows ==
  PageInv => /\ ShownIsLastAsked /\ OutcomeTrackedOnce
             /\ AnswerFitsPage /\ RequestFitsTool
<1> SUFFICES ASSUME PageInv
             PROVE  /\ ShownIsLastAsked /\ OutcomeTrackedOnce
                    /\ AnswerFitsPage /\ RequestFitsTool
  OBVIOUS
<1>1. ShownIsLastAsked
  BY DEF PageInv, TypeInv, OutcomeInv, ShownIsLastAsked, Ended
<1>2. OutcomeTrackedOnce
  BY DEF PageInv, TypeInv, OutcomeInv, TrackedInv, OutcomeTrackedOnce, Ended
<1>3. AnswerFitsPage
  BY DEF PageInv, AnswerInv, AnswerFitsPage
<1>4. RequestFitsTool
  <2> SUFFICES ASSUME NEW n \in DOMAIN calls, calls[n].stage # "done",
                      page # "chapter-validator",
                      page = "timestamp-offset" =>
                        calls[n].opts.offset \notin BeyondInt
               PROVE  Validates(page, PageOf[page].member, calls[n].opts)
    BY DEF RequestFitsTool
  <2>1. page \in Slugs /\ calls[n].opts \in OptsOf(page)
    BY PageAssumption DEF PageInv, TypeInv, RequestInv
  <2>2. CASE page = "timestamp-offset"
    BY <2>1, <2>2, OffsetFits
  <2>3. CASE page # "timestamp-offset"
    <3>1. /\ PageOf[page].member = ToolOf[page].member
          /\ OptionsFit(PageOf[page].options, ToolOf[page].accepts)
      BY <2>1, <2>3, ContractFits DEF Fitting
    <3> QED BY <2>1, <3>1 DEF Validates, OptsOf, OptionValues, OptionsFit
  <2> QED BY <2>2, <2>3
<1> QED BY <1>1, <1>2, <1>3, <1>4

--------------------------------------------------------------------------------
(***************************************************************************)
(* In the whole site a page is left for others and mounts again.           *)
(***************************************************************************)

LEMMA SiteKeepsPage ==
  ASSUME PageInv, [Next]_vars
  PROVE  PageInv'
<1>1. [ToolNext]_pageVars \/ \E p \in Pages : Mounts(p)
  <2>1. CASE Redirect
    BY <2>1 DEF Redirect
  <2>2. CASE GoElsewhere
    <3>1. anyPage \in Pages
      BY PageAssumption DEF anyPage
    <3> QED BY <2>2, <3>1 DEF GoElsewhere
  <2>3. CASE ~Redirect /\ ~GoElsewhere
    BY <2>3 DEF Next, vars
  <2> QED BY <2>1, <2>2, <2>3
<1> QED BY <1>1, PageSteps

LEMMA SiteKeepsInv == Spec => []PageInv
<1>1. Init => PageInv
  BY PageStarts DEF Init
<1>2. PageInv /\ [Next]_vars => PageInv'
  BY SiteKeepsPage
<1> QED BY <1>1, <1>2, PTL DEF Spec

\* For any number of submissions and visits, on every page: the results panel shows
\* the outcome of the last call that the visitor asked for, never of an earlier one
\* that ended later (useMutation and ResultsPanel of the tool pages).
THEOREM SiteShowsLastAsked == Spec => []ShownIsLastAsked
  BY SiteKeepsInv, PageInvShows, PTL

\* Of a call that ended, and that the panel rendered, the last event tracked is its
\* outcome (the effect of results-panel.tsx).
THEOREM SiteTracksOnce == Spec => []OutcomeTrackedOnce
  BY SiteKeepsInv, PageInvShows, PTL

\* Whatever answer a page shows has every field that the page reads without asking,
\* of each tool that a page calls.
THEOREM SiteAnswersFit == Spec => []AnswerFitsPage
  BY SiteKeepsInv, PageInvShows, PTL

\* Every request that is not yet answered has an input and options that the tool's
\* Validate accepts, but for the chapter validator's and for offsets beyond an int.
THEOREM SiteRequestsFit == Spec => []RequestFitsTool
  BY SiteKeepsInv, PageInvShows, PTL

--------------------------------------------------------------------------------
(***************************************************************************)
(* The timestamp generator                                                 *)
(***************************************************************************)

Clicks == [url : Nat, rows : Nat, open : BOOLEAN]

GenTypeInv ==
  /\ submitted \in Nat /\ videoUrl \in Nat /\ videoId \in Nat /\ rows \in Nat
  /\ urlMut \in [status : {"idle", "pending", "success", "error"},
                 url : Nat, id : Nat]
  /\ genMut \in [status : {"idle", "pending", "success", "error"}, click : Nat]
  /\ clicks \in Seq(Clicks) /\ moved \in BOOLEAN

\* A lookup that is pending is that of the URL in the page's state.  An identifier
\* that a lookup has found is that of this URL.
LookupInv ==
  /\ urlMut.status = "pending" => urlMut.url = videoUrl /\ urlMut.id = 0
  /\ urlMut.id # 0 => videoId = videoUrl
  /\ videoUrl = 0 => videoId = 0

\* The mutation is that of the last click, unless it has been reset, and it is
\* pending as long as this click has no answer.  While it is pending no URL can
\* be submitted.
GenerateInv ==
  /\ genMut.status = "idle" => genMut.click = 0
  /\ genMut.status # "idle" =>
       /\ genMut.click = Len(clicks) /\ genMut.click \in DOMAIN clicks
       /\ clicks[genMut.click].open <=> genMut.status = "pending"
       /\ genMut.status = "pending" \/ (genMut.status = "success" /\ ~moved) =>
            clicks[genMut.click].url = videoUrl

GenInv == GenTypeInv /\ LookupInv /\ GenerateInv

LEMMA GenStarts == GenInit => GenInv
<1> SUFFICES ASSUME GenInit PROVE GenInv
  OBVIOUS
<1>1. /\ genMut = [status |-> "idle", click |-> 0]
      /\ urlMut = [status |-> "idle", url |-> 0, id |-> 0]
      /\ submitted = 0 /\ videoUrl = 0 /\ videoId = 0 /\ rows = 2
      /\ clicks = <<>> /\ moved = FALSE
  BY DEF GenInit, NoLookup, NoLinks
<1>2. LookupInv
  BY <1>1 DEF LookupInv
<1>3. clicks \in Seq(Clicks)
  BY <1>1
<1>4. GenTypeInv
  BY <1>1, <1>3 DEF GenTypeInv
<1>5. GenerateInv
  BY <1>1 DEF GenerateInv
<1> QED BY <1>2, <1>4, <1>5 DEF GenInv

LEMMA GenRestarts == ASSUME GenMounts PROVE GenInv'
<1>1. /\ genMut' = [status |-> "idle", click |-> 0]
      /\ urlMut' = [status |-> "idle", url |-> 0, id |-> 0]
      /\ submitted' = 0 /\ videoUrl' = 0 /\ videoId' = 0 /\ rows' = 2
      /\ clicks' = <<>> /\ moved' = FALSE
  BY DEF GenMounts, NoLookup, NoLinks
<1>2. LookupInv'
  BY <1>1 DEF LookupInv
<1>3. clicks' \in Seq(Clicks)
  BY <1>1
<1>4. GenTypeInv'
  BY <1>1, <1>3 DEF GenTypeInv
<1>5. GenerateInv'
  BY <1>1 DEF GenerateInv
<1> QED BY <1>2, <1>4, <1>5 DEF GenInv

LEMMA GenSubmits == ASSUME GenInv, handleUrlSubmit PROVE GenInv'
<1>1. /\ videoUrl' = submitted + 1 /\ submitted' = submitted + 1
      /\ urlMut' = [status |-> "pending", url |-> submitted + 1, id |-> 0]
      /\ moved' = (genMut.status = "success") /\ genMut.status # "pending"
      /\ UNCHANGED <<videoId, rows, genMut, clicks>>
  BY DEF handleUrlSubmit, isLoading
<1>2. GenTypeInv' /\ LookupInv'
  BY <1>1 DEF GenInv, GenTypeInv, LookupInv
<1>3. GenerateInv'
  BY <1>1 DEF GenInv, GenerateInv
<1> QED BY <1>2, <1>3 DEF GenInv

LEMMA GenLooksUp == ASSUME GenInv, LookupAnswered PROVE GenInv'
<1>1. UNCHANGED <<submitted, videoUrl, rows, genMut, clicks, moved>>
  BY DEF LookupAnswered
<1>2. GenTypeInv' /\ LookupInv'
  BY <1>1 DEF LookupAnswered, GenInv, GenTypeInv, LookupInv
<1>3. GenerateInv'
  BY <1>1 DEF GenInv, GenerateInv
<1> QED BY <1>2, <1>3 DEF GenInv

LEMMA GenClicks == ASSUME GenInv, Generate PROVE GenInv'
<1> DEFINE c == [url |-> videoUrl, rows |-> rows, open |-> TRUE]
<1>1. /\ c \in Clicks /\ c.url = videoUrl /\ c.open
      /\ clicks' = Append(clicks, c)
      /\ genMut' = [status |-> "pending", click |-> Len(clicks) + 1]
      /\ UNCHANGED <<submitted, videoUrl, videoId, rows, urlMut, moved>>
  BY DEF Generate, GenInv, GenTypeInv, Clicks
<1> HIDE DEF c
<1>2. /\ clicks' \in Seq(Clicks) /\ Len(clicks') = Len(clicks) + 1
      /\ Len(clicks) \in Nat
      /\ Len(clicks') \in DOMAIN clicks' /\ clicks'[Len(clicks')] = c
  BY <1>1 DEF GenInv, GenTypeInv
<1>3. GenTypeInv' /\ LookupInv'
  BY <1>1, <1>2 DEF GenInv, GenTypeInv, LookupInv
<1>4. GenerateInv'
  BY <1>1, <1>2 DEF GenerateInv
<1> QED BY <1>3, <1>4 DEF GenInv

LEMMA GenAnswers ==
  ASSUME GenInv, NEW n \in 1 .. MaxClicks, GenerateAnswered(n)
  PROVE  GenInv'
<1> DEFINE c == [clicks[n] EXCEPT !.open = FALSE]
<1>1. /\ n \in DOMAIN clicks /\ clicks[n].open
      /\ clicks' = [clicks EXCEPT ![n] = c]
      /\ UNCHANGED <<submitted, videoUrl, videoId, rows, urlMut>>
  BY DEF GenerateAnswered
<1>2. c \in Clicks /\ c.url = clicks[n].url /\ ~c.open
  <2>1. clicks[n] \in Clicks
    BY <1>1 DEF GenInv, GenTypeInv
  <2> QED BY <2>1 DEF Clicks
<1> HIDE DEF c
<1>3. /\ clicks' \in Seq(Clicks) /\ Len(clicks') = Len(clicks)
      /\ DOMAIN clicks' = DOMAIN clicks
      /\ \A m \in DOMAIN clicks : clicks'[m] = IF m = n THEN c ELSE clicks[m]
  BY <1>1, <1>2 DEF GenInv, GenTypeInv
<1>4. LookupInv'
  BY <1>1 DEF GenInv, LookupInv
<1>5. CASE genMut.click = n
  <2>1. /\ genMut' \in {[genMut EXCEPT !.status = s] : s \in {"success", "error"}}
        /\ moved' = FALSE
    BY <1>5 DEF GenerateAnswered
  <2>2. /\ genMut'.status \in {"success", "error"} /\ genMut'.click = n
        /\ genMut' \in [status : {"idle", "pending", "success", "error"},
                        click : Nat]
    BY <1>5, <2>1 DEF GenInv, GenTypeInv
  <2>3. genMut.status # "idle"
    BY <1>1, <1>5 DEF GenInv, GenerateInv, GenTypeInv
  <2>4. genMut.status = "pending" /\ n = Len(clicks) /\ clicks[n].url = videoUrl
    BY <1>1, <1>5, <2>3 DEF GenInv, GenerateInv
  <2>5. GenTypeInv'
    BY <1>1, <1>3, <2>1, <2>2 DEF GenInv, GenTypeInv
  <2>6. GenerateInv'
    BY <1>1, <1>2, <1>3, <2>2, <2>4 DEF GenerateInv
  <2> QED BY <1>4, <2>5, <2>6 DEF GenInv
<1>6. CASE genMut.click # n
  <2>1. UNCHANGED <<genMut, moved>>
    BY <1>6 DEF GenerateAnswered
  <2>2. GenTypeInv'
    BY <1>1, <1>3, <2>1 DEF GenInv, GenTypeInv
  <2>3. GenerateInv'
    BY <1>1, <1>3, <1>6, <2>1 DEF GenInv, GenerateInv
  <2> QED BY <1>4, <2>2, <2>3 DEF GenInv
<1> QED BY <1>5, <1>6

LEMMA GenSteps == ASSUME GenInv, GenNext PROVE GenInv'
<1>1. CASE handleAddRow \/ handleRemoveRow
  <2>1. UNCHANGED <<submitted, videoUrl, videoId, urlMut, genMut, clicks, moved>>
        /\ rows' \in Nat
    BY <1>1 DEF handleAddRow, handleRemoveRow, GenInv, GenTypeInv
  <2> QED BY <2>1 DEF GenInv, GenTypeInv, LookupInv, GenerateInv
<1>2. CASE StartOver
  <2>1. /\ videoId' = 0 /\ videoUrl' = 0 /\ genMut' = NoLinks
        /\ urlMut' = NoLookup /\ UNCHANGED <<submitted, rows, clicks, moved>>
    BY <1>2 DEF StartOver
  <2> QED BY <2>1
    DEF GenInv, GenTypeInv, LookupInv, GenerateInv, NoLinks, NoLookup
<1> QED BY <1>1, <1>2, GenSubmits, GenLooksUp, GenClicks, GenAnswers DEF GenNext

LEMMA GenShows == GenInv => GeneratorAgrees
<1> SUFFICES ASSUME GenInv PROVE GeneratorAgrees
  OBVIOUS
<1>1. IdOfUrl
  BY DEF GenInv, LookupInv, IdOfUrl
<1>2. linksShown => genMut.status = "success"
  BY DEF linksShown, panelStatus
<1>3. LinksOfVideo
  BY <1>2 DEF GenInv, GenerateInv, LinksOfVideo
<1> QED BY <1>1, <1>3 DEF GeneratorAgrees

--------------------------------------------------------------------------------
(***************************************************************************)
(* The thumbnail preview                                                   *)
(***************************************************************************)

PreviewTypeInv ==
  /\ choices \in Nat /\ uploaded \in Nat /\ preview \in Nat
  /\ pageReads \subseteq Nat \ {0} /\ panelReads \subseteq Nat \ {0}
  /\ fetching \in [status : {"idle", "pending", "success", "error"},
                   choice : Nat]
  /\ chosen \in [kind : {"none", "file", "url"}, choice : Nat,
                 disturbed : BOOLEAN]

\* The mutation is that of the last choice, if this is a URL, and there is none
\* otherwise.
FetchInv ==
  IF chosen.kind = "url"
  THEN fetching.status # "idle" /\ fetching.choice = chosen.choice
  ELSE fetching = NoFetch

\* Of a choice that nothing disturbs: only its own file is being read, and what
\* is read no more is shown.
FileInv ==
  chosen.kind = "file" =>
    /\ chosen.choice # 0
    /\ pageReads \subseteq {chosen.choice} /\ panelReads \subseteq {chosen.choice}
    /\ pageReads = {} => uploaded = chosen.choice
    /\ panelReads = {} => preview = chosen.choice

NoFileInv ==
  chosen.kind # "file" => pageReads = {} /\ panelReads = {} /\ uploaded = 0

ChoiceInv ==
  /\ ~chosen.disturbed => FileInv /\ NoFileInv
  /\ chosen.kind = "none" => chosen.choice = 0

PreviewInv == PreviewTypeInv /\ FetchInv /\ ChoiceInv

LEMMA PreviewStarts == PreviewInit => PreviewInv
  BY DEF PreviewInit, PreviewInv, PreviewTypeInv, FetchInv, ChoiceInv, FileInv,
         NoFileInv, NoFetch, Nothing

LEMMA PreviewRestarts == ASSUME PreviewMounts PROVE PreviewInv'
  BY DEF PreviewMounts, PreviewInv, PreviewTypeInv, FetchInv, ChoiceInv, FileInv,
         NoFileInv, NoFetch, Nothing

LEMMA PreviewOfFile == ASSUME PreviewInv, processFile PROVE PreviewInv'
<1>1. /\ choices \in Nat /\ choices' = choices + 1
      /\ chosen' = [kind |-> "file", choice |-> choices + 1,
                    disturbed |-> pageReads \cup panelReads # {}]
      /\ panelReads' = panelReads \cup {choices + 1}
      /\ pageReads' = pageReads \cup {choices + 1}
      /\ fetching' = NoFetch /\ UNCHANGED <<uploaded, preview>>
  BY DEF processFile, Chooses, PreviewInv, PreviewTypeInv
<1>2. choices + 1 \in Nat \ {0}
  BY <1>1
<1>3. PreviewTypeInv'
  BY <1>1, <1>2 DEF PreviewInv, PreviewTypeInv, NoFetch
<1>4. FetchInv'
  BY <1>1 DEF FetchInv
<1>5. ~chosen'.disturbed => pageReads = {} /\ panelReads = {}
  BY <1>1
<1>6. ChoiceInv'
  BY <1>1, <1>2, <1>5 DEF ChoiceInv, FileInv, NoFileInv
<1> QED BY <1>3, <1>4, <1>6 DEF PreviewInv

LEMMA PreviewCleared == ASSUME PreviewInv, handleClear PROVE PreviewInv'
<1>1. /\ preview' = 0 /\ uploaded' = 0
      /\ UNCHANGED <<pageReads, panelReads, fetching, choices>>
  BY DEF handleClear
<1>2. CASE chosen.kind = "url"
  <2>1. chosen' = chosen
    BY <1>2 DEF handleClear
  <2> QED BY <1>1, <1>2, <2>1 DEF PreviewInv, PreviewTypeInv, FetchInv, ChoiceInv,
                              FileInv, NoFileInv
<1>3. CASE chosen.kind # "url"
  <2>1. chosen' = [kind |-> "none", choice |-> 0,
                   disturbed |-> pageReads \cup panelReads # {}]
    BY <1>3 DEF handleClear, Nothing
  <2>2. ~chosen'.disturbed => pageReads = {} /\ panelReads = {}
    BY <2>1
  <2> QED BY <1>1, <1>3, <2>1, <2>2 DEF PreviewInv, PreviewTypeInv, FetchInv,
                              ChoiceInv, FileInv, NoFileInv
<1> QED BY <1>2, <1>3

LEMMA PreviewLoads ==
  ASSUME PreviewInv, pageLoaded \/ panelLoaded
  PROVE  PreviewInv'
<1>1. CASE pageLoaded
  <2>1. PICK f \in pageReads : uploaded' = f /\ pageReads' = pageReads \ {f}
    BY <1>1 DEF pageLoaded
  <2>2. UNCHANGED <<preview, panelReads, fetching, choices, chosen>>
    BY <1>1 DEF pageLoaded
  <2>3. f \in Nat
    BY DEF PreviewInv, PreviewTypeInv
  <2> QED BY <2>1, <2>2, <2>3 DEF PreviewInv, PreviewTypeInv, FetchInv, ChoiceInv,
                              FileInv, NoFileInv
<1>2. CASE panelLoaded
  <2>1. PICK f \in panelReads : preview' = f /\ panelReads' = panelReads \ {f}
    BY <1>2 DEF panelLoaded
  <2>2. UNCHANGED <<uploaded, pageReads, fetching, choices, chosen>>
    BY <1>2 DEF panelLoaded
  <2>3. f \in Nat
    BY DEF PreviewInv, PreviewTypeInv
  <2> QED BY <2>1, <2>2, <2>3 DEF PreviewInv, PreviewTypeInv, FetchInv, ChoiceInv,
                              FileInv, NoFileInv
<1> QED BY <1>1, <1>2

LEMMA PreviewFails ==
  ASSUME PreviewInv, pageReadFails \/ panelReadFails
  PROVE  PreviewInv'
<1>1. chosen.disturbed \in BOOLEAN /\ chosen' = [chosen EXCEPT !.disturbed = TRUE]
  BY DEF PreviewInv, PreviewTypeInv, pageReadFails, panelReadFails
<1>2. /\ chosen'.disturbed
      /\ chosen'.kind = chosen.kind /\ chosen'.choice = chosen.choice
  BY <1>1 DEF PreviewInv, PreviewTypeInv
<1>3. /\ pageReads' \subseteq pageReads /\ panelReads' \subseteq panelReads
      /\ UNCHANGED <<uploaded, preview, fetching, choices>>
  BY DEF pageReadFails, panelReadFails
<1>4. PreviewTypeInv'
  BY <1>1, <1>3 DEF PreviewInv, PreviewTypeInv
<1>5. FetchInv' /\ ChoiceInv'
  BY <1>2, <1>3 DEF PreviewInv, FetchInv, ChoiceInv
<1> QED BY <1>4, <1>5 DEF PreviewInv

LEMMA PreviewOfUrl == ASSUME PreviewInv, submitUrl PROVE PreviewInv'
<1>1. /\ choices \in Nat /\ choices' = choices + 1
      /\ chosen' = [kind |-> "url", choice |-> choices + 1,
                    disturbed |-> pageReads \cup panelReads # {}]
      /\ uploaded' = 0
      /\ fetching' = [status |-> "pending", choice |-> choices + 1]
      /\ UNCHANGED <<preview, pageReads, panelReads>>
  BY DEF submitUrl, Chooses, PreviewInv, PreviewTypeInv
<1>2. ~chosen'.disturbed => pageReads = {} /\ panelReads = {}
  BY <1>1
<1>3. PreviewTypeInv'
  BY <1>1 DEF PreviewInv, PreviewTypeInv
<1>4. FetchInv' /\ ChoiceInv'
  BY <1>1, <1>2 DEF FetchInv, ChoiceInv, FileInv, NoFileInv
<1> QED BY <1>3, <1>4 DEF PreviewInv

LEMMA PreviewSteps == ASSUME PreviewInv, PreviewNext PROVE PreviewInv'
<1>1. CASE rejectFile
  <2>1. UNCHANGED <<uploaded, preview, pageReads, panelReads, fetching, choices,
                    chosen>>
    BY <1>1 DEF rejectFile
  <2> QED BY <2>1 DEF PreviewInv, PreviewTypeInv, FetchInv, ChoiceInv, FileInv,
                      NoFileInv
<1>2. CASE previewAnswered
  <2>1. UNCHANGED <<uploaded, preview, pageReads, panelReads, choices, chosen>>
    BY <1>2 DEF previewAnswered
  <2>2. /\ fetching.status = "pending" /\ fetching'.choice = fetching.choice
        /\ fetching'.status \in {"success", "error"}
        /\ fetching' \in [status : {"idle", "pending", "success", "error"},
                          choice : Nat]
    BY <1>2 DEF previewAnswered, PreviewInv, PreviewTypeInv
  <2>3. FetchInv'
    BY <2>1, <2>2 DEF PreviewInv, FetchInv, NoFetch
  <2> QED BY <2>1, <2>2, <2>3 DEF PreviewInv, PreviewTypeInv, ChoiceInv, FileInv,
                      NoFileInv
<1> QED BY <1>1, <1>2, PreviewOfFile, PreviewCleared, PreviewLoads, PreviewFails,
           PreviewOfUrl
        DEF PreviewNext

LEMMA PreviewShows == PreviewInv => LastChoiceShown
<1> SUFFICES ASSUME PreviewInv, settledPreview, ~chosen.disturbed
             PROVE  /\ activeImage \in {chosen.choice} \cup
                         IF fetching.status = "error" THEN {0} ELSE {}
                    /\ chosen.kind = "file" => preview = chosen.choice
  BY DEF LastChoiceShown
<1>1. FileInv /\ NoFileInv /\ pageReads = {} /\ panelReads = {}
      /\ fetching.status # "pending"
  BY DEF PreviewInv, ChoiceInv, settledPreview
<1>2. CASE chosen.kind = "file"
  BY <1>1, <1>2 DEF FileInv, activeImage
<1>3. CASE chosen.kind = "url"
  <2>1. fetching.status \in {"success", "error"}
        /\ fetching.choice = chosen.choice /\ uploaded = 0
    BY <1>1, <1>3 DEF PreviewInv, PreviewTypeInv, FetchInv, NoFileInv
  <2> QED BY <1>3, <2>1 DEF activeImage
<1>4. CASE chosen.kind = "none"
  <2>1. fetching = NoFetch /\ chosen.choice = 0 /\ uploaded = 0
    BY <1>1, <1>4 DEF PreviewInv, FetchInv, ChoiceInv, NoFileInv
  <2> QED BY <1>4, <2>1 DEF activeImage, NoFetch
<1> QED BY <1>2, <1>3, <1>4 DEF PreviewInv, PreviewTypeInv

--------------------------------------------------------------------------------
(***************************************************************************)
(* The table                                                               *)
(***************************************************************************)

\* The rank of an element under a strict total order of a finite set.
Rank(D, R) == [i \in D |-> 1 + Cardinality({j \in D : <<j, i>> \in R})]

\* Ranks are places: each of 1 .. n is the rank of some element.
LEMMA RanksArePlaces ==
  ASSUME NEW n \in Nat, NEW R,
         \A i \in 1 .. n : <<i, i>> \notin R,
         \A i, j \in 1 .. n : i # j => <<i, j>> \in R \/ <<j, i>> \in R,
         \A i, j, k \in 1 .. n : <<i, j>> \in R /\ <<j, k>> \in R => <<i, k>> \in R
  PROVE  \A p \in 1 .. n : \E i \in 1 .. n : Rank(1 .. n, R)[i] = p
<1> DEFINE D == 1 .. n
           below(i) == {j \in D : <<j, i>> \in R}
           rank == Rank(D, R)
<1>1. IsFiniteSet(D) /\ Cardinality(D) = n
  <2>1. IsFiniteSet(D) /\ Cardinality(D) = IF 1 > n THEN 0 ELSE n - 1 + 1
    BY FS_Interval
  <2> QED BY <2>1
<1>2. \A i \in D : rank[i] = 1 + Cardinality(below(i))
  BY DEF Rank
<1> HIDE DEF rank
<1>3. ASSUME NEW i \in D
      PROVE  IsFiniteSet(below(i)) /\ Cardinality(below(i)) \in Nat /\ Cardinality(below(i)) < n
  <2>1. below(i) \in SUBSET D /\ below(i) # D
    OBVIOUS
  <2> HIDE DEF below
  <2>2. IsFiniteSet(below(i)) /\ Cardinality(below(i)) <= n /\ Cardinality(below(i)) # n
    BY <1>1, <2>1, FS_Subset
  <2>3. Cardinality(below(i)) \in Nat
    BY <2>2, FS_CardinalityType
  <2> QED BY <2>2, <2>3
<1>4. ASSUME NEW i \in D, NEW j \in D, <<i, j>> \in R
      PROVE  Cardinality(below(i)) < Cardinality(below(j))
  <2>1. below(i) \in SUBSET below(j) /\ below(i) # below(j)
    <3>1. i \in below(j) /\ i \notin below(i)
      BY <1>4
    <3>2. \A k \in below(i) : k \in below(j)
      BY <1>4
    <3> HIDE DEF below
    <3> QED BY <3>1, <3>2
  <2> HIDE DEF below
  <2>2. /\ Cardinality(below(i)) <= Cardinality(below(j))
        /\ Cardinality(below(i)) # Cardinality(below(j))
    BY <1>3, <2>1, FS_Subset
  <2> QED BY <1>3, <2>2
<1>5. ASSUME NEW i \in D, NEW j \in D, i # j
      PROVE  rank[i] # rank[j]
  <2>1. /\ <<i, j>> \in R \/ <<j, i>> \in R
        /\ Cardinality(below(i)) \in Nat /\ Cardinality(below(j)) \in Nat
    BY <1>3, <1>5
  <2>2. Cardinality(below(i)) # Cardinality(below(j))
    <3>1. CASE <<i, j>> \in R
      <4>1. Cardinality(below(i)) < Cardinality(below(j))
        BY <1>4, <3>1
      <4> HIDE DEF below
      <4> QED BY <2>1, <4>1
    <3>2. CASE <<j, i>> \in R
      <4>1. Cardinality(below(j)) < Cardinality(below(i))
        BY <1>4, <3>2
      <4> HIDE DEF below
      <4> QED BY <2>1, <4>1
    <3> QED BY <2>1, <3>1, <3>2
  <2> HIDE DEF below
  <2> QED BY <1>2, <2>1, <2>2
<1>6. rank \in Injection(D, D)
  <2>1. \A i \in D : rank[i] \in D
    <3> HIDE DEF below
    <3> QED BY <1>2, <1>3
  <2>2. rank \in [D -> D]
    BY <2>1 DEF rank, Rank
  <2> HIDE DEF D
  <2> QED BY <1>5, <2>2 DEF Injection, IsInjective
<1>7. rank \in Surjection(D, D)
  BY <1>1, <1>6, FS_Injection
<1> QED BY <1>7 DEF Surjection, rank

\* An answer: its rows are numbered, and their fields are numbers.
Row == [index : Nat, videoId : Nat, title : Nat, viewCount : Nat]
IsAnswer(answer) ==
  answer \in Seq(Row) /\ \A n \in 1 .. Len(answer) : answer[n].index = n

\* The rows of an answer, each once, in some order.
Shuffle(new, answer) ==
  /\ DOMAIN new = DOMAIN answer
  /\ \E f \in [DOMAIN answer -> DOMAIN answer] :
       /\ \A m, n \in DOMAIN answer : f[m] = f[n] => m = n
       /\ \A n \in DOMAIN answer : new[n] = answer[f[n]]

LEMMA AnswersTyped == \A answer \in Answers : IsAnswer(answer)
<1> SUFFICES ASSUME NEW answer \in Answers PROVE IsAnswer(answer)
  OBVIOUS
<1>1. PICK n \in 0 .. MaxListed :
        /\ answer \in [1 .. n -> {Answer(m, v, f) : m \in 1 .. n, v \in 1 .. MaxVideo,
                                                f \in BOOLEAN}]
        /\ \A m \in 1 .. n : answer[m].index = m
  BY DEF Answers
<1>2. n \in Nat /\ MaxVideo \in Nat
  BY TableAssumption
<1>3. ASSUME NEW m \in 1 .. n, NEW v \in 1 .. MaxVideo, NEW f \in BOOLEAN
      PROVE  Answer(m, v, f) \in Row
  <2>1. m \in Nat /\ v \in Nat /\ MaxVideo + 1 - v \in Nat
    BY <1>2
  <2> QED BY <2>1 DEF Answer, Row
<1>4. \A m \in 1 .. n : answer[m] \in Row
  BY <1>1, <1>3
<1>5. answer \in Seq(Row) /\ Len(answer) = n
  BY <1>1, <1>2, <1>4
<1> QED BY <1>1, <1>5 DEF IsAnswer

\* Whatever column is clicked, the table is a shuffle of the answer.
LEMMA SortedShuffles ==
  ASSUME NEW answer, IsAnswer(answer), NEW key \in SortKeys, NEW asc \in BOOLEAN
  PROVE  Shuffle(sorted(answer, key, asc), answer)
<1> DEFINE D == 1 .. Len(answer)
           before(a, b) == IF a[key] = b[key] THEN a.index < b.index
                           ELSE IF asc THEN a[key] < b[key] ELSE a[key] > b[key]
           R == {p \in D \X D : before(answer[p[1]], answer[p[2]])}
           place(i) == 1 + Cardinality({j \in D : before(answer[j], answer[i])})
           f == [n \in D |-> CHOOSE i \in D : place(i) = n]
<1>1. Len(answer) \in Nat /\ DOMAIN answer = D
  BY DEF IsAnswer
<1>2. \A i \in D : answer[i][key] \in Nat /\ answer[i].index = i
  <2> SUFFICES ASSUME NEW i \in D PROVE answer[i][key] \in Nat
    BY DEF IsAnswer
  <2>1. answer[i] \in Row
    BY DEF IsAnswer
  <2> QED BY <2>1 DEF Row, SortKeys
<1>3. \A i, j \in D : <<i, j>> \in R <=> before(answer[i], answer[j])
  OBVIOUS
<1>4. /\ \A i \in D : ~before(answer[i], answer[i])
      /\ \A i, j \in D : i # j => before(answer[i], answer[j]) \/ before(answer[j], answer[i])
      /\ \A i, j, k \in D : before(answer[i], answer[j]) /\ before(answer[j], answer[k])
                             => before(answer[i], answer[k])
  <2>1. D \subseteq Nat
    BY <1>1
  <2>2. CASE asc
    BY <1>2, <2>1, <2>2
  <2>3. CASE ~asc
    BY <1>2, <2>1, <2>3
  <2> QED BY <2>2, <2>3
<1> HIDE DEF before
<1>5. \A p \in D : \E i \in D : Rank(D, R)[i] = p
  <2>1. \A i \in D : <<i, i>> \notin R
    BY <1>3, <1>4
  <2>2. \A i, j \in D : i # j => <<i, j>> \in R \/ <<j, i>> \in R
    BY <1>3, <1>4
  <2>3. \A i, j, k \in D : <<i, j>> \in R /\ <<j, k>> \in R => <<i, k>> \in R
    BY <1>3, <1>4
  <2> HIDE DEF R
  <2>4. Len(answer) \in Nat
    BY <1>1
  <2> HIDE DEF place, f
  <2> QED BY <2>1, <2>2, <2>3, <2>4, RanksArePlaces, Zenon
<1>6. \A i \in D : Rank(D, R)[i] = place(i)
  <2> SUFFICES ASSUME NEW i \in D PROVE Rank(D, R)[i] = place(i)
    OBVIOUS
  <2>1. {j \in D : <<j, i>> \in R} = {j \in D : before(answer[j], answer[i])}
    BY <1>3
  <2> QED BY <2>1 DEF Rank
<1> HIDE DEF R, place
<1>7. \A n \in D : f[n] \in D /\ place(f[n]) = n
  BY <1>5, <1>6
<1>8. sorted(answer, key, asc) = [n \in D |-> answer[f[n]]]
  BY <1>1 DEF sorted, before, place
<1> HIDE DEF f, D
<1>9. f \in [D -> D]
  BY <1>7 DEF f
<1>10. \A m, n \in D : f[m] = f[n] => m = n
  BY <1>7
<1> QED BY <1>1, <1>8, <1>9, <1>10 DEF Shuffle

TableInv ==
  /\ IsAnswer(videos) /\ sortKey \in SortKeys /\ sortAsc \in BOOLEAN
  /\ Shuffle(rendered, videos)
  /\ NoRowLeftBehind

\* A row that React forgets has the key of another.
LEMMA ForgottenRepeat ==
  ASSUME NEW old, NEW answer, NEW new, IsAnswer(answer), Shuffle(old, answer),
         Forgotten(old, new) # {}
  PROVE  \E m, n \in DOMAIN answer : m # n /\ answer[m].videoId = answer[n].videoId
<1>1. PICK n \in DOMAIN old : \E m \in DOMAIN old : m > n /\ rowKey(old[m]) = rowKey(old[n])
  BY DEF Forgotten
<1>2. PICK m \in DOMAIN old : m > n /\ rowKey(old[m]) = rowKey(old[n])
  BY <1>1
<1>3. DOMAIN old = 1 .. Len(answer) /\ DOMAIN answer = 1 .. Len(answer) /\ Len(answer) \in Nat
  BY DEF Shuffle, IsAnswer
<1>4. m # n
  BY <1>2, <1>3
<1> QED BY <1>2, <1>3, <1>4 DEF Shuffle, rowKey

LEMMA NoRows == IsAnswer(<<>>) /\ Shuffle(<<>>, <<>>)
<1>1. <<>> \in Seq(Row) /\ Len(<<>>) = 0 /\ DOMAIN <<>> = 1 .. 0 /\ 1 .. 0 = {}
  OBVIOUS
<1>2. IsAnswer(<<>>)
  BY <1>1 DEF IsAnswer
<1>3. [n \in {} |-> n] \in [{} -> {}]
  OBVIOUS
<1> QED BY <1>1, <1>2, <1>3 DEF Shuffle

LEMMA TableStarts == ASSUME TableInit PROVE TableInv
<1>1. /\ videos = <<>> /\ rendered = <<>> /\ sortKey = "index" /\ left = {}
      /\ sortAsc = TRUE
  BY DEF TableInit
<1>2. sortAsc \in BOOLEAN
  BY <1>1, Zenon
<1> QED BY <1>1, <1>2, NoRows DEF TableInv, SortKeys, NoRowLeftBehind

LEMMA TableRestarts == ASSUME TableMounts PROVE TableInv'
<1>1. /\ videos' = <<>> /\ rendered' = <<>> /\ sortKey' = "index" /\ left' = {}
      /\ sortAsc' = TRUE
  BY DEF TableMounts
<1>2. sortAsc' \in BOOLEAN
  BY <1>1, Zenon
<1> QED BY <1>1, <1>2, NoRows DEF TableInv, SortKeys, NoRowLeftBehind

LEMMA TableSteps == ASSUME TableInv, TableNext PROVE TableInv'
<1>1. CASE tableAnswered
  <2>1. PICK answer \in Answers : videos' = answer /\ rendered' = sorted(answer, sortKey, sortAsc)
    BY <1>1 DEF tableAnswered
  <2>2. left' = {} /\ UNCHANGED <<sortKey, sortAsc>>
    BY <1>1 DEF tableAnswered
  <2>3. IsAnswer(answer) /\ Shuffle(sorted(answer, sortKey, sortAsc), answer)
    BY AnswersTyped, SortedShuffles DEF TableInv
  <2> QED BY <2>1, <2>2, <2>3 DEF TableInv, NoRowLeftBehind
<1>2. CASE tableGone
  <2>1. /\ videos' = <<>> /\ rendered' = <<>> /\ left' = {}
        /\ UNCHANGED <<sortKey, sortAsc>>
    BY <1>2 DEF tableGone
  <2> QED BY <2>1, NoRows DEF TableInv, NoRowLeftBehind
<1>3. CASE handleSort
  <2>1. /\ videos' = videos
        /\ rendered' = sorted(videos, sortKey', sortAsc')
        /\ left' = left \cup {rendered[n] : n \in Forgotten(rendered, rendered')}
    BY <1>3 DEF handleSort
  <2>2. sortKey' \in SortKeys /\ sortAsc' \in BOOLEAN
    <3>1. PICK key \in SortKeys :
            sortKey' = key /\ sortAsc' = IF key = sortKey THEN ~sortAsc ELSE TRUE
      BY <1>3 DEF handleSort
    <3> QED BY <3>1, Zenon DEF TableInv
  <2>3. Shuffle(rendered', videos')
    BY <2>1, <2>2, SortedShuffles DEF TableInv
  <2>4. NoRowLeftBehind'
    <3>1. CASE Forgotten(rendered, rendered') = {}
      BY <2>1, <3>1 DEF TableInv, NoRowLeftBehind
    <3>2. CASE Forgotten(rendered, rendered') # {}
      BY <2>1, <3>2, ForgottenRepeat DEF TableInv, NoRowLeftBehind
    <3> QED BY <3>1, <3>2
  <2> QED BY <2>1, <2>2, <2>3, <2>4 DEF TableInv
<1> QED BY <1>1, <1>2, <1>3 DEF TableNext

--------------------------------------------------------------------------------
(***************************************************************************)
(* timestampkit and the lists of lines                                     *)
(***************************************************************************)

LEMMA Smallest ==
  ASSUME NEW T, T \subseteq Nat, T # {}
  PROVE  \E x \in T : \A y \in T : x <= y
<1>1. IsWellFoundedOn(OpToRel(<, Nat), Nat)
  BY NatLessThanWellFounded
<1>2. \E x \in T : \A y \in T : <<y, x>> \notin OpToRel(<, Nat)
  BY <1>1, WFMin
<1>3. \A x, y \in T : <<y, x>> \notin OpToRel(<, Nat) => x <= y
  BY DEF OpToRel
<1> QED BY <1>2, <1>3

LEMMA DisjointUnion ==
  ASSUME NEW S, NEW T, IsFiniteSet(S), IsFiniteSet(T), S \cap T = {}
  PROVE  /\ IsFiniteSet(S \cup T)
         /\ Cardinality(S \cup T) = Cardinality(S) + Cardinality(T)
<1>1. Cardinality({}) = 0
  BY FS_EmptySet
<1>2. Cardinality(S) \in Nat /\ Cardinality(T) \in Nat
  BY FS_CardinalityType
<1>3. /\ IsFiniteSet(S \cup T)
      /\ Cardinality(S \cup T) = Cardinality(S) + Cardinality(T) - Cardinality(S \cap T)
  BY FS_Union
<1>4. Cardinality(S \cap T) = 0
  BY <1>1, Zenon
<1> QED BY <1>2, <1>3, <1>4

\* A set of line numbers has a last one before any line that is not before all.
LEMMA LastBefore ==
  ASSUME NEW T, T \subseteq Nat, NEW n \in Nat, \E m \in T : m < n
  PROVE  \E m \in T : m < n /\ \A k \in T : k <= m \/ k >= n
<1> DEFINE D == {n - k : k \in {j \in T : j < n}}
<1>1. D \subseteq Nat /\ D # {}
  OBVIOUS
<1>2. PICK d \in D : \A e \in D : d <= e
  BY <1>1, Smallest
<1>3. PICK m \in T : m < n /\ d = n - m
  BY <1>2
<1>4. ASSUME NEW k \in T, k < n PROVE k <= m
  <2>1. n - k \in D
    <3>1. k \in {j \in T : j < n}
      BY <1>4
    <3> QED BY <3>1
  <2>a. \A e \in D : d <= e
    BY <1>2
  <2> HIDE DEF D
  <2>2. d <= n - k
    BY <2>1, <2>a
  <2> QED BY <1>3, <2>2
<1>5. ASSUME NEW k \in T PROVE k <= m \/ k >= n
  <2>1. k \in Nat
    OBVIOUS
  <2> QED BY <1>4, <2>1
<1> QED BY <1>3, <1>5

\* The remainder of a number that the modulus goes into once.
LEMMA OnceOver ==
  ASSUME NEW m \in Nat, m > 0, NEW x \in m .. 2 * m - 1
  PROVE  x % m = x - m
<1> DEFINE q == x \div m
           r == x % m
<1>1. q \in Int /\ r \in 0 .. m - 1 /\ x = m * q + r
  OBVIOUS
<1> HIDE DEF q, r
<1>2. CASE q <= 0
  <2>1. m * q <= 0
    BY <1>1, <1>2
  <2> QED BY <1>1, <2>1
<1>3. CASE q >= 2
  <2>1. m * q >= m * 2
    BY <1>1, <1>3
  <2> QED BY <1>1, <2>1
<1>4. CASE q = 1
  BY <1>1, <1>4 DEF r
<1> QED BY <1>1, <1>2, <1>3, <1>4

\* An int stays as it is, a sum beyond becomes one, and the difference of two ints
\* that is too big is negative.
LEMMA WrapIs ==
  ASSUME NEW x \in Int
  PROVE  /\ Fits(x) => Wrap(x) = x
         /\ Fits(Wrap(x))
         /\ x \in MaxInt + 1 .. 2 * MaxInt + 1 => Wrap(x) < 0
<1> DEFINE top == MaxInt + 1
           y == x + MaxInt + 1
           m == 2 * (MaxInt + 1)
<1>1. MaxInt \in Nat /\ m \in Nat /\ m > 0 /\ y \in Int
  BY ChapterAssumption
<1>2. Wrap(x) = IF Fits(x) THEN x ELSE (y % m) - top
  BY DEF Wrap
<1>3. y % m \in 0 .. m - 1
  <2> HIDE DEF m, y
  <2> QED BY <1>1
<1>4. x \in MaxInt + 1 .. 2 * MaxInt + 1 => y % m = y - m
  <2> SUFFICES ASSUME x \in MaxInt + 1 .. 2 * MaxInt + 1 PROVE y % m = y - m
    OBVIOUS
  <2>1. y \in m .. 2 * m - 1
    BY <1>1
  <2> HIDE DEF m, y
  <2> QED BY <1>1, <2>1, OnceOver
<1> DEFINE rem == y % m
<1> HIDE DEF rem
<1>5. rem \in 0 .. m - 1 /\ Wrap(x) = IF Fits(x) THEN x ELSE rem - top
  BY <1>2, <1>3 DEF rem
<1>6. x \in MaxInt + 1 .. 2 * MaxInt + 1 => rem = y - m
  BY <1>4 DEF rem
<1> QED BY <1>1, <1>5, <1>6 DEF Fits

\* The seconds of an hour, minutes and seconds.
HourSum(h, m, s) == h * 3600 + m * 60 + s

\* A list of numbers that reads, by its length.
LEMMA TotalIs ==
  ASSUME NEW s, Len(s) \in 1 .. 3
  PROVE  /\ Len(s) = 1 => Total(s) = s[1]
         /\ Len(s) = 2 => Total(s) = s[1] * 60 + s[2]
         /\ Len(s) = 3 => Total(s) = HourSum(s[1], s[2], s[3])
<1> DEFINE one == s[1]
           two == s[1] * 60 + s[2]
           three == s[1] * 3600 + s[2] * 60 + s[3]
           len == Len(s)
           val == Total(s)
<1>1. val = CASE len = 1 -> one [] len = 2 -> two [] len = 3 -> three
  BY DEF Total
<1> HIDE DEF one, two, three, len, val
<1>2. (len = 1 => val = one) /\ (len = 2 => val = two) /\ (len = 3 => val = three)
  BY <1>1
<1> QED BY <1>2 DEF one, two, three, len, val, HourSum

LEMMA ParseEmpty == ~Reads(<<>>)
<1>1. Len(<<>>) = 0
  OBVIOUS
<1> QED BY <1>1 DEF Reads

LEMMA ParseTwo ==
  ASSUME NEW s, Len(s) = 2, DOMAIN s = {1, 2}, s[1] <= MaxInt,
         s[2] <= MaxInt, s[2] <= 59
  PROVE  Reads(s) /\ Total(s) = s[1] * 60 + s[2]
  BY TotalIs DEF Reads

LEMMA ParseThree ==
  ASSUME NEW s, Len(s) = 3, DOMAIN s = {1, 2, 3}, s[1] <= MaxInt,
         s[2] <= MaxInt, s[2] <= 59, s[3] <= MaxInt, s[3] <= 59
  PROVE  Reads(s) /\ Total(s) = HourSum(s[1], s[2], s[3])
  BY TotalIs DEF Reads

\* Whatever int FormatFromSeconds writes, ParseToSeconds reads.
LEMMA RoundTrip ==
  ASSUME NEW secs \in 0 .. MaxInt
  PROVE  /\ FormatFromSeconds(secs) \in Seq(Nat)
         /\ Reads(FormatFromSeconds(secs))
         /\ ParseToSeconds(FormatFromSeconds(secs)) = secs
<1> DEFINE h == secs \div 3600
           m == secs \div 60
           n == (secs % 3600) \div 60
           s == secs % 60
           stamp == FormatFromSeconds(secs)
<1>1. MaxInt \in Nat /\ secs \in Nat
  BY ChapterAssumption
<1>2. /\ h \in Nat /\ m \in Nat /\ s \in 0 .. 59 /\ n \in 0 .. 59
      /\ m * 60 + s = secs
      /\ h * 3600 + n * 60 + s = secs
  BY <1>1
<1>3. stamp = IF secs >= 3600 THEN <<h, n, s>> ELSE <<m, s>>
  BY DEF FormatFromSeconds
<1> HIDE DEF h, m, n, s, stamp
<1>4. /\ h \in 0 .. MaxInt /\ m \in 0 .. MaxInt
      /\ n \in 0 .. 59 /\ n <= MaxInt /\ s \in 0 .. 59 /\ s <= MaxInt
  BY <1>1, <1>2
<1>5. <<h, n, s>> \in Seq(Nat) /\ <<m, s>> \in Seq(Nat)
  BY <1>2
<1> DEFINE three == <<h, n, s>>
           two == <<m, s>>
<1>6. Reads(three) /\ Total(three) = secs
  <2>1. /\ Len(three) = 3 /\ DOMAIN three = {1, 2, 3}
        /\ three[1] = h /\ three[2] = n /\ three[3] = s
    OBVIOUS
  <2> HIDE DEF three
  <2>2. Reads(three) /\ Total(three) = HourSum(three[1], three[2], three[3])
    BY <1>4, <2>1, ParseThree
  <2>3. HourSum(h, n, s) = secs
    BY <1>2 DEF HourSum
  <2> QED BY <2>1, <2>2, <2>3
<1>7. Reads(two) /\ Total(two) = secs
  <2>1. /\ Len(two) = 2 /\ DOMAIN two = {1, 2}
        /\ two[1] = m /\ two[2] = s
    OBVIOUS
  <2> HIDE DEF two
  <2>2. Reads(two) /\ Total(two) = two[1] * 60 + two[2]
    BY <1>4, <2>1, ParseTwo
  <2> QED BY <1>2, <2>1, <2>2
<1>8. stamp \in Seq(Nat) /\ Reads(stamp) /\ Total(stamp) = secs
  BY <1>3, <1>5, <1>6, <1>7
<1>9. Wrap(secs) = secs
  BY <1>1, WrapIs DEF Fits
<1> QED BY <1>8, <1>9 DEF ParseToSeconds, stamp

\* A line as it may be in the field, typed or shifted.
Line == [stamp : Seq(Nat), title : STRING]

LEMMA TotalType ==
  ASSUME NEW s \in Seq(Nat), Reads(s)
  PROVE  Total(s) \in Nat
<1>1. Len(s) \in 1 .. 3 /\ \A n \in 1 .. Len(s) : s[n] \in Nat
  BY DEF Reads
<1>2. CASE Len(s) = 1
  BY <1>1, <1>2, TotalIs
<1>3. CASE Len(s) = 2
  <2>1. s[1] \in Nat /\ s[2] \in Nat
    BY <1>1, <1>3
  <2> QED BY <1>1, <1>3, <2>1, TotalIs
<1>4. CASE Len(s) = 3
  <2>1. s[1] \in Nat /\ s[2] \in Nat /\ s[3] \in Nat
    BY <1>1, <1>4
  <2>2. HourSum(s[1], s[2], s[3]) \in Nat
    <3> DEFINE x == s[1]
               y == s[2]
               z == s[3]
    <3>1. x \in Nat /\ y \in Nat /\ z \in Nat
      BY <2>1
    <3> HIDE DEF x, y, z
    <3>2. HourSum(x, y, z) \in Nat
      BY <3>1 DEF HourSum
    <3> QED BY <3>2 DEF x, y, z
  <2> QED BY <1>1, <1>4, <2>2, TotalIs
<1> QED BY <1>1, <1>2, <1>3, <1>4

\* The seconds of a line are an int, and what its numbers add up to if that is one.
LEMMA SecondsType ==
  ASSUME NEW line \in Line, Parses(line)
  PROVE  /\ Seconds(line) \in Int /\ Fits(Seconds(line))
         /\ Fits(Total(line.stamp)) => Seconds(line) = Total(line.stamp)
<1>1. Total(line.stamp) \in Nat
  BY TotalType DEF Line, Parses
<1>2. Seconds(line) = Wrap(Total(line.stamp))
  BY DEF Seconds, ParseToSeconds
<1>3. /\ Fits(Seconds(line))
      /\ Fits(Total(line.stamp)) => Seconds(line) = Total(line.stamp)
  BY <1>1, <1>2, WrapIs
<1> QED BY <1>3, ChapterAssumption DEF Fits

\* What a shift makes of a line.
LEMMA ShiftEffect ==
  ASSUME NEW line \in Line, NEW by \in Int
  PROVE  /\ Shifted(line, by) \in Line
         /\ Shifted(line, by).title = line.title
         /\ Parses(Shifted(line, by)) <=> Parses(line)
         /\ ~Parses(line) => Shifted(line, by) = line
         /\ Parses(line) /\ Fits(Seconds(line) + by) =>
              Seconds(Shifted(line, by)) =
                IF Seconds(line) + by < 0 THEN 0 ELSE Seconds(line) + by
<1>1. CASE ~Parses(line)
  BY <1>1 DEF Shifted
<1>2. CASE Parses(line)
  <2> DEFINE sum == Seconds(line) + by
             secs == Moved(Seconds(line), by)
             stamp == FormatFromSeconds(secs)
  <2>1. sum \in Int
    BY <1>2, SecondsType
  <2>2. secs = IF Wrap(sum) < 0 THEN 0 ELSE Wrap(sum)
    BY DEF Moved
  <2>3. Fits(Wrap(sum)) /\ (Fits(sum) => Wrap(sum) = sum)
    <3> HIDE DEF sum
    <3> QED BY <2>1, WrapIs
  <2> HIDE DEF sum, secs
  <2>4. secs \in 0 .. MaxInt /\ (Fits(sum) => secs = IF sum < 0 THEN 0 ELSE sum)
    BY <2>2, <2>3, ChapterAssumption DEF Fits
  <2>5. stamp \in Seq(Nat) /\ Reads(stamp) /\ ParseToSeconds(stamp) = secs
    BY <2>4, RoundTrip
  <2>6. Shifted(line, by) = [line EXCEPT !.stamp = stamp]
    BY <1>2 DEF Shifted, secs
  <2> HIDE DEF stamp
  <2>7. /\ Shifted(line, by) \in Line
        /\ Shifted(line, by).title = line.title
        /\ Shifted(line, by).stamp = stamp
    BY <2>5, <2>6 DEF Line
  <2>8. Parses(Shifted(line, by)) /\ Seconds(Shifted(line, by)) = secs
    BY <2>5, <2>7 DEF Parses, Seconds
  <2> QED BY <1>2, <2>4, <2>7, <2>8 DEF sum
<1> QED BY <1>1, <1>2

--------------------------------------------------------------------------------
(***************************************************************************)
(* The text of a list of chapters                                          *)
(***************************************************************************)

\* What a line has in common with what was typed in its place, whose timestamp is
\* the sum of the offsets away, or cut off at 0:00 since, or lost.
Descends(line, origin, by, cut, lost) ==
  /\ line.title = origin.title
  /\ Parses(line) <=> Parses(origin)
  /\ ~Parses(line) => line = origin
  /\ Parses(line) /\ ~lost =>
       /\ Fits(Total(origin.stamp))
       /\ ~cut => Seconds(line) = Total(origin.stamp) + by
       /\ Seconds(line) >= Total(origin.stamp) + by

ChapterInv ==
  /\ text \in Seq(Line) /\ typed \in Seq(Line) /\ Len(text) = Len(typed)
  /\ net \in Int /\ clamped \in BOOLEAN /\ wrapped \in BOOLEAN
  /\ \A n \in 1 .. Len(text) : Descends(text[n], typed[n], net, clamped, wrapped)

LEMMA NoLines == /\ <<>> \in Seq(Line) /\ Len(<<>>) = 0
                 /\ \A n \in 1 .. 0 : FALSE
  OBVIOUS

LEMMA ChapterStarts == ASSUME ChapterInit PROVE ChapterInv
<1>1. text = <<>> /\ typed = <<>> /\ net = 0 /\ clamped = FALSE /\ wrapped = FALSE
  BY DEF ChapterInit
<1>2. text \in Seq(Line) /\ typed \in Seq(Line) /\ Len(text) = 0 /\ Len(typed) = 0
  BY <1>1, NoLines
<1>3. \A n \in 1 .. Len(text) : FALSE
  BY <1>2, NoLines
<1>4. net \in Int
  BY <1>1
<1>5. clamped \in BOOLEAN /\ wrapped \in BOOLEAN
  BY <1>1, Zenon
<1> QED BY <1>2, <1>3, <1>4, <1>5 DEF ChapterInv

LEMMA ChapterRestarts == ASSUME ChapterMounts PROVE ChapterInv'
<1>1. /\ text' = <<>> /\ typed' = <<>> /\ net' = 0
      /\ clamped' = FALSE /\ wrapped' = FALSE
  BY DEF ChapterMounts
<1>2. text' \in Seq(Line) /\ typed' \in Seq(Line) /\ Len(text') = 0 /\ Len(typed') = 0
  BY <1>1, NoLines
<1>3. \A n \in 1 .. Len(text') : FALSE
  BY <1>2, NoLines
<1>4. net' \in Int
  BY <1>1
<1>5. clamped' \in BOOLEAN /\ wrapped' \in BOOLEAN
  BY <1>1, Zenon
<1> QED BY <1>2, <1>3, <1>4, <1>5 DEF ChapterInv

LEMMA ChapterTypes == ASSUME ChapterInv, typeLine PROVE ChapterInv'
<1>1. PICK line \in Lines :
        /\ text' = Append(text, line)
        /\ wrapped' = (wrapped \/ (Parses(line) /\ ~Fits(Total(line.stamp))))
  BY DEF typeLine
<1>2. line \in Line /\ text' \in Seq(Line)
  BY <1>1, ChapterAssumption DEF Line, ChapterInv
<1>3. typed' = text' /\ text = typed /\ net = 0 /\ net' = 0 /\ clamped' = clamped
  BY DEF typeLine
<1>4. \A n \in 1 .. Len(text') : text'[n] = IF n = Len(text) + 1 THEN line ELSE text[n]
  BY <1>1 DEF ChapterInv
<1>5. Len(text) \in Nat /\ 1 .. Len(text') = 1 .. Len(text) + 1
  BY <1>1 DEF ChapterInv
<1>6. ASSUME NEW n \in 1 .. Len(text')
      PROVE  Descends(text'[n], text'[n], 0, clamped, wrapped')
  <2> DEFINE new == text'[n]
  <2>1. new \in Line
    BY <1>2
  <2>2. Parses(new) /\ ~wrapped' => Fits(Total(new.stamp))
    <3>1. CASE n = Len(text) + 1
      BY <1>1, <1>4, <3>1
    <3>2. CASE n # Len(text) + 1
      <4>1. n \in 1 .. Len(text) /\ new = text[n]
        BY <1>4, <1>5, <3>2
      <4>2. Descends(text[n], text[n], net, clamped, wrapped)
        BY <1>3, <4>1 DEF ChapterInv
      <4> QED BY <1>1, <4>1, <4>2 DEF Descends
    <3> QED BY <3>1, <3>2
  <2> HIDE DEF new
  <2>3. Parses(new) /\ ~wrapped' => /\ Seconds(new) = Total(new.stamp)
                                   /\ Total(new.stamp) \in Nat
    BY <2>1, <2>2, SecondsType, TotalType DEF Line, Parses
  <2>4. Descends(new, new, 0, clamped, wrapped')
    BY <2>2, <2>3 DEF Descends
  <2> QED BY <2>4 DEF new
<1>7. wrapped' \in BOOLEAN
  BY <1>1
<1> QED BY <1>2, <1>3, <1>6, <1>7 DEF ChapterInv

LEMMA ChapterShifts == ASSUME ChapterInv, shift PROVE ChapterInv'
<1>1. PICK by \in Int :
        /\ net' = net + by
        /\ text' = [n \in DOMAIN text |-> Shifted(text[n], by)]
        /\ clamped' = (clamped \/ \E n \in DOMAIN text :
                                    Parses(text[n]) /\ Seconds(text[n]) + by < 0)
        /\ wrapped' = (wrapped \/ \E n \in DOMAIN text :
                                    Parses(text[n]) /\ ~Fits(Seconds(text[n]) + by))
  BY ChapterAssumption DEF shift
<1>2. by \in Int /\ net \in Int /\ net' \in Int
  BY <1>1 DEF ChapterInv
<1>3. /\ Len(text) \in Nat /\ DOMAIN text = 1 .. Len(text)
      /\ \A n \in 1 .. Len(text) : text[n] \in Line /\ typed[n] \in Line
      /\ typed' = typed /\ typed \in Seq(Line)
  BY DEF ChapterInv, shift
<1>4. \A n \in 1 .. Len(text) : Shifted(text[n], by) \in Line
  BY <1>2, <1>3, ShiftEffect
<1>5. text' \in Seq(Line) /\ Len(text') = Len(text)
  BY <1>1, <1>3, <1>4
<1>6. ASSUME NEW n \in 1 .. Len(text)
      PROVE  Descends(text'[n], typed[n], net', clamped', wrapped')
  <2> DEFINE old == text[n]
             new == text'[n]
             origin == typed[n]
  <2>1. /\ new.title = old.title
        /\ Parses(new) <=> Parses(old)
        /\ ~Parses(old) => new = old
        /\ Parses(old) /\ Fits(Seconds(old) + by) =>
             Seconds(new) = IF Seconds(old) + by < 0 THEN 0 ELSE Seconds(old) + by
    BY <1>1, <1>2, <1>3, ShiftEffect
  <2>2. Descends(old, origin, net, clamped, wrapped) /\ old \in Line /\ origin \in Line
    BY <1>3 DEF ChapterInv
  <2>3. /\ ~clamped' => ~clamped /\ (Parses(old) => ~(Seconds(old) + by < 0))
        /\ ~wrapped' => ~wrapped /\ (Parses(old) => Fits(Seconds(old) + by))
    BY <1>1, <1>3
  <2> HIDE DEF old, new, origin
  <2>4. /\ Parses(old) => Seconds(old) \in Int
        /\ Parses(origin) => Total(origin.stamp) \in Int
    BY <2>2, SecondsType, TotalType DEF Line, Parses
  <2>5. Descends(new, origin, net + by, clamped', wrapped')
    BY <1>2, <2>1, <2>2, <2>3, <2>4 DEF Descends
  <2> QED BY <1>1, <2>5 DEF new, origin
<1>7. clamped' \in BOOLEAN /\ wrapped' \in BOOLEAN
  BY <1>1
<1> QED BY <1>2, <1>3, <1>5, <1>6, <1>7 DEF ChapterInv

LEMMA BlankParsesNot == ASSUME NEW line, Blank(line) PROVE ~Parses(line)
<1>1. line.stamp = <<>>
  BY DEF Blank
<1>2. ~Reads(line.stamp)
  BY <1>1, ParseEmpty
<1> QED BY <1>2 DEF Parses

\* A line parses, or it is blank, or it is counted as unparsed.
LEMMA LinesCounted ==
  ASSUME ChapterInv
  PROVE  linesParsed(text) = Cardinality(Chapters(text))
                             + Cardinality({n \in DOMAIN typed : Blank(typed[n])})
<1> DEFINE all == 1 .. Len(text)
           parsed == Chapters(text)
           blank == {n \in DOMAIN typed : Blank(typed[n])}
           other == {n \in DOMAIN text : ~Parses(text[n]) /\ ~Blank(text[n])}
<1>1. DOMAIN text = all /\ DOMAIN typed = all /\ Len(text) \in Nat
  BY DEF ChapterInv
<1>2. \A n \in all : Descends(text[n], typed[n], net, clamped, wrapped)
  BY DEF ChapterInv
<1>3. \A line : Blank(line) => ~Parses(line)
  BY BlankParsesNot
<1>4. blank = {n \in all : Blank(text[n])}
  BY <1>1, <1>2, <1>3 DEF Descends
<1>5. /\ all = (parsed \cup blank) \cup other
      /\ parsed \cap blank = {} /\ (parsed \cup blank) \cap other = {}
  BY <1>1, <1>3, <1>4 DEF Chapters
<1> HIDE DEF parsed, blank, other
<1>6. IsFiniteSet(all) /\ Cardinality(all) = Len(text)
  <2>1. IsFiniteSet(all) /\ Cardinality(all) = IF 1 > Len(text) THEN 0 ELSE Len(text) - 1 + 1
    BY <1>1, FS_Interval
  <2> QED BY <1>1, <2>1
<1>7. IsFiniteSet(parsed) /\ IsFiniteSet(blank) /\ IsFiniteSet(other)
  BY <1>5, <1>6, FS_Subset
<1>8. /\ IsFiniteSet(parsed \cup blank)
      /\ Cardinality(parsed \cup blank) = Cardinality(parsed) + Cardinality(blank)
  BY <1>5, <1>7, DisjointUnion
<1>9. Cardinality(all) = Cardinality(parsed) + Cardinality(blank) + Cardinality(other)
  <2> HIDE DEF all
  <2> QED BY <1>5, <1>7, <1>8, DisjointUnion
<1>10. linesParsed(text) = Len(text) - Cardinality(other)
  BY DEF linesParsed, unparsedCount, other
<1> QED BY <1>6, <1>7, <1>9, <1>10, FS_CardinalityType DEF parsed, blank

LEMMA ChapterAddsUp == ASSUME ChapterInv PROVE ShiftsAddUp
<1>1. DOMAIN text = 1 .. Len(text)
  BY DEF ChapterInv
<1> QED BY <1>1, LinesCounted DEF ChapterInv, Descends, ShiftsAddUp

--------------------------------------------------------------------------------
(***************************************************************************)
(* The chapter validator                                                   *)
(***************************************************************************)

\* The issues, one by one.
IssueAt(lines, n, type) ==
  LET c == Chapters(lines)
  IN \/ /\ type = "INVALID_FORMAT"
        /\ ~Blank(lines[n]) /\ n \notin c
     \/ /\ type = "EMPTY_TITLE"
        /\ n \in c /\ lines[n].title = ""
     \/ /\ type = "DUPLICATE_TIMESTAMP"
        /\ n \in c /\ \E m \in c : m < n /\ Seconds(lines[m]) = Seconds(lines[n])
     \/ /\ type = "DUPLICATE_TITLE"
        /\ n \in c /\ lines[n].title # ""
        /\ \E m \in c : m < n /\ lines[m].title = lines[n].title
     \/ /\ type = "MISSING_START"
        /\ n \in c /\ First(n, c) /\ Seconds(lines[n]) # 0
     \/ /\ type = "OUT_OF_ORDER"
        /\ n \in c /\ \E m \in c : /\ Follows(m, n, c)
                                  /\ Seconds(lines[n]) < Seconds(lines[m])
     \/ /\ type = "TOO_CLOSE"
        /\ n \in c /\ \E m \in c : /\ Follows(m, n, c)
                                  /\ TooClose(Seconds(lines[n]), Seconds(lines[m]))

LEMMA LineIssueAt ==
  ASSUME NEW lines \in Seq(Line), NEW i
  PROVE  i \in LineIssues(lines) <=>
           \E n \in DOMAIN lines :
             \E t \in {"INVALID_FORMAT", "EMPTY_TITLE", "DUPLICATE_TIMESTAMP",
                      "DUPLICATE_TITLE"} : IssueAt(lines, n, t) /\ i = Issue(n, t)
<1>1. DOMAIN lines = 1 .. Len(lines) /\ Len(lines) \in Nat
  OBVIOUS
<1>2. \A line : Blank(line) => ~Parses(line)
  BY BlankParsesNot
<1> DEFINE before(n) == {m \in 1 .. n - 1 : Parses(lines[m])}
           ofLine(n) ==
             IF ~Parses(lines[n]) THEN {"INVALID_FORMAT"}
             ELSE {t \in {"EMPTY_TITLE", "DUPLICATE_TIMESTAMP", "DUPLICATE_TITLE"} :
                     \/ t = "EMPTY_TITLE" /\ lines[n].title = ""
                     \/ /\ t = "DUPLICATE_TIMESTAMP"
                        /\ \E m \in before(n) : Seconds(lines[m]) = Seconds(lines[n])
                     \/ /\ t = "DUPLICATE_TITLE" /\ lines[n].title # ""
                        /\ \E m \in before(n) : lines[m].title = lines[n].title}
<1>3. i \in LineIssues(lines) <=>
        \E n \in DOMAIN lines : ~Blank(lines[n]) /\ \E t \in ofLine(n) : i = Issue(n, t)
  <2>1. LineIssues(lines) = UNION {{Issue(n, t) : t \in ofLine(n)} :
                                     n \in {k \in DOMAIN lines : ~Blank(lines[k])}}
    BY DEF LineIssues
  <2> HIDE DEF ofLine
  <2> QED BY <2>1
<1>4. ASSUME NEW n \in DOMAIN lines
      PROVE  before(n) = {m \in Chapters(lines) : m < n}
  BY <1>1 DEF Chapters
<1>5. ASSUME NEW n \in DOMAIN lines, NEW t
      PROVE  (~Blank(lines[n]) /\ t \in ofLine(n)) <=>
             /\ t \in {"INVALID_FORMAT", "EMPTY_TITLE", "DUPLICATE_TIMESTAMP",
                       "DUPLICATE_TITLE"}
             /\ IssueAt(lines, n, t)
  <2> HIDE DEF before
  <2>1. n \in Chapters(lines) <=> Parses(lines[n])
    BY DEF Chapters
  <2> QED BY <1>2, <1>4, <2>1 DEF IssueAt
<1> HIDE DEF ofLine
<1> QED BY <1>3, <1>5

LEMMA ChapterIssueAt ==
  ASSUME NEW lines \in Seq(Line), NEW i
  PROVE  i \in ChapterIssues(lines) <=>
           \E n \in DOMAIN lines :
             \E t \in {"MISSING_START", "OUT_OF_ORDER", "TOO_CLOSE"} :
               IssueAt(lines, n, t) /\ i = Issue(n, t)
<1> DEFINE c == Chapters(lines)
           secs(n) == Seconds(lines[n])
           beside(n) == {secs(m) : m \in {k \in c : Follows(k, n, c)}}
<1>1. i \in ChapterIssues(lines) <=>
        \/ \E n \in c : i = Issue(n, "MISSING_START") /\ First(n, c) /\ secs(n) # 0
        \/ \E n \in c : i = Issue(n, "OUT_OF_ORDER") /\ \E p \in beside(n) : secs(n) < p
        \/ \E n \in c : i = Issue(n, "TOO_CLOSE") /\ \E p \in beside(n) : TooClose(secs(n), p)
  BY DEF ChapterIssues
<1>2. \A n \in c : n \in DOMAIN lines
  BY DEF Chapters
<1>3. ASSUME NEW n
      PROVE  /\ (\E p \in beside(n) : secs(n) < p) <=>
                  \E m \in c : Follows(m, n, c) /\ secs(n) < secs(m)
             /\ (\E p \in beside(n) : TooClose(secs(n), p)) <=>
                  \E m \in c : Follows(m, n, c) /\ TooClose(secs(n), secs(m))
  OBVIOUS
<1> HIDE DEF beside
<1>4. ASSUME NEW n
      PROVE  /\ IssueAt(lines, n, "MISSING_START") <=>
                  n \in c /\ First(n, c) /\ secs(n) # 0
             /\ IssueAt(lines, n, "OUT_OF_ORDER") <=>
                  n \in c /\ \E m \in c : Follows(m, n, c) /\ secs(n) < secs(m)
             /\ IssueAt(lines, n, "TOO_CLOSE") <=>
                  n \in c /\ \E m \in c : Follows(m, n, c) /\ TooClose(secs(n), secs(m))
  BY Zenon DEF IssueAt
<1>5. \A n : IssueAt(lines, n, "MISSING_START") <=>
               n \in c /\ First(n, c) /\ secs(n) # 0
  BY <1>4
<1>6. \A n : IssueAt(lines, n, "OUT_OF_ORDER") <=>
               n \in c /\ \E p \in beside(n) : secs(n) < p
  BY <1>3, <1>4
<1>7. \A n : IssueAt(lines, n, "TOO_CLOSE") <=>
               n \in c /\ \E p \in beside(n) : TooClose(secs(n), p)
  BY <1>3, <1>4
<1> HIDE DEF c, secs
<1>8. i \in ChapterIssues(lines) <=>
        \E n \in DOMAIN lines :
          \/ IssueAt(lines, n, "MISSING_START") /\ i = Issue(n, "MISSING_START")
          \/ IssueAt(lines, n, "OUT_OF_ORDER") /\ i = Issue(n, "OUT_OF_ORDER")
          \/ IssueAt(lines, n, "TOO_CLOSE") /\ i = Issue(n, "TOO_CLOSE")
  BY <1>1, <1>2, <1>5, <1>6, <1>7, Zenon
<1> QED BY <1>8

IssueTypes == {"INVALID_FORMAT", "EMPTY_TITLE", "DUPLICATE_TIMESTAMP", "DUPLICATE_TITLE",
               "MISSING_START", "OUT_OF_ORDER", "TOO_CLOSE"}

LEMMA IssuesAt ==
  ASSUME NEW lines \in Seq(Line), NEW i
  PROVE  i \in Issues(lines) <=>
           \E n \in DOMAIN lines, t \in IssueTypes : IssueAt(lines, n, t) /\ i = Issue(n, t)
  BY LineIssueAt, ChapterIssueAt DEF Issues, IssueTypes

\* Of two ints in order, the validator finds those that are less than ten apart;
\* of two so far apart that their difference wraps around, it complains too.
LEMMA FarApart ==
  ASSUME NEW x \in Int, NEW y \in Int, Fits(x), Fits(y), y < x
  PROVE  /\ ~TooClose(x, y) => x >= y + 10
         /\ x >= y + 10 /\ y >= 0 => ~TooClose(x, y)
<1> DEFINE d == x - y
<1>1. MaxInt \in Nat /\ d \in 1 .. 2 * MaxInt + 1
  BY ChapterAssumption DEF Fits
<1>2. TooClose(x, y) <=> Wrap(d) < 10
  BY DEF TooClose
<1>3. /\ Fits(d) => Wrap(d) = d
      /\ d \in MaxInt + 1 .. 2 * MaxInt + 1 => Wrap(d) < 0
  <2> HIDE DEF d
  <2> QED BY <1>1, WrapIs
<1>4. /\ Fits(d) <=> d <= MaxInt
      /\ y >= 0 => d <= MaxInt
  BY <1>1 DEF Fits
<1>5. Wrap(d) \in Int
  <2> HIDE DEF d
  <2> QED BY <1>1, WrapIs DEF Fits
<1> DEFINE w == Wrap(d)
<1> HIDE DEF w
<1>6. /\ w \in Int /\ (TooClose(x, y) <=> w < 10)
      /\ d <= MaxInt => w = d
      /\ d > MaxInt => w < 0
  BY <1>1, <1>2, <1>3, <1>4, <1>5 DEF w
<1> QED BY <1>1, <1>4, <1>6

\* Where no neighbours are too close, no chapters are: by induction from one to the
\* next, as the first that comes too soon has a neighbour before it.
LEMMA Spaced ==
  ASSUME NEW lines \in Seq(Line), Issues(lines) = {}
  PROVE  \A n, m \in Chapters(lines) :
           m < n => Seconds(lines[n]) >= Seconds(lines[m]) + 10
<1> DEFINE c == Chapters(lines)
           sec(n) == Seconds(lines[n])
           soon == {n \in c : \E m \in c : m < n /\ sec(n) < sec(m) + 10}
<1>1. c \subseteq DOMAIN lines /\ DOMAIN lines \subseteq Nat /\ soon \subseteq c
  BY DEF Chapters
<1>2. ASSUME NEW n \in c PROVE sec(n) \in Int /\ Fits(sec(n))
  <2>1. lines[n] \in Line /\ Parses(lines[n])
    BY DEF Chapters
  <2> QED BY <2>1, SecondsType
<1>3. ASSUME NEW n \in c, NEW m \in c, Follows(m, n, c)
      PROVE  sec(n) >= sec(m) + 10
  <2>1. ~IssueAt(lines, n, "OUT_OF_ORDER") /\ ~IssueAt(lines, n, "TOO_CLOSE")
        /\ ~IssueAt(lines, n, "DUPLICATE_TIMESTAMP")
    BY <1>1, IssuesAt DEF IssueTypes
  <2>2. sec(n) # sec(m)
    BY <1>3, <2>1 DEF IssueAt, Follows
  <2>3. ~(sec(n) < sec(m)) /\ ~TooClose(sec(n), sec(m))
    BY <1>3, <2>1 DEF IssueAt
  <2> HIDE DEF sec, c
  <2> QED BY <1>2, <2>2, <2>3, FarApart
<1> HIDE DEF c
<1>4. ASSUME NEW n0 \in soon PROVE FALSE
  <2>1. PICK n \in soon : \A k \in soon : n <= k
    <3>1. soon \subseteq Nat /\ soon # {}
      BY <1>1, <1>4
    <3> HIDE DEF soon
    <3> QED BY <3>1, Smallest
  <2>2. n \in c /\ n \in Nat
    BY <1>1
  <2>3. PICK m \in c : m < n /\ sec(n) < sec(m) + 10
    OBVIOUS
  <2>4. PICK p \in c : p < n /\ \A k \in c : k <= p \/ k >= n
    <3>1. c \subseteq Nat /\ \E k \in c : k < n
      BY <1>1, <2>3
    <3> QED BY <2>2, <3>1, LastBefore
  <2>5. sec(n) >= sec(p) + 10
    BY <1>3, <2>2, <2>4 DEF Follows
  <2>6. m \in Nat /\ p \in Nat /\ m <= p
    BY <1>1, <2>2, <2>3, <2>4
  <2>7. p \notin soon
    BY <2>1, <2>2, <2>4, <2>6
  <2>8. m < p => sec(p) >= sec(m) + 10
    <3>1. m < p => ~(sec(p) < sec(m) + 10)
      BY <2>7
    <3> HIDE DEF sec
    <3> QED BY <1>2, <3>1
  <2>9. sec(n) \in Int /\ sec(m) \in Int /\ sec(p) \in Int
    BY <1>2, <2>2
  <2>10. m = p \/ m < p
    BY <2>6
  <2> HIDE DEF sec, soon
  <2> QED BY <2>3, <2>5, <2>8, <2>9, <2>10
<1>5. ASSUME NEW n \in c, NEW m \in c, m < n PROVE sec(n) >= sec(m) + 10
  <2>1. ~(sec(n) < sec(m) + 10)
    BY <1>4, <1>5
  <2> HIDE DEF sec
  <2> QED BY <1>2, <2>1
<1> QED BY <1>5 DEF c

\* The validator finds fault exactly with the lists that the rules refuse.
LEMMA RightIssues ==
  ASSUME NEW lines \in Seq(Line)
  PROVE  Issues(lines) = {} <=> GoodChapters(lines)
<1> DEFINE c == Chapters(lines)
           full == {n \in DOMAIN lines : ~Blank(lines[n])}
<1>1. c \subseteq full /\ full \subseteq DOMAIN lines /\ DOMAIN lines \subseteq Nat
  BY BlankParsesNot DEF Chapters
<1>2. ASSUME NEW n \in c
      PROVE  Seconds(lines[n]) \in Int /\ Fits(Seconds(lines[n]))
  <2>1. lines[n] \in Line /\ Parses(lines[n])
    BY DEF Chapters
  <2> QED BY <2>1, SecondsType
<1>3. ASSUME NEW n \in full PROVE n \in c <=> Parses(lines[n])
  BY DEF Chapters
<1>4. ASSUME Issues(lines) = {} PROVE GoodChapters(lines)
  <2>1. \A n \in DOMAIN lines, t \in IssueTypes : ~IssueAt(lines, n, t)
    BY <1>4, IssuesAt
  <2>2. ASSUME NEW n \in full
        PROVE  /\ n \in c /\ lines[n].title # ""
               /\ First(n, c) => Seconds(lines[n]) = 0
               /\ \A m \in c : m < n => lines[n].title # lines[m].title
    <3>1. /\ ~IssueAt(lines, n, "INVALID_FORMAT") /\ ~IssueAt(lines, n, "EMPTY_TITLE")
          /\ ~IssueAt(lines, n, "MISSING_START") /\ ~IssueAt(lines, n, "DUPLICATE_TITLE")
      BY <2>1 DEF IssueTypes
    <3>2. n \in c
      BY <3>1 DEF IssueAt
    <3> HIDE DEF c
    <3> QED BY <3>1, <3>2 DEF IssueAt, c
  <2>3. full = c
    BY <1>1, <2>2
  <2>4. \A n, m \in c : m < n => Seconds(lines[n]) >= Seconds(lines[m]) + 10
    BY <1>4, Spaced
  <2>5. \A n \in c : Parses(lines[n])
    BY DEF Chapters
  <2> HIDE DEF c
  <2> QED BY <2>2, <2>3, <2>4, <2>5 DEF GoodChapters, First
<1>5. ASSUME GoodChapters(lines) PROVE Issues(lines) = {}
  <2>1. \A n \in full : Parses(lines[n]) /\ lines[n].title # ""
    BY <1>5 DEF GoodChapters
  <2>2. full = c
    BY <1>1, <1>3, <2>1
  <2>3. ASSUME NEW n \in c
        PROVE  /\ First(n, c) => Seconds(lines[n]) = 0
               /\ \A m \in c : m < n => /\ Seconds(lines[n]) >= Seconds(lines[m]) + 10
                                      /\ lines[n].title # lines[m].title
    BY <1>5, <2>2 DEF GoodChapters, First
  <2>4. ASSUME NEW n \in c PROVE Seconds(lines[n]) >= 0
    <3>1. PICK m \in c : \A k \in c : m <= k
      <4>1. c \subseteq Nat /\ c # {}
        BY <1>1, <2>4
      <4> HIDE DEF c
      <4> QED BY <4>1, Smallest
    <3>2. m \in Nat /\ n \in Nat /\ c \subseteq Nat
      BY <1>1
    <3>3. First(m, c)
      BY <3>1, <3>2 DEF First
    <3>4. Seconds(lines[m]) = 0
      BY <2>3, <3>3
    <3>5. m # n => Seconds(lines[n]) >= Seconds(lines[m]) + 10
      BY <2>3, <3>1, <3>2
    <3>6. Seconds(lines[n]) \in Int
      BY <1>2
    <3> QED BY <3>4, <3>5, <3>6
  <2>5. ASSUME NEW n \in DOMAIN lines, NEW t \in IssueTypes, IssueAt(lines, n, t)
        PROVE  FALSE
    <3>1. CASE t \in {"INVALID_FORMAT", "EMPTY_TITLE"}
      BY <2>1, <2>2, <2>5, <3>1 DEF IssueAt
    <3>2. CASE t = "MISSING_START"
      BY <2>3, <2>5, <3>2 DEF IssueAt
    <3>3. CASE t = "DUPLICATE_TITLE"
      BY <2>3, <2>5, <3>3 DEF IssueAt
    <3>4. CASE t \in {"DUPLICATE_TIMESTAMP", "OUT_OF_ORDER", "TOO_CLOSE"}
      <4>1. n \in c /\ \E m \in c :
              m < n /\ \/ Seconds(lines[m]) = Seconds(lines[n])
                       \/ Seconds(lines[n]) < Seconds(lines[m])
                       \/ TooClose(Seconds(lines[n]), Seconds(lines[m]))
        BY <2>5, <3>4 DEF IssueAt, Follows
      <4>2. PICK m \in c :
              m < n /\ \/ Seconds(lines[m]) = Seconds(lines[n])
                       \/ Seconds(lines[n]) < Seconds(lines[m])
                       \/ TooClose(Seconds(lines[n]), Seconds(lines[m]))
        BY <4>1
      <4>3. Seconds(lines[n]) >= Seconds(lines[m]) + 10 /\ Seconds(lines[m]) >= 0
        BY <2>3, <2>4, <4>1, <4>2
      <4>4. /\ Seconds(lines[n]) \in Int /\ Fits(Seconds(lines[n]))
            /\ Seconds(lines[m]) \in Int /\ Fits(Seconds(lines[m]))
        BY <1>2, <4>1
      <4> DEFINE x == Seconds(lines[n])
                 y == Seconds(lines[m])
      <4> HIDE DEF c, x, y
      <4>5. x \in Int /\ y \in Int /\ Fits(x) /\ Fits(y) /\ x >= y + 10 /\ y >= 0
        BY <4>3, <4>4 DEF x, y
      <4>6. x = y \/ x < y \/ TooClose(x, y)
        BY <4>2 DEF x, y
      <4> QED BY <4>5, <4>6, FarApart
    <3> QED BY <3>1, <3>2, <3>3, <3>4 DEF IssueTypes
  <2> QED BY <2>5, IssuesAt
<1> QED BY <1>4, <1>5

\* A good list shifted has no issue but at its start.
LEMMA ShiftedIssues ==
  ASSUME ChapterInv, Issues(typed) = {}, ~clamped, ~wrapped, NEW i \in Issues(text)
  PROVE  i.type = "MISSING_START"
<1>1. PICK n \in DOMAIN text, t \in IssueTypes : IssueAt(text, n, t) /\ i = Issue(n, t)
  BY IssuesAt DEF ChapterInv
<1>2. i.type = t
  BY <1>1 DEF Issue
<1>3. /\ DOMAIN text = DOMAIN typed /\ net \in Int
      /\ \A k \in DOMAIN text : Descends(text[k], typed[k], net, clamped, wrapped)
      /\ \A k \in DOMAIN text : text[k] \in Line /\ typed[k] \in Line
  BY DEF ChapterInv
<1> DEFINE c == Chapters(typed)
<1>4. Chapters(text) = c
  BY <1>3 DEF Chapters, Descends
<1>5. \A k \in c : /\ Seconds(text[k]) = Seconds(typed[k]) + net
                   /\ Seconds(typed[k]) \in Int
  BY <1>3, <1>4, SecondsType DEF Chapters, Descends
<1>6. \A k \in DOMAIN text : text[k].title = typed[k].title
  BY <1>3 DEF Descends
<1>7. \A k \in DOMAIN text : Blank(typed[k]) => Blank(text[k])
  BY <1>3, BlankParsesNot DEF Descends
<1>8. c \subseteq DOMAIN text
  BY <1>3 DEF Chapters
<1>9. \A k, m \in c :
        /\ Seconds(text[k]) - Seconds(text[m]) = Seconds(typed[k]) - Seconds(typed[m])
        /\ Seconds(text[k]) = Seconds(text[m]) <=> Seconds(typed[k]) = Seconds(typed[m])
        /\ Seconds(text[k]) < Seconds(text[m]) <=> Seconds(typed[k]) < Seconds(typed[m])
  <2> HIDE DEF c
  <2> QED BY <1>3, <1>5
<1>10. ASSUME t # "MISSING_START" PROVE IssueAt(typed, n, t)
  <2> HIDE DEF c
  <2>1. CASE t = "INVALID_FORMAT"
    BY <1>1, <1>4, <1>7, <2>1 DEF IssueAt, c
  <2>2. CASE t \in {"EMPTY_TITLE", "DUPLICATE_TITLE"}
    BY <1>1, <1>4, <1>6, <1>8, <2>2 DEF IssueAt, c
  <2>3. CASE t = "DUPLICATE_TIMESTAMP"
    <3>1. n \in c /\ \E m \in c : m < n /\ Seconds(text[m]) = Seconds(text[n])
      BY <1>1, <1>4, <2>3 DEF IssueAt
    <3>2. \E m \in c : m < n /\ Seconds(typed[m]) = Seconds(typed[n])
      BY <1>9, <3>1
    <3> QED BY <2>3, <3>1, <3>2 DEF IssueAt, c
  <2>4. CASE t = "OUT_OF_ORDER"
    <3>1. n \in c /\ \E m \in c : /\ Follows(m, n, c)
                                 /\ Seconds(text[n]) < Seconds(text[m])
      BY <1>1, <1>4, <2>4 DEF IssueAt
    <3>2. \E m \in c : /\ Follows(m, n, c)
                       /\ Seconds(typed[n]) < Seconds(typed[m])
      BY <1>9, <3>1
    <3> QED BY <2>4, <3>1, <3>2 DEF IssueAt, c
  <2>5. CASE t = "TOO_CLOSE"
    <3>1. n \in c /\ \E m \in c : /\ Follows(m, n, c)
                                 /\ TooClose(Seconds(text[n]), Seconds(text[m]))
      BY <1>1, <1>4, <2>5 DEF IssueAt
    <3>2. \E m \in c : /\ Follows(m, n, c)
                       /\ TooClose(Seconds(typed[n]), Seconds(typed[m]))
      BY <1>9, <3>1 DEF TooClose
    <3> QED BY <2>5, <3>1, <3>2 DEF IssueAt, c
  <2> QED BY <1>10, <2>1, <2>2, <2>3, <2>4, <2>5 DEF IssueTypes
<1>11. typed \in Seq(Line) /\ n \in DOMAIN typed
  BY <1>3 DEF ChapterInv
<1> QED BY <1>2, <1>10, <1>11, IssuesAt

LEMMA ChapterValidated == ASSUME ChapterInv PROVE ValidatorIsRight
<1>1. text \in Seq(Line)
  BY DEF ChapterInv
<1> QED BY <1>1, RightIssues, ShiftedIssues DEF ValidatorIsRight

--------------------------------------------------------------------------------
(***************************************************************************)
(* In the site                                                             *)
(***************************************************************************)

\* A visit to another page mounts both pages afresh; a step on one page leaves
\* the other alone.
LEMMA MachinesMove ==
  ASSUME [Next]_vars
  PROVE  /\ GenNext \/ GenMounts \/ UNCHANGED genVars
         /\ PreviewNext \/ PreviewMounts \/ UNCHANGED previewVars
         /\ TableNext \/ TableMounts \/ UNCHANGED tableVars
         /\ ChapterNext \/ ChapterMounts \/ UNCHANGED chapterVars
  BY DEF Next, vars, GoElsewhere, Redirect, Go

LEMMA GenKept == ASSUME GenInv, [Next]_vars PROVE GenInv'
<1>1. CASE UNCHANGED genVars
  BY <1>1 DEF genVars, GenInv, GenTypeInv, LookupInv, GenerateInv
<1> QED BY <1>1, MachinesMove, GenSteps, GenRestarts

LEMMA PreviewKept == ASSUME PreviewInv, [Next]_vars PROVE PreviewInv'
<1>1. CASE UNCHANGED previewVars
  BY <1>1 DEF previewVars, PreviewInv, PreviewTypeInv, FetchInv, ChoiceInv,
              FileInv, NoFileInv
<1> QED BY <1>1, MachinesMove, PreviewSteps, PreviewRestarts

LEMMA TableKept == ASSUME TableInv, [Next]_vars PROVE TableInv'
<1>1. CASE UNCHANGED tableVars
  BY <1>1 DEF tableVars, TableInv, NoRowLeftBehind
<1> QED BY <1>1, MachinesMove, TableSteps, TableRestarts

LEMMA ChapterKept == ASSUME ChapterInv, [Next]_vars PROVE ChapterInv'
<1>1. CASE UNCHANGED chapterVars
  BY <1>1 DEF chapterVars, ChapterInv
<1>2. CASE ChapterNext
  BY <1>2, ChapterTypes, ChapterShifts DEF ChapterNext
<1> QED BY <1>1, <1>2, MachinesMove, ChapterRestarts

\* The generator never shows links of another click, or of another URL than the
\* one that was submitted last, nor an identifier of another URL, however the
\* answers to its two mutations overtake each other (page.tsx of the timestamp
\* generator; but for a URL submitted while the links are on the page).
THEOREM GeneratorAlwaysAgrees == Spec => []GeneratorAgrees
<1>1. Init => GenInv
  BY GenStarts DEF Init
<1>2. GenInv /\ [Next]_vars => GenInv'
  BY GenKept
<1>3. GenInv => GeneratorAgrees
  BY GenShows
<1> QED BY <1>1, <1>2, <1>3, PTL DEF Spec

\* When no reader and no lookup is at work any more, the preview shows what was
\* chosen last, be it a file, a URL or nothing; but for choices made while a
\* reader was at work and for readers that fail (image-upload.tsx and page.tsx of the thumbnail preview).
THEOREM PreviewShowsLastChoice == Spec => []LastChoiceShown
<1>1. Init => PreviewInv
  BY PreviewStarts DEF Init
<1>2. PreviewInv /\ [Next]_vars => PreviewInv'
  BY PreviewKept
<1>3. PreviewInv => LastChoiceShown
  BY PreviewShows
<1> QED BY <1>1, <1>2, <1>3, PTL DEF Spec

\* Sorting the table never leaves a row of an earlier order on the page, whichever
\* headings are clicked in which order, unless a video is in the list twice, whose
\* rows share their key (the table of the bulk metadata extractor's page).
THEOREM NoRowEverLeft == Spec => []NoRowLeftBehind
<1>1. Init => TableInv
  BY TableStarts DEF Init
<1>2. TableInv /\ [Next]_vars => TableInv'
  BY TableKept
<1>3. TableInv => NoRowLeftBehind
  BY DEF TableInv
<1> QED BY <1>1, <1>2, <1>3, PTL DEF Spec

\* However often the output of the timestamp offset is its next input, each line
\* keeps its title and has its timestamp and the sum of the offsets, never less,
\* and exactly that unless a timestamp was cut off at 0:00, while no sum leaves
\* the int; and the page counts the lines that parse and the blank ones
\* (timestampkit and timestamp-offset).
THEOREM ShiftsAlwaysAddUp == Spec => []ShiftsAddUp
<1>1. Init => ChapterInv
  BY ChapterStarts DEF Init
<1>2. ChapterInv /\ [Next]_vars => ChapterInv'
  BY ChapterKept
<1>3. ChapterInv => ShiftsAddUp
  BY ChapterAddsUp
<1> QED BY <1>1, <1>2, <1>3, PTL DEF Spec

\* The chapter validator, which looks at neighbours, finds an issue exactly in the
\* lists in which two lines, however far apart, break a rule, and a list without
\* one is shifted to a list whose start alone may be wrong (tool.go of the chapter
\* validator).
THEOREM ValidatorAlwaysRight == Spec => []ValidatorIsRight
<1>1. Init => ChapterInv
  BY ChapterStarts DEF Init
<1>2. ChapterInv /\ [Next]_vars => ChapterInv'
  BY ChapterKept
<1>3. ChapterInv => ValidatorIsRight
  BY ChapterValidated
<1> QED BY <1>1, <1>2, <1>3, PTL DEF Spec

--------------------------------------------------------------------------------
(***************************************************************************)
(* The registry                                                            *)
(***************************************************************************)

LEMMA RegistrySize == Len(toolsRegistry) = 18 /\ DOMAIN toolsRegistry = 1 .. 18
  BY DEF toolsRegistry

LEMMA RegistrySlugs ==
  /\ toolsRegistry[1].slug = "transcript-extractor"
  /\ toolsRegistry[2].slug = "transcript-downloader"
  /\ toolsRegistry[3].slug = "transcript-search"
  /\ toolsRegistry[4].slug = "playlist-duration-calculator"
  /\ toolsRegistry[5].slug = "playlist-exporter"
  /\ toolsRegistry[6].slug = "thumbnail-downloader"
  /\ toolsRegistry[7].slug = "thumbnail-preview"
  /\ toolsRegistry[8].slug = "video-metadata-viewer"
  /\ toolsRegistry[9].slug = "channel-rss-feed-generator"
  /\ toolsRegistry[10].slug = "youtube-url-cleaner"
  /\ toolsRegistry[11].slug = "youtube-id-extractor"
  /\ toolsRegistry[12].slug = "timestamp-generator"
  /\ toolsRegistry[13].slug = "shorts-url-converter"
  /\ toolsRegistry[14].slug = "bulk-metadata-extractor"
  /\ toolsRegistry[15].slug = "video-duration-calculator"
  /\ toolsRegistry[16].slug = "bulk-thumbnail-downloader"
  /\ toolsRegistry[17].slug = "chapter-validator"
  /\ toolsRegistry[18].slug = "timestamp-offset"
  BY DEF toolsRegistry, ToolEntry

LEMMA RegistryTypes ==
  /\ toolsRegistry[1].inputType = "video"
  /\ toolsRegistry[2].inputType = "video"
  /\ toolsRegistry[3].inputType = "video"
  /\ toolsRegistry[4].inputType = "playlist"
  /\ toolsRegistry[5].inputType = "playlist"
  /\ toolsRegistry[6].inputType = "video"
  /\ toolsRegistry[7].inputType = "video"
  /\ toolsRegistry[8].inputType = "video"
  /\ toolsRegistry[9].inputType = "channel"
  /\ toolsRegistry[10].inputType = "video"
  /\ toolsRegistry[11].inputType = "video"
  /\ toolsRegistry[12].inputType = "video"
  /\ toolsRegistry[13].inputType = "video"
  /\ toolsRegistry[14].inputType = "bulk"
  /\ toolsRegistry[15].inputType = "bulk"
  /\ toolsRegistry[16].inputType = "bulk"
  /\ toolsRegistry[17].inputType = "text"
  /\ toolsRegistry[18].inputType = "text"
  BY DEF toolsRegistry, ToolEntry

LEMMA RegistryCategories ==
  /\ toolsRegistry[1].category = "Transcripts"
  /\ toolsRegistry[2].category = "Transcripts"
  /\ toolsRegistry[3].category = "Transcripts"
  /\ toolsRegistry[4].category = "Playlist Tools"
  /\ toolsRegistry[5].category = "Playlist Tools"
  /\ toolsRegistry[6].category = "Video Info"
  /\ toolsRegistry[7].category = "Video Info"
  /\ toolsRegistry[8].category = "Video Info"
  /\ toolsRegistry[9].category = "Video Info"
  /\ toolsRegistry[10].category = "Quick Utilities"
  /\ toolsRegistry[11].category = "Quick Utilities"
  /\ toolsRegistry[12].category = "Quick Utilities"
  /\ toolsRegistry[13].category = "Quick Utilities"
  /\ toolsRegistry[14].category = "Bulk Tools"
  /\ toolsRegistry[15].category = "Bulk Tools"
  /\ toolsRegistry[16].category = "Bulk Tools"
  /\ toolsRegistry[17].category = "Validation & Formatting"
  /\ toolsRegistry[18].category = "Validation & Formatting"
  BY DEF toolsRegistry, ToolEntry

LEMMA EighteenPlaces ==
  \A n \in 1 .. 18 : n \in {1, 2, 3, 4, 5, 6, 7, 8, 9, 10, 11, 12, 13, 14, 15, 16, 17, 18}
  OBVIOUS

\* No slug is in the registry twice.
LEMMA SlugsDiffer ==
  \A n, m \in 1 .. 18 : toolsRegistry[n].slug = toolsRegistry[m].slug => n = m
<1>1. \A m \in 1 .. 18 : toolsRegistry[1].slug = toolsRegistry[m].slug => 1 = m
  BY RegistrySlugs, EighteenPlaces
<1>2. \A m \in 1 .. 18 : toolsRegistry[2].slug = toolsRegistry[m].slug => 2 = m
  BY RegistrySlugs, EighteenPlaces
<1>3. \A m \in 1 .. 18 : toolsRegistry[3].slug = toolsRegistry[m].slug => 3 = m
  BY RegistrySlugs, EighteenPlaces
<1>4. \A m \in 1 .. 18 : toolsRegistry[4].slug = toolsRegistry[m].slug => 4 = m
  BY RegistrySlugs, EighteenPlaces
<1>5. \A m \in 1 .. 18 : toolsRegistry[5].slug = toolsRegistry[m].slug => 5 = m
  BY RegistrySlugs, EighteenPlaces
<1>6. \A m \in 1 .. 18 : toolsRegistry[6].slug = toolsRegistry[m].slug => 6 = m
  BY RegistrySlugs, EighteenPlaces
<1>7. \A m \in 1 .. 18 : toolsRegistry[7].slug = toolsRegistry[m].slug => 7 = m
  BY RegistrySlugs, EighteenPlaces
<1>8. \A m \in 1 .. 18 : toolsRegistry[8].slug = toolsRegistry[m].slug => 8 = m
  BY RegistrySlugs, EighteenPlaces
<1>9. \A m \in 1 .. 18 : toolsRegistry[9].slug = toolsRegistry[m].slug => 9 = m
  BY RegistrySlugs, EighteenPlaces
<1>10. \A m \in 1 .. 18 : toolsRegistry[10].slug = toolsRegistry[m].slug => 10 = m
  BY RegistrySlugs, EighteenPlaces
<1>11. \A m \in 1 .. 18 : toolsRegistry[11].slug = toolsRegistry[m].slug => 11 = m
  BY RegistrySlugs, EighteenPlaces
<1>12. \A m \in 1 .. 18 : toolsRegistry[12].slug = toolsRegistry[m].slug => 12 = m
  BY RegistrySlugs, EighteenPlaces
<1>13. \A m \in 1 .. 18 : toolsRegistry[13].slug = toolsRegistry[m].slug => 13 = m
  BY RegistrySlugs, EighteenPlaces
<1>14. \A m \in 1 .. 18 : toolsRegistry[14].slug = toolsRegistry[m].slug => 14 = m
  BY RegistrySlugs, EighteenPlaces
<1>15. \A m \in 1 .. 18 : toolsRegistry[15].slug = toolsRegistry[m].slug => 15 = m
  BY RegistrySlugs, EighteenPlaces
<1>16. \A m \in 1 .. 18 : toolsRegistry[16].slug = toolsRegistry[m].slug => 16 = m
  BY RegistrySlugs, EighteenPlaces
<1>17. \A m \in 1 .. 18 : toolsRegistry[17].slug = toolsRegistry[m].slug => 17 = m
  BY RegistrySlugs, EighteenPlaces
<1>18. \A m \in 1 .. 18 : toolsRegistry[18].slug = toolsRegistry[m].slug => 18 = m
  BY RegistrySlugs, EighteenPlaces
<1> QED BY EighteenPlaces, <1>1, <1>2, <1>3, <1>4, <1>5, <1>6, <1>7, <1>8,
           <1>9, <1>10, <1>11, <1>12, <1>13, <1>14, <1>15, <1>16, <1>17, <1>18

\* The tools of a category stand together in the registry.
LEMMA CategoryRuns ==
  /\ \A n \in 1 .. 3 : toolsRegistry[n].category = "Transcripts"
  /\ \A n \in 4 .. 5 : toolsRegistry[n].category = "Playlist Tools"
  /\ \A n \in 6 .. 9 : toolsRegistry[n].category = "Video Info"
  /\ \A n \in 10 .. 13 : toolsRegistry[n].category = "Quick Utilities"
  /\ \A n \in 14 .. 16 : toolsRegistry[n].category = "Bulk Tools"
  /\ \A n \in 17 .. 18 : toolsRegistry[n].category = "Validation & Formatting"
<1>1. \A n \in 1 .. 3 : n = 1 \/ n = 2 \/ n = 3
  OBVIOUS
<1>2. \A n \in 4 .. 5 : n = 4 \/ n = 5
  OBVIOUS
<1>3. \A n \in 6 .. 9 : n = 6 \/ n = 7 \/ n = 8 \/ n = 9
  OBVIOUS
<1>4. \A n \in 10 .. 13 : n = 10 \/ n = 11 \/ n = 12 \/ n = 13
  OBVIOUS
<1>5. \A n \in 14 .. 16 : n = 14 \/ n = 15 \/ n = 16
  OBVIOUS
<1>6. \A n \in 17 .. 18 : n = 17 \/ n = 18
  OBVIOUS
<1> QED BY RegistryCategories, <1>1, <1>2, <1>3, <1>4, <1>5, <1>6

LEMMA RunsStay ==
  \A l, m, n \in 1 .. 18 :
    /\ l <= m /\ m <= n
    /\ toolsRegistry[l].category = toolsRegistry[n].category
    => toolsRegistry[m].category = toolsRegistry[l].category
<1> SUFFICES ASSUME NEW l \in 1 .. 18, NEW m \in 1 .. 18, NEW n \in 1 .. 18,
                    l <= m, m <= n,
                    toolsRegistry[l].category = toolsRegistry[n].category
             PROVE  toolsRegistry[m].category = toolsRegistry[l].category
  OBVIOUS
<1>1. \A k \in 1 .. 18 : k \in 1 .. 3 \/ k \in 4 .. 5 \/ k \in 6 .. 9
                          \/ k \in 10 .. 13 \/ k \in 14 .. 16 \/ k \in 17 .. 18
  OBVIOUS
<1>2. CASE l \in 1 .. 3
  <2>1. n \in 1 .. 3
    BY <1>1, <1>2, CategoryRuns
  <2>2. m \in 1 .. 3
    BY <1>2, <2>1
  <2> QED BY <1>2, <2>2, CategoryRuns
<1>3. CASE l \in 4 .. 5
  <2>1. n \in 4 .. 5
    BY <1>1, <1>3, CategoryRuns
  <2>2. m \in 4 .. 5
    BY <1>3, <2>1
  <2> QED BY <1>3, <2>2, CategoryRuns
<1>4. CASE l \in 6 .. 9
  <2>1. n \in 6 .. 9
    BY <1>1, <1>4, CategoryRuns
  <2>2. m \in 6 .. 9
    BY <1>4, <2>1
  <2> QED BY <1>4, <2>2, CategoryRuns
<1>5. CASE l \in 10 .. 13
  <2>1. n \in 10 .. 13
    BY <1>1, <1>5, CategoryRuns
  <2>2. m \in 10 .. 13
    BY <1>5, <2>1
  <2> QED BY <1>5, <2>2, CategoryRuns
<1>6. CASE l \in 14 .. 16
  <2>1. n \in 14 .. 16
    BY <1>1, <1>6, CategoryRuns
  <2>2. m \in 14 .. 16
    BY <1>6, <2>1
  <2> QED BY <1>6, <2>2, CategoryRuns
<1>7. CASE l \in 17 .. 18
  <2>1. n \in 17 .. 18
    BY <1>1, <1>7, CategoryRuns
  <2>2. m \in 17 .. 18
    BY <1>7, <2>1
  <2> QED BY <1>7, <2>2, CategoryRuns
<1> QED BY <1>1, <1>2, <1>3, <1>4, <1>5, <1>6, <1>7

LEMMA CardsOfRegistry ==
  \A n \in 1 .. 18 : formOf(toolsRegistry[n].slug) = toolsRegistry[n].inputType
<1>1. formOf("transcript-extractor") = "video"
  BY PageOfSlug DEF formOf, Slugs, TranscriptExtractorPage, Page
<1>2. formOf("transcript-downloader") = "video"
  BY PageOfSlug DEF formOf, Slugs, TranscriptDownloaderPage, Page
<1>3. formOf("transcript-search") = "video"
  BY PageOfSlug DEF formOf, Slugs, TranscriptSearchPage, Page
<1>4. formOf("playlist-duration-calculator") = "playlist"
  BY PageOfSlug DEF formOf, Slugs, PlaylistDurationCalculatorPage, Page
<1>5. formOf("playlist-exporter") = "playlist"
  BY PageOfSlug DEF formOf, Slugs, PlaylistExporterPage, Page
<1>6. formOf("thumbnail-downloader") = "video"
  BY PageOfSlug DEF formOf, Slugs, ThumbnailDownloaderPage, Page
<1>7. formOf("thumbnail-preview") = "video"
  BY DEF formOf, Slugs
<1>8. formOf("video-metadata-viewer") = "video"
  BY PageOfSlug DEF formOf, Slugs, VideoMetadataViewerPage, Page
<1>9. formOf("channel-rss-feed-generator") = "channel"
  BY PageOfSlug DEF formOf, Slugs, ChannelRssFeedGeneratorPage, Page
<1>10. formOf("youtube-url-cleaner") = "video"
  BY PageOfSlug DEF formOf, Slugs, YoutubeUrlCleanerPage, Page
<1>11. formOf("youtube-id-extractor") = "video"
  BY PageOfSlug DEF formOf, Slugs, YoutubeIdExtractorPage, Page
<1>12. formOf("timestamp-generator") = "video"
  BY DEF formOf, Slugs
<1>13. formOf("shorts-url-converter") = "video"
  BY PageOfSlug DEF formOf, Slugs, ShortsUrlConverterPage, Page
<1>14. formOf("bulk-metadata-extractor") = "bulk"
  BY PageOfSlug DEF formOf, Slugs, BulkMetadataExtractorPage, Page
<1>15. formOf("video-duration-calculator") = "bulk"
  BY PageOfSlug DEF formOf, Slugs, VideoDurationCalculatorPage, Page
<1>16. formOf("bulk-thumbnail-downloader") = "bulk"
  BY PageOfSlug DEF formOf, Slugs, BulkThumbnailDownloaderPage, Page
<1>17. formOf("chapter-validator") = "text"
  BY PageOfSlug DEF formOf, Slugs, ChapterValidatorPage, Page
<1>18. formOf("timestamp-offset") = "text"
  BY PageOfSlug DEF formOf, Slugs, TimestampOffsetPage, Page
<1> QED BY EighteenPlaces, RegistrySlugs, RegistryTypes, <1>1, <1>2, <1>3,
           <1>4, <1>5, <1>6, <1>7, <1>8, <1>9, <1>10, <1>11, <1>12, <1>13,
           <1>14, <1>15, <1>16, <1>17, <1>18

\* The section of a tool that comes before another's in the registry stands above.
LEMMA SectionsInOrder ==
  ASSUME NEW k \in 1 .. 18, NEW j \in 1 .. 18,
         toolsRegistry[k].category # toolsRegistry[j].category
  PROVE  /\ k < j => categoryOrder(toolsRegistry[k].category,
                                   toolsRegistry[j].category)
         /\ j < k => ~categoryOrder(toolsRegistry[k].category,
                                    toolsRegistry[j].category)
<1> DEFINE cat(n) == toolsRegistry[n].category
<1>1. \A l, m \in 1 .. 18 : cat(l) # cat(m) /\ l < m => \A n \in 1 .. l : cat(n) # cat(m)
  <2> SUFFICES ASSUME NEW l \in 1 .. 18, NEW m \in 1 .. 18, cat(l) # cat(m), l < m,
                      NEW n \in 1 .. l, cat(n) = cat(m)
               PROVE  FALSE
    OBVIOUS
  <2>1. n \in 1 .. 18 /\ n <= l /\ l <= m
    OBVIOUS
  <2> QED BY <2>1, RunsStay
<1>2. ASSUME k < j PROVE categoryOrder(cat(k), cat(j))
  BY <1>1, <1>2, RegistrySize DEF categoryOrder
<1>3. ASSUME j < k, categoryOrder(cat(k), cat(j)) PROVE FALSE
  <2>1. PICK n \in 1 .. 18 : cat(n) = cat(k) /\ \A m \in 1 .. n : cat(m) # cat(j)
    BY <1>3, RegistrySize DEF categoryOrder
  <2>2. n < j
    BY <2>1
  <2> QED BY <1>3, <2>1, <2>2, RunsStay
<1> QED BY <1>2, <1>3 DEF cat

--------------------------------------------------------------------------------
(***************************************************************************)
(* The grid                                                                *)
(***************************************************************************)

\* Of the first done tools the list has those in shown, in their order.
Lists(list, done, shown) ==
  \E place \in [1 .. Len(list) -> 1 .. done] :
    /\ \A l \in 1 .. Len(list) : list[l] = toolsRegistry[place[l]]
    /\ \A l, m \in 1 .. Len(list) : l < m => place[l] < place[m]
    /\ {place[l] : l \in 1 .. Len(list)} = shown

\* Before the configuration is there, the list has all.
AllSoFar(list, done) ==
  Len(list) = done /\ \A l \in 1 .. done : list[l] = toolsRegistry[l]

Entries == {toolsRegistry[n] : n \in 1 .. 18}

GridInv ==
  /\ grid.at \in 1 .. 19 /\ grid.visibleList \in Seq(Entries)
  /\ \/ AllSoFar(grid.visibleList, grid.at - 1)
     \/ /\ configured /\ initialized /\ ~grid.waits
        /\ \E n \in 1 .. grid.at - 1 :
             Lists(grid.visibleList, grid.at - 1, Choice(n) \cap 1 .. grid.at - 1)
  /\ \/ visibleTools = toolsRegistry
     \/ gridDone /\ visibleTools = grid.visibleList

FetchedInv ==
  /\ initialized \in BOOLEAN /\ activated = initialized
  /\ configured \in BOOLEAN
  /\ grid.waits \in BOOLEAN
  /\ header \in [call : {"visible", "message", "done"}, waits : BOOLEAN,
                 visible : BOOLEAN]
  /\ grid.waits \/ header.waits => configured

LEMMA NoneSoFar == AllSoFar(<<>>, 0) /\ <<>> \in Seq(Entries)
  BY DEF AllSoFar

LEMMA AllAreListed ==
  ASSUME NEW list \in Seq(Entries), NEW done \in 0 .. 18, AllSoFar(list, done)
  PROVE  Lists(list, done, 1 .. done)
<1>1. Len(list) = done /\ \A l \in 1 .. done : list[l] = toolsRegistry[l]
  BY DEF AllSoFar
<1> DEFINE place == [l \in 1 .. done |-> l]
<1>2. place \in [1 .. Len(list) -> 1 .. done]
  BY <1>1
<1>3. {place[l] : l \in 1 .. done} = 1 .. done
  OBVIOUS
<1> QED BY <1>1, <1>2, <1>3 DEF Lists

\* The next tool is shown.
LEMMA OneMore ==
  ASSUME NEW list \in Seq(Entries), NEW done \in 0 .. 17, NEW shown,
         Lists(list, done, shown)
  PROVE  Lists(Append(list, toolsRegistry[done + 1]), done + 1, shown \cup {done + 1})
<1>1. PICK place \in [1 .. Len(list) -> 1 .. done] :
         /\ \A l \in 1 .. Len(list) : list[l] = toolsRegistry[place[l]]
         /\ \A l, m \in 1 .. Len(list) : l < m => place[l] < place[m]
         /\ {place[l] : l \in 1 .. Len(list)} = shown
  BY DEF Lists
<1> DEFINE more == Append(list, toolsRegistry[done + 1])
           places == [l \in 1 .. Len(list) + 1 |->
                        IF l = Len(list) + 1 THEN done + 1 ELSE place[l]]
<1>2. /\ Len(list) \in Nat /\ Len(more) = Len(list) + 1
      /\ more[Len(list) + 1] = toolsRegistry[done + 1]
      /\ \A l \in 1 .. Len(list) : more[l] = list[l]
  <2>1. toolsRegistry[done + 1] \in Entries
    BY DEF Entries
  <2> QED BY <2>1
<1> HIDE DEF more
<1>3. places \in [1 .. Len(more) -> 1 .. done + 1]
  BY <1>1, <1>2
<1>4. \A l \in 1 .. Len(more) : more[l] = toolsRegistry[places[l]]
  BY <1>1, <1>2
<1>5. \A l, m \in 1 .. Len(more) : l < m => places[l] < places[m]
  BY <1>1, <1>2
<1>6. {places[l] : l \in 1 .. Len(more)} = shown \cup {done + 1}
  <2>1. \A l \in 1 .. Len(more) : places[l] = done + 1 \/ (l \in 1 .. Len(list) /\ places[l] = place[l])
    BY <1>2
  <2>2. \A l \in 1 .. Len(list) : l \in 1 .. Len(more) /\ places[l] = place[l]
    BY <1>2
  <2>3. Len(more) \in 1 .. Len(more) /\ places[Len(more)] = done + 1
    BY <1>2
  <2> HIDE DEF places
  <2> QED BY <1>1, <2>1, <2>2, <2>3
<1> QED BY <1>3, <1>4, <1>5, <1>6 DEF Lists, more

\* The next tool is not shown.
LEMMA NoMore ==
  ASSUME NEW list \in Seq(Entries), NEW done \in 0 .. 17, NEW shown,
         Lists(list, done, shown)
  PROVE  Lists(list, done + 1, shown)
<1>1. PICK place \in [1 .. Len(list) -> 1 .. done] :
         /\ \A l \in 1 .. Len(list) : list[l] = toolsRegistry[place[l]]
         /\ \A l, m \in 1 .. Len(list) : l < m => place[l] < place[m]
         /\ {place[l] : l \in 1 .. Len(list)} = shown
  BY DEF Lists
<1>2. place \in [1 .. Len(list) -> 1 .. done + 1]
  OBVIOUS
<1> QED BY <1>1, <1>2 DEF Lists

LEMMA HomeStarts == ASSUME HomeInit PROVE FetchedInv /\ GridInv
<1>1. grid = GridMounted /\ visibleTools = toolsRegistry
  BY DEF HomeInit
<1>2. GridInv
  BY <1>1, NoneSoFar DEF GridInv, GridMounted
<1>3. FetchedInv
  BY DEF HomeInit, FetchedInv, GridMounted, HeaderMounted
<1> QED BY <1>2, <1>3

\* Waiting, and a visit to the page.
LEMMA GridIdles ==
  ASSUME FetchedInv, GridInv, gridWaits \/ headerWaits \/ fetchRC \/ comeBack
  PROVE  GridInv'
<1>1. CASE gridWaits
  <2>1. ~initialized \/ ~configured
    BY <1>1 DEF gridWaits, Waits, NeedsFetch
  <2>2. grid'.at = grid.at /\ grid'.visibleList = grid.visibleList
        /\ UNCHANGED <<visibleTools, config, configured, initialized>>
    BY <1>1 DEF gridWaits, GridInv
  <2>3. AllSoFar(grid.visibleList, grid.at - 1)
    BY <2>1 DEF GridInv
  <2> QED BY <2>2, <2>3 DEF GridInv, gridDone
<1>2. CASE headerWaits
  BY <1>2 DEF headerWaits, GridInv, gridDone, Choice, getToolVisible, getSource, asBoolean
<1>3. CASE fetchRC
  <2>1. UNCHANGED <<visibleTools, grid, config, configured>>
    BY <1>3 DEF fetchRC
  <2>2. initialized' = initialized \/ initialized' = TRUE
    BY <1>3 DEF fetchRC, GetsRC
  <2> QED BY <2>1, <2>2 DEF GridInv, gridDone, Choice, getToolVisible, getSource, asBoolean
<1>4. CASE comeBack
  <2>1. grid' = GridMounted /\ visibleTools' = toolsRegistry
    BY <1>4 DEF comeBack
  <2> QED BY <2>1, NoneSoFar DEF GridInv, GridMounted
<1> QED BY <1>1, <1>2, <1>3, <1>4

\* One turn of the loop.
LEMMA GridTurns == ASSUME FetchedInv, GridInv, fetchVisibility PROVE GridInv'
<1> DEFINE at == grid.at
           list == grid.visibleList
           tool == toolsRegistry[at]
           decides(active) == getToolVisible(tool.slug, active)
           next(visible) == IF visible THEN Append(list, tool) ELSE list
<1>1. at \in 1 .. 18 /\ at - 1 \in 0 .. 17 /\ list \in Seq(Entries) /\ at - 1 + 1 = at
  BY RegistrySize DEF fetchVisibility, gridDone, GridInv
<1>2. /\ UNCHANGED <<config, configured>>
      /\ \A n : Choice(n)' = Choice(n)
  BY DEF fetchVisibility, Choice, getToolVisible, getSource, asBoolean
<1>3. decides(TRUE) \in BOOLEAN
  BY DEF getToolVisible, asBoolean, getSource
<1>4. PICK visible \in {TRUE, decides(TRUE)} :
        /\ grid' = [at |-> at + 1, waits |-> FALSE, visibleList |-> next(visible)]
        /\ visibleTools' = IF at = 18 THEN next(visible) ELSE visibleTools
        /\ \/ visible = TRUE /\ (~configured \/ grid.waits) /\ initialized' = initialized
           \/ visible = decides(TRUE) /\ configured /\ initialized' = TRUE
  BY RegistrySize DEF fetchVisibility, GetsRC, NeedsFetch, FetchedInv
<1> HIDE DEF decides
<1>5. /\ next(visible) \in Seq(Entries)
      /\ visible = TRUE => /\ Len(next(visible)) = Len(list) + 1
                           /\ next(visible)[Len(list) + 1] = tool
                           /\ \A l \in 1 .. Len(list) : next(visible)[l] = list[l]
  <2>1. tool \in Entries
    BY <1>1 DEF Entries
  <2> HIDE DEF list, tool
  <2> QED BY <1>1, <2>1
<1>6. /\ grid'.at = at + 1 /\ grid'.waits = FALSE
      /\ grid'.visibleList = next(visible)
      /\ grid'.at \in 1 .. 19 /\ grid'.at - 1 = at
  BY <1>1, <1>4
<1>7. \/ visibleTools' = toolsRegistry
      \/ gridDone' /\ visibleTools' = next(visible)
  <2>1. CASE at = 18
    BY <1>4, <1>6, <2>1, RegistrySize DEF gridDone
  <2>2. CASE at # 18
    <3>1. visibleTools = toolsRegistry
      BY DEF fetchVisibility, GridInv
    <3>2. visibleTools' = visibleTools
      BY <1>4, <2>2
    <3> QED BY <3>1, <3>2
  <2> QED BY <2>1, <2>2
<1>8. /\ \/ AllSoFar(list, at - 1)
         \/ /\ configured /\ initialized /\ ~grid.waits
            /\ \E n \in 1 .. at - 1 : Lists(list, at - 1, Choice(n) \cap 1 .. at - 1)
      /\ decides(TRUE) = getToolVisible(toolsRegistry[at].slug, TRUE)
  BY DEF GridInv, decides
<1> HIDE DEF next, at, list, tool
<1>9. \A n, m \in 1 .. 18 :
        m \in Choice(n) <=> (m < n \/ getToolVisible(toolsRegistry[m].slug, TRUE))
  BY RegistrySize DEF Choice
<1>10. 1 .. at = 1 .. at - 1 \cup {at} /\ at \notin 1 .. at - 1 /\ 1 .. at - 1 \subseteq 1 .. 18
  BY <1>1
<1>11. AllSoFar(next(visible), at)
      \/ (/\ configured' /\ initialized' /\ ~grid'.waits
          /\ \E n \in 1 .. at : Lists(next(visible), at, Choice(n)' \cap 1 .. at))
  <2>1. CASE visible = TRUE /\ (~configured \/ grid.waits)
    <3>1. AllSoFar(list, at - 1)
      BY <1>8, <2>1
    <3>2. Len(list) = at - 1 /\ \A l \in 1 .. at - 1 : list[l] = toolsRegistry[l]
      BY <3>1 DEF AllSoFar
    <3>3. Len(next(visible)) = at /\ next(visible)[at] = toolsRegistry[at]
          /\ \A l \in 1 .. at - 1 : next(visible)[l] = toolsRegistry[l]
      BY <1>1, <1>5, <2>1, <3>2 DEF tool
    <3> QED BY <1>10, <3>3 DEF AllSoFar
  <2>2. CASE visible = decides(TRUE) /\ configured /\ initialized' = TRUE
    <3>1. PICK n \in 1 .. at : Lists(list, at - 1, Choice(n) \cap 1 .. at - 1)
      <4>1. CASE AllSoFar(list, at - 1)
        <5>1. Choice(at) \cap 1 .. at - 1 = 1 .. at - 1
          <6>1. \A m \in 1 .. at - 1 : m \in 1 .. 18 /\ m < at
            BY <1>1
          <6>2. 1 .. at - 1 \subseteq Choice(at)
            BY <1>1, <1>9, <6>1
          <6> QED BY <6>2
        <5>2. Lists(list, at - 1, 1 .. at - 1)
          <6>1. at - 1 \in 0 .. 18
            BY <1>1
          <6> QED BY <1>1, <4>1, <6>1, AllAreListed, Zenon
        <5>3. at \in 1 .. at
          BY <1>1
        <5> QED BY <5>1, <5>2, <5>3
      <4>2. CASE \E n \in 1 .. at - 1 : Lists(list, at - 1, Choice(n) \cap 1 .. at - 1)
        <5>1. 1 .. at - 1 \subseteq 1 .. at
          BY <1>1
        <5> QED BY <4>2, <5>1
      <4> QED BY <1>8, <4>1, <4>2
    <3>2. at \in Choice(n) <=> decides(TRUE)
      <4>1. at \in 1 .. 18 /\ n \in 1 .. 18 /\ ~(at < n)
        BY <1>1
      <4>2. at \in Choice(n) <=> getToolVisible(toolsRegistry[at].slug, TRUE)
        BY <1>9, <4>1, Zenon
      <4> QED BY <1>8, <4>2, Zenon
    <3>3. CASE visible = TRUE
      <4>1. next(visible) = Append(list, toolsRegistry[at])
        BY <3>3 DEF next, tool
      <4>2. Choice(n) \cap 1 .. at = (Choice(n) \cap 1 .. at - 1) \cup {at}
        BY <1>10, <2>2, <3>2, <3>3
      <4>3. Lists(next(visible), at, Choice(n) \cap 1 .. at)
        BY <1>1, <3>1, <4>1, <4>2, OneMore
      <4> QED BY <1>2, <1>6, <2>2, <4>3
    <3>4. CASE visible = FALSE
      <4>1. next(visible) = list
        BY <3>4 DEF next
      <4>2. Choice(n) \cap 1 .. at = Choice(n) \cap 1 .. at - 1
        BY <1>10, <2>2, <3>2, <3>4
      <4>3. Lists(next(visible), at, Choice(n) \cap 1 .. at)
        BY <1>1, <3>1, <4>1, <4>2, NoMore
      <4> QED BY <1>2, <1>6, <2>2, <4>3
    <3> QED BY <1>3, <3>3, <3>4
  <2> QED BY <1>4, <2>1, <2>2
<1> QED BY <1>5, <1>6, <1>7, <1>11 DEF GridInv

--------------------------------------------------------------------------------
(***************************************************************************)
(* The header                                                              *)
(***************************************************************************)

\* What the configuration says of the banner is the same all the time.
LEMMA DecisionStands ==
  ASSUME HomeNext
  PROVE  /\ config' = config /\ configured' = configured
         /\ getSource("banner", TRUE)' = getSource("banner", TRUE)
         /\ asBoolean("banner", TRUE)' = asBoolean("banner", TRUE)
         /\ asBoolean("banner", TRUE) \in BOOLEAN
<1>1. config' = config /\ configured' = configured
  BY DEF HomeNext, gridWaits, headerWaits, fetchRC, fetchVisibility, comeBack
<1>2. getSource("banner", TRUE)' = getSource("banner", TRUE)
  BY <1>1 DEF getSource
<1>3. asBoolean("banner", TRUE) \in BOOLEAN
  BY DEF asBoolean
<1>4. asBoolean("banner", TRUE)' = asBoolean("banner", TRUE)
  BY <1>1, <1>2 DEF asBoolean
<1> QED BY <1>1, <1>2, <1>3, <1>4

\* A step of the header.
Header(call, waits, visible) == [call |-> call, waits |-> waits, visible |-> visible]

LEMMA HeaderFields ==
  \A h, call, waits, visible :
    h = Header(call, waits, visible) =>
      h.call = call /\ h.waits = waits /\ h.visible = visible
  BY DEF Header

LEMMA PromoFields ==
  \A p, v, m : p = [visible |-> v, message |-> m] => p.visible = v /\ p.message = m
  OBVIOUS

LEMMA HeaderTyped ==
  ASSUME NEW call \in {"visible", "message", "done"}, NEW waits \in BOOLEAN,
         NEW visible \in BOOLEAN
  PROVE  Header(call, waits, visible) \in
           [call : {"visible", "message", "done"}, waits : BOOLEAN, visible : BOOLEAN]
  BY DEF Header

LEMMA HeaderMoves ==
  ASSUME FetchedInv, headerWaits \/ fetchRC
  PROVE  \/ /\ header.call # "done" /\ ~initialized /\ configured
            /\ header' = Header(header.call, TRUE, header.visible) /\ promo' = promo
         \/ /\ header.call = "visible" /\ promo' = promo
            /\ \/ header' = Header("message", FALSE, TRUE)
               \/ /\ configured /\ initialized' = TRUE
                  /\ header' = Header("message", FALSE, asBoolean("banner", TRUE))
         \/ /\ header.call = "message"
            /\ header' = Header("done", FALSE, header.visible)
            /\ \/ /\ ~configured \/ header.waits
                  /\ promo' = [visible |-> header.visible, message |-> "default"]
               \/ promo' = [visible |-> header.visible,
                            message |-> getSource("banner", TRUE)]
<1>1. header = Header(header.call, header.waits, header.visible)
  BY DEF FetchedInv, Header
<1>2. CASE headerWaits
  <2>1. header' = [header EXCEPT !.waits = TRUE]
    BY <1>2 DEF headerWaits
  <2>2. header' = Header(header.call, TRUE, header.visible)
    BY <1>1, <2>1 DEF Header
  <2> QED BY <1>2, <2>2 DEF headerWaits, Waits, NeedsFetch
<1>3. CASE fetchRC /\ header.call = "visible"
  BY <1>3 DEF fetchRC, GetsRC, NeedsFetch, FetchedInv, Header
<1>4. CASE fetchRC /\ header.call = "message"
  <2>1. header' = [header EXCEPT !.call = "done", !.waits = FALSE]
    BY <1>4 DEF fetchRC, GetsRC
  <2>2. header' = Header("done", FALSE, header.visible)
    BY <1>1, <2>1 DEF Header
  <2>3. \/ /\ ~configured \/ header.waits
           /\ promo' = [visible |-> header.visible, message |-> "default"]
        \/ promo' = [visible |-> header.visible,
                     message |-> getSource("banner", TRUE)]
    BY <1>4 DEF fetchRC, GetsRC, NeedsFetch, FetchedInv
  <2> QED BY <1>4, <2>2, <2>3
<1> QED BY <1>2, <1>3, <1>4 DEF fetchRC

\* What the two effects share.
LEMMA FetchedSteps == ASSUME FetchedInv, GridInv, HomeNext PROVE FetchedInv'
<1>1. \/ UNCHANGED <<initialized, activated>>
      \/ initialized' = TRUE /\ activated' = TRUE
  BY DEF HomeNext, gridWaits, headerWaits, fetchRC, fetchVisibility, comeBack, GetsRC
<1>2. CASE gridWaits
  <2>1. configured /\ grid'.waits \in BOOLEAN /\ header' = header
    BY <1>2 DEF gridWaits, Waits, NeedsFetch, FetchedInv
  <2> QED BY <1>1, <2>1, DecisionStands DEF FetchedInv
<1>3. CASE fetchVisibility \/ comeBack
  <2>1. header' = header
    BY <1>3 DEF fetchVisibility, comeBack
  <2>2. \E at, list : grid' = [at |-> at, waits |-> FALSE, visibleList |-> list]
    BY <1>3 DEF fetchVisibility, GetsRC, comeBack, GridMounted
  <2>3. grid'.waits = FALSE
    BY <2>2
  <2> QED BY <1>1, <2>1, <2>3, DecisionStands DEF FetchedInv
<1>4. CASE headerWaits \/ fetchRC
  <2>1. grid' = grid
    BY <1>4 DEF headerWaits, fetchRC
  <2>2. /\ header' \in [call : {"visible", "message", "done"}, waits : BOOLEAN,
                        visible : BOOLEAN]
        /\ header'.waits => configured
    <3>1. header.call \in {"visible", "message", "done"} /\ header.visible \in BOOLEAN
      BY DEF FetchedInv
    <3>2. \E c \in {"visible", "message", "done"}, w \in BOOLEAN, v \in BOOLEAN :
               header' = Header(c, w, v) /\ (w = TRUE => configured)
      BY <1>4, <3>1, HeaderMoves, DecisionStands, Zenon
    <3>3. PICK c \in {"visible", "message", "done"}, w \in BOOLEAN, v \in BOOLEAN :
               header' = Header(c, w, v) /\ (w = TRUE => configured)
      BY <3>2
    <3>4. header' \in [call : {"visible", "message", "done"}, waits : BOOLEAN,
                        visible : BOOLEAN]
      BY <3>3, HeaderTyped, Zenon
    <3>5. header'.waits = w
      BY <3>3, HeaderFields, Zenon
    <3> QED BY <3>3, <3>4, <3>5
  <2> QED BY <1>1, <2>1, <2>2, DecisionStands DEF FetchedInv
<1> QED BY <1>2, <1>3, <1>4 DEF HomeNext

\* The header, until its second call is answered.
HeaderInv ==
  /\ header.call \in {"visible", "message"} =>
       promo = [visible |-> TRUE, message |-> "default"]
  /\ header.call = "message" =>
       \/ header.visible = TRUE
       \/ /\ header.visible = asBoolean("banner", TRUE)
          /\ configured /\ initialized /\ ~header.waits
  /\ HeaderFollowsConfig

LEMMA HeaderStarts == ASSUME HomeInit PROVE HeaderInv
  BY DEF HomeInit, HeaderInv, HeaderMounted, HeaderFollowsConfig

LEMMA HeaderSteps == ASSUME FetchedInv, HeaderInv, HomeNext PROVE HeaderInv'
<1> DEFINE decided == asBoolean("banner", TRUE)
           source == getSource("banner", TRUE)
<1>1. decided' = decided /\ source' = source /\ configured' = configured
  BY DecisionStands
<1>2. initialized => initialized'
  <2>1. initialized' = initialized \/ initialized' = TRUE
    BY DEF HomeNext, gridWaits, headerWaits, fetchRC, fetchVisibility, comeBack, GetsRC
  <2> QED BY <2>1
<1>3. CASE gridWaits \/ fetchVisibility \/ comeBack
  <2>1. header' = header /\ promo' = promo
    BY <1>3 DEF gridWaits, fetchVisibility, comeBack
  <2> QED BY <1>1, <1>2, <2>1 DEF HeaderInv, HeaderFollowsConfig
<1>4. CASE /\ header.call # "done" /\ ~initialized
           /\ header' = Header(header.call, TRUE, header.visible) /\ promo' = promo
  <2>1. header'.call = header.call /\ header'.visible = header.visible
    BY <1>4 DEF Header
  <2> QED BY <1>4, <2>1 DEF HeaderInv, HeaderFollowsConfig
<1>5. CASE /\ header.call = "visible" /\ promo' = promo
           /\ \/ header' = Header("message", FALSE, TRUE)
              \/ /\ configured /\ initialized' = TRUE
                 /\ header' = Header("message", FALSE, decided)
  <2>1. header'.call = "message" /\ header'.waits = FALSE
    BY <1>5, HeaderFields, Zenon
  <2> DEFINE d == decided
  <2>2. \/ header'.visible = TRUE
        \/ header'.visible = d /\ configured /\ initialized' = TRUE
    <3>1. CASE header' = Header("message", FALSE, TRUE)
      <4> DEFINE t == TRUE
      <4>1. header' = Header("message", FALSE, t)
        BY <3>1
      <4> HIDE DEF t
      <4>2. header'.visible = t
        BY <4>1, HeaderFields
      <4> QED BY <4>2 DEF t
    <3>2. CASE /\ header' = Header("message", FALSE, d)
               /\ configured /\ initialized' = TRUE
      <4> HIDE DEF d
      <4>1. header'.visible = d
        BY <3>2, HeaderFields
      <4> QED BY <3>2, <4>1
    <3> QED BY <1>5, <3>1, <3>2
  <2>3. promo' = [visible |-> TRUE, message |-> "default"]
    BY <1>5 DEF HeaderInv
  <2> QED BY <1>1, <2>1, <2>2, <2>3 DEF HeaderInv, HeaderFollowsConfig
<1>6. CASE /\ header.call = "message"
           /\ header' = Header("done", FALSE, header.visible)
           /\ \/ /\ ~configured \/ header.waits
                 /\ promo' = [visible |-> header.visible, message |-> "default"]
              \/ promo' = [visible |-> header.visible, message |-> source]
  <2>1. header'.call = "done"
    BY <1>6 DEF Header
  <2>2. \/ promo' = [visible |-> decided, message |-> source]
        \/ promo'.visible = TRUE /\ promo'.message \in {"default", source}
    <3>1. CASE header.visible = TRUE
      <4>1. promo' = [visible |-> TRUE, message |-> "default"]
            \/ promo' = [visible |-> TRUE, message |-> source]
        BY <1>6, <3>1, Zenon
      <4>2. promo'.visible = TRUE /\ promo'.message \in {"default", source}
        BY <4>1, PromoFields, Zenon
      <4> QED BY <4>2
    <3>2. CASE /\ header.visible = decided
               /\ configured /\ initialized /\ ~header.waits
      BY <1>6, <3>2
    <3> QED BY <1>6, <3>1, <3>2 DEF HeaderInv
  <2> QED BY <1>1, <2>1, <2>2 DEF HeaderInv, HeaderFollowsConfig
<1>7. CASE headerWaits \/ fetchRC
  BY <1>4, <1>5, <1>6, <1>7, HeaderMoves
<1> QED BY <1>3, <1>7 DEF HomeNext

--------------------------------------------------------------------------------
(***************************************************************************)
(* What the home page shows                                                *)
(***************************************************************************)

\* A list of the first done tools, and what it shows of the registry.
LEMMA ListsShow ==
  ASSUME NEW list \in Seq(Entries), NEW done \in 0 .. 18, NEW shown,
         Lists(list, done, shown)
  PROVE  /\ {list[l] : l \in 1 .. Len(list)} = {toolsRegistry[n] : n \in shown}
         /\ \A l \in 1 .. Len(list) : \E n \in 1 .. 18 : list[l] = toolsRegistry[n]
         /\ \A l, m \in 1 .. Len(list) : \A k, j \in 1 .. 18 :
              list[l] = toolsRegistry[k] /\ list[m] = toolsRegistry[j] =>
                (l < m => k < j) /\ (m < l => j < k) /\ (l = m => k = j)
<1>1. PICK place \in [1 .. Len(list) -> 1 .. done] :
         /\ \A l \in 1 .. Len(list) : list[l] = toolsRegistry[place[l]]
         /\ \A l, m \in 1 .. Len(list) : l < m => place[l] < place[m]
         /\ {place[l] : l \in 1 .. Len(list)} = shown
  BY DEF Lists
<1>2. \A l \in 1 .. Len(list) : place[l] \in 1 .. 18
  <2>1. 1 .. done \subseteq 1 .. 18
    OBVIOUS
  <2> QED BY <1>1, <2>1
<1>3. {list[l] : l \in 1 .. Len(list)} = {toolsRegistry[n] : n \in shown}
  BY <1>1
<1>4. \A l \in 1 .. Len(list) : \A k \in 1 .. 18 : list[l] = toolsRegistry[k] => k = place[l]
  <2> SUFFICES ASSUME NEW l \in 1 .. Len(list), NEW k \in 1 .. 18,
                      list[l] = toolsRegistry[k]
               PROVE  k = place[l]
    OBVIOUS
  <2>1. toolsRegistry[k].slug = toolsRegistry[place[l]].slug
    BY <1>1
  <2> QED BY <1>2, <2>1, SlugsDiffer
<1>5. \A l, m \in 1 .. Len(list) : \A k, j \in 1 .. 18 :
        list[l] = toolsRegistry[k] /\ list[m] = toolsRegistry[j] =>
          (l < m => k < j) /\ (m < l => j < k) /\ (l = m => k = j)
  <2> SUFFICES ASSUME NEW l \in 1 .. Len(list), NEW m \in 1 .. Len(list),
                      NEW k \in 1 .. 18, NEW j \in 1 .. 18,
                      list[l] = toolsRegistry[k], list[m] = toolsRegistry[j]
               PROVE  (l < m => k < j) /\ (m < l => j < k) /\ (l = m => k = j)
    OBVIOUS
  <2>1. k = place[l] /\ j = place[m]
    BY <1>4
  <2> QED BY <1>1, <2>1
<1>6. \A l \in 1 .. Len(list) : \E n \in 1 .. 18 : list[l] = toolsRegistry[n]
  BY <1>1, <1>2
<1> QED BY <1>3, <1>5, <1>6

LEMMA GridShows ==
  ASSUME FetchedInv, GridInv
  PROVE  GridFollowsConfig /\ CardsLeadSomewhere
<1>1. CASE visibleTools = toolsRegistry
  BY <1>1, RegistrySize, CardsOfRegistry DEF GridFollowsConfig, CardsLeadSomewhere
<1>2. CASE gridDone /\ visibleTools = grid.visibleList
  <2> DEFINE list == grid.visibleList
  <2>1. grid.at = 19 /\ grid.at - 1 = 18 /\ list \in Seq(Entries)
    BY <1>2, RegistrySize DEF gridDone, GridInv
  <2>2. CASE AllSoFar(list, 18)
    <3>1. list = toolsRegistry
      <4>1. toolsRegistry \in Seq(Entries)
        <5>1. toolsRegistry = [n \in 1 .. 18 |-> toolsRegistry[n]]
          BY DEF toolsRegistry
        <5>2. \A n \in 1 .. 18 : toolsRegistry[n] \in Entries
          BY DEF Entries
        <5> QED BY <5>1, <5>2
      <4> HIDE DEF list
      <4>2. Len(list) = Len(toolsRegistry)
            /\ \A l \in 1 .. Len(list) : list[l] = toolsRegistry[l]
        BY <2>2, RegistrySize DEF AllSoFar
      <4> QED BY <2>1, <4>1, <4>2
    <3> QED BY <1>1, <1>2, <3>1
  <2>3. ASSUME configured, NEW n \in 1 .. 18, Lists(list, 18, Choice(n) \cap 1 .. 18)
        PROVE  GridFollowsConfig /\ CardsLeadSomewhere
    <3>1. Choice(n) \cap 1 .. 18 = Choice(n)
      BY RegistrySize DEF Choice
    <3>2. DOMAIN visibleTools = 1 .. Len(list) /\ visibleTools = list
      BY <1>2, <2>1
    <3>3. /\ {list[l] : l \in 1 .. Len(list)} = {toolsRegistry[m] : m \in Choice(n)}
          /\ \A l \in 1 .. Len(list) : \E m \in 1 .. 18 : list[l] = toolsRegistry[m]
          /\ \A l, m \in 1 .. Len(list) : \A k, j \in 1 .. 18 :
               list[l] = toolsRegistry[k] /\ list[m] = toolsRegistry[j] =>
                 (l < m => k < j) /\ (m < l => j < k) /\ (l = m => k = j)
      <4> HIDE DEF list
      <4>1. Lists(list, 18, Choice(n)) /\ 18 \in 0 .. 18
        BY <2>3, <3>1
      <4> QED BY <2>1, <4>1, ListsShow
    <3>4. CardsLeadSomewhere
      BY <3>2, <3>3, CardsOfRegistry DEF CardsLeadSomewhere
    <3>5. ASSUME NEW l \in 1 .. Len(list), NEW m \in 1 .. Len(list),
                 NEW k \in 1 .. 18, NEW j \in 1 .. 18,
                 list[l] = toolsRegistry[k], list[m] = toolsRegistry[j]
          PROVE  shownAbove(l, m) <=> k < j
      <4>1. (l < m => k < j) /\ (m < l => j < k) /\ (l = m => k = j)
        BY <3>3, <3>5
      <4>2. l \in Nat /\ m \in Nat
        BY <2>1
      <4>3. CASE toolsRegistry[k].category = toolsRegistry[j].category
        BY <3>2, <3>5, <4>1, <4>2, <4>3 DEF shownAbove, inCategory
      <4>4. CASE toolsRegistry[k].category # toolsRegistry[j].category
        <5>1. k # j
          BY <4>4
        <5>2. shownAbove(l, m) <=> categoryOrder(toolsRegistry[k].category,
                                                 toolsRegistry[j].category)
          BY <3>2, <3>5, <4>4 DEF shownAbove, inCategory
        <5>3. k < j \/ j < k
          BY <5>1
        <5> QED BY <4>4, <5>2, <5>3, SectionsInOrder
      <4> QED BY <4>3, <4>4
    <3>6. \A l, m \in DOMAIN visibleTools : \A k, j \in DOMAIN toolsRegistry :
            visibleTools[l] = toolsRegistry[k] /\ visibleTools[m] = toolsRegistry[j]
              => (shownAbove(l, m) <=> k < j)
      BY <3>2, <3>5, RegistrySize
    <3>7. \E k \in DOMAIN toolsRegistry :
            {visibleTools[m] : m \in DOMAIN visibleTools} =
              {toolsRegistry[m] : m \in Choice(k)}
      <4>1. n \in DOMAIN toolsRegistry
        BY RegistrySize
      <4>2. {visibleTools[m] : m \in DOMAIN visibleTools} =
              {toolsRegistry[m] : m \in Choice(n)}
        <5>1. {list[m] : m \in 1 .. Len(list)} = {toolsRegistry[m] : m \in Choice(n)}
          BY <3>3
        <5> HIDE DEF list
        <5>2. {visibleTools[m] : m \in DOMAIN visibleTools} =
                {list[m] : m \in 1 .. Len(list)}
          BY <3>2
        <5> QED BY <5>1, <5>2
      <4> QED BY <4>1, <4>2
    <3> QED BY <1>2, <2>3, <3>4, <3>6, <3>7 DEF GridFollowsConfig
  <2> QED BY <2>1, <2>2, <2>3 DEF GridInv
<1> QED BY <1>1, <1>2 DEF GridInv

HomeInv == FetchedInv /\ GridInv /\ HeaderInv

LEMMA HomeKept == ASSUME HomeInv, [HomeNext]_homeVars PROVE HomeInv'
<1>1. CASE UNCHANGED homeVars
  <2>1. FetchedInv'
    BY <1>1 DEF homeVars, HomeInv, FetchedInv
  <2>2. GridInv'
    BY <1>1 DEF homeVars, HomeInv, GridInv, gridDone, Choice, getToolVisible,
                asBoolean, getSource
  <2>3. HeaderInv'
    BY <1>1 DEF homeVars, HomeInv, HeaderInv, HeaderFollowsConfig, asBoolean,
                getSource
  <2> QED BY <2>1, <2>2, <2>3 DEF HomeInv
<1>2. CASE HomeNext
  <2>1. GridInv'
    BY <1>2, GridIdles, GridTurns DEF HomeInv, HomeNext
  <2> QED BY <1>2, <2>1, FetchedSteps, HeaderSteps DEF HomeInv
<1> QED BY <1>1, <1>2

LEMMA HomeInvariant == HomeSpec => []HomeInv
<1>1. HomeInit => HomeInv
  BY HomeStarts, HeaderStarts DEF HomeInv
<1>2. HomeInv /\ [HomeNext]_homeVars => HomeInv'
  BY HomeKept
<1> QED BY <1>1, <1>2, PTL DEF HomeSpec

\* What the home page shows is what the server decided, as far as it could be
\* asked: tools and banner, with whatever configuration, whichever calls fail and
\* whenever the user comes back (tool-grid.tsx, site-header.tsx, remote-config.ts).
THEOREM HomeAlwaysFollowsConfig == HomeSpec => []HomeFollowsConfig
<1>1. HomeInv => HomeFollowsConfig
  BY GridShows DEF HomeInv, HeaderInv, HomeFollowsConfig
<1> QED BY <1>1, HomeInvariant, PTL

\* No card of the home page leads to a page that is not there or has another form
\* than the card promises (tools-registry.ts and the pages).
THEOREM CardsAlwaysLead == HomeSpec => []CardsLeadSomewhere
<1>1. HomeInv => CardsLeadSomewhere
  BY GridShows DEF HomeInv
<1> QED BY <1>1, HomeInvariant, PTL
================================================================================
