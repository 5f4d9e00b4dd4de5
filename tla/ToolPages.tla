------------------------------- MODULE ToolPages -------------------------------
(***************************************************************************)
(* The contract between the pages of the frontend (app/(tools)) and the    *)
(* tools of the backend (internal/tools), which no type checker sees: a    *)
(* page is written in TypeScript and its tool in Go, and both name the     *)
(* same options and the same fields of JSON.                               *)
(*                                                                         *)
(* A page: the form it has, the member of the request that the form's text *)
(* goes into, the values of its options, the first of each being the       *)
(* initial one, the fields of the answer that it shows or calls methods of *)
(* without a guard, those that it asks for first, the labels of its copy   *)
(* buttons and the fields it sends the browser to in its own window.       *)
(*                                                                         *)
(* A tool: the member that it reads, the values of the options that its    *)
(* Validate accepts, the fields that an answer always has, and those that  *)
(* are left out, null or empty in some.                                    *)
(***************************************************************************)
EXTENDS Sequences

None == <<>>   \* no options: the function with no arguments
Empty == ""    \* no value, or no code: the empty string

Page(form, member, options, reads, asks, copies, links) ==
  [form |-> form, member |-> member, options |-> options, reads |-> reads,
   asks |-> asks, copies |-> copies, links |-> links]

Tool(member, accepts, gives, may) ==
  [member |-> member, accepts |-> accepts, gives |-> gives, may |-> may]

\* Two of the seven languages stand for all: the tools treat none of them apart.
Languages == <<"en", "fr">>

--------------------------------------------------------------------------------
(***************************************************************************)
(* Pages of one URL                                                        *)
(***************************************************************************)

YoutubeUrlCleanerPage ==
  Page("video", "url", None, {"cleanedUrl", "shortUrl"}, {},
       {"clean", "short"}, {})

YoutubeIdExtractorPage ==
  Page("video", "url", None, {},
       {"videoId", "playlistId", "channelValue", "channelType"},
       {"video", "playlist", "channel"}, {})

ShortsUrlConverterPage ==
  Page("video", "url", None, {"videoId", "variants", "variant.label",
       "variant.url"}, {}, {"0", "1"}, {})

ChannelRssFeedGeneratorPage ==
  Page("channel", "url", None, {"channelId", "channelName", "rssUrl"}, {},
       {"id", "rss"}, {"rssUrl"})

ThumbnailDownloaderPage ==
  Page("video", "url",
       [resolution |-> <<"max", "high", "medium", "standard">>],
       {"previewUrl", "requestedResolution", "deliveredResolution",
        "downloadUrl"}, {}, {}, {"downloadUrl"})

\* Mutant of VideoMetadataViewerPage: the tags are listed without a look.
VideoMetadataViewerPageEager ==
  Page("video", "url", [raw |-> <<"false", "true">>],
       {"title", "channel", "uploadDate", "viewCount", "likeCount", "duration",
        "thumbnail", "tags"}, {"description", "rawJson"}, {}, {})

VideoMetadataViewerPage ==
  Page("video", "url", [raw |-> <<"false", "true">>],
       {"title", "channel", "uploadDate", "viewCount", "likeCount", "duration",
        "thumbnail"}, {"description", "tags", "rawJson"}, {}, {})

\* Mutant of PlaylistExporterPage: the option has another name than in the tool.
PlaylistExporterPageNamed ==
  Page("playlist", "url", [exportFormat |-> <<"CSV", "JSON">>],
       {"playlistTitle", "videoCount", "format", "downloadUrl"}, {}, {},
       {"downloadUrl"})

PlaylistExporterPage ==
  Page("playlist", "url", [format |-> <<"CSV", "JSON">>],
       {"playlistTitle", "videoCount", "format", "downloadUrl"}, {}, {},
       {"downloadUrl"})

PlaylistDurationCalculatorPage ==
  Page("playlist", "url", [includeUploadStats |-> <<"false", "true">>],
       {"playlistTitle", "videoCount", "formatted", "avgDuration"},
       {"longestVideo", "shortestVideo", "atSpeed", "avgUploadAgeDays",
        "csvData"}, {}, {})

TranscriptExtractorPage ==
  Page("video", "url", [lang |-> Languages], {"title", "transcript"}, {},
       {"it"}, {})

TranscriptDownloaderPage ==
  Page("video", "url", [lang |-> Languages, format |-> <<"srt", "vtt">>],
       {"title", "language", "format", "downloadUrl"}, {}, {}, {"downloadUrl"})

\* The language is typed in and may be left empty.
TranscriptSearchPage ==
  Page("video", "url", [lang |-> <<"en", "fr", Empty>>],
       {"wordCount", "totalDuration", "language", "videoId"}, {"lines"}, {}, {})

--------------------------------------------------------------------------------
(***************************************************************************)
(* Pages of a list of URLs and of a text                                   *)
(***************************************************************************)

VideoDurationCalculatorPage ==
  Page("bulk", "urls", None,
       {"count", "totalFmt", "videos", "video.index", "video.title",
        "video.durationFmt"}, {"atSpeed", "video.error"}, {}, {})

BulkMetadataExtractorPage ==
  Page("bulk", "urls", None,
       {"video.index", "video.videoId", "video.title", "video.channel",
        "video.uploadDate", "video.duration", "video.durationFmt",
        "video.viewCount", "video.likeCount", "video.url"},
       {"videos", "video.error"}, {}, {})

BulkThumbnailDownloaderPage ==
  Page("bulk", "urls", [resolution |-> <<"max">>],
       {"count", "thumbnails", "thumbnail.index", "thumbnail.previewUrl",
        "thumbnail.downloadUrl", "thumbnail.resolution"},
       {"zipUrl", "thumbnail.error"}, {}, {})

\* The offset is a number that is at least one; its max of 3600 binds only the
\* arrows of the field.  One beyond Go's int is written in digits like any other,
\* and from 1e21 on with an exponent.
BeyondInt == {"100000000000000000000", "1e+21"}

TimestampOffsetPage ==
  Page("text", "url", [action |-> <<"add", "subtract">>,
                       offset |-> <<"10", "100000000000000000000", "1e+21">>],
       {"totalLines", "unparsedCount", "updatedText"}, {}, {"it"}, {})

\* The text goes into an option, and the url is empty.
ChapterValidatorPage ==
  Page("text", "options.text", None,
       {"isValid", "chapterCount", "totalSeconds"},
       {"issues", "formattedList"}, {"it"}, {})

Slugs == {"youtube-url-cleaner", "youtube-id-extractor", "shorts-url-converter",
          "channel-rss-feed-generator", "thumbnail-downloader",
          "video-metadata-viewer", "playlist-exporter",
          "playlist-duration-calculator", "transcript-extractor",
          "transcript-downloader", "transcript-search",
          "video-duration-calculator", "bulk-metadata-extractor",
          "bulk-thumbnail-downloader", "timestamp-offset", "chapter-validator"}

PageOf == [s \in Slugs |->
  CASE s = "youtube-url-cleaner"          -> YoutubeUrlCleanerPage
    [] s = "youtube-id-extractor"         -> YoutubeIdExtractorPage
    [] s = "shorts-url-converter"         -> ShortsUrlConverterPage
    [] s = "channel-rss-feed-generator"   -> ChannelRssFeedGeneratorPage
    [] s = "thumbnail-downloader"         -> ThumbnailDownloaderPage
    [] s = "video-metadata-viewer"        -> VideoMetadataViewerPage
    [] s = "playlist-exporter"            -> PlaylistExporterPage
    [] s = "playlist-duration-calculator" -> PlaylistDurationCalculatorPage
    [] s = "transcript-extractor"         -> TranscriptExtractorPage
    [] s = "transcript-downloader"        -> TranscriptDownloaderPage
    [] s = "transcript-search"            -> TranscriptSearchPage
    [] s = "video-duration-calculator"    -> VideoDurationCalculatorPage
    [] s = "bulk-metadata-extractor"      -> BulkMetadataExtractorPage
    [] s = "bulk-thumbnail-downloader"    -> BulkThumbnailDownloaderPage
    [] s = "timestamp-offset"             -> TimestampOffsetPage
    [] s = "chapter-validator"            -> ChapterValidatorPage]

InitialOptions(s) ==
  [o \in DOMAIN PageOf[s].options |-> PageOf[s].options[o][1]]

OptionValues(s, o) == {PageOf[s].options[o][n] : n \in
                         DOMAIN PageOf[s].options[o]}

--------------------------------------------------------------------------------
(***************************************************************************)
(* The tools                                                               *)
(***************************************************************************)

YoutubeUrlCleaner ==
  Tool("url", None, {"originalUrl", "cleanedUrl", "shortUrl", "videoId"}, {})

\* At least one of the three is there.
YoutubeIdExtractor ==
  Tool("url", None, {}, {"videoId", "playlistId", "channelValue",
                         "channelType"})

ShortsUrlConverter ==
  Tool("url", None, {"videoId", "variants", "variant.label", "variant.url"}, {})

ChannelIdFinder ==
  Tool("url", None, {"channelId", "channelName", "rssUrl"}, {})

ThumbnailDownloader ==
  Tool("url", [resolution |-> {"max", "high", "medium", "standard"}],
       {"videoId", "requestedResolution", "deliveredResolution", "previewUrl",
        "downloadUrl"}, {})

\* yt-dlp may know of no tags: a nil slice is null.
VideoMetadataViewer ==
  Tool("url", [raw |-> {"true", "false"}],
       {"title", "channel", "uploadDate", "viewCount", "likeCount", "duration",
        "description", "thumbnail"}, {"tags", "rawJson"})

\* The format in capitals or not.
PlaylistExporter ==
  Tool("url", [format |-> {"CSV", "JSON", "csv", "json"}],
       {"playlistTitle", "videoCount", "downloadUrl", "format"}, {})

PlaylistDurationCalculator ==
  Tool("url", [includeUploadStats |-> {"true", "false"}],
       {"playlistTitle", "videoCount", "totalSeconds", "formatted", "atSpeed",
        "avgDuration", "longestVideo", "shortestVideo", "csvData"},
       {"avgUploadAgeDays"})

TranscriptExtractor ==
  Tool("url", [lang |-> {"en", "fr", Empty}],
       {"title", "language", "transcript"}, {})

TranscriptDownloader ==
  Tool("url", [lang |-> {"en", "fr", Empty},
               format |-> {"srt", "vtt", "SRT", "VTT"}],
       {"title", "language", "format", "downloadUrl"}, {})

\* A transcript without a word has no lines: again a nil slice.
TranscriptSearch ==
  Tool("url", [lang |-> {"en", "fr", Empty}],
       {"videoId", "title", "language", "wordCount", "totalDuration"},
       {"lines"})

VideoDurationCalculator ==
  Tool("urls", None,
       {"videos", "video.index", "video.videoId", "video.title",
        "video.seconds", "video.durationFmt", "totalSeconds", "totalFmt",
        "atSpeed", "count"}, {"video.error"})

BulkMetadataExtractor ==
  Tool("urls", None,
       {"videos", "count", "video.index", "video.videoId", "video.title",
        "video.channel", "video.uploadDate", "video.duration",
        "video.durationFmt", "video.viewCount", "video.likeCount", "video.url"},
       {"video.error"})

BulkThumbnailDownloader ==
  Tool("urls", [resolution |-> {Empty, "max", "high", "medium", "standard"}],
       {"thumbnails", "count", "thumbnail.index", "thumbnail.videoId",
        "thumbnail.previewUrl", "thumbnail.downloadUrl",
        "thumbnail.resolution"}, {"zipUrl", "thumbnail.error"})

\* The offset must be what strconv.Atoi takes: digits, and within an int.
TimestampOffset ==
  Tool("url", [action |-> {"add", "subtract"}, offset |-> {"10"}],
       {"updatedText", "unparsedCount", "totalLines"}, {})

ChapterValidator ==
  Tool("url", None, {"valid"}, {"issues", "chapters"})

ToolOf == [s \in Slugs |->
  CASE s = "youtube-url-cleaner"          -> YoutubeUrlCleaner
    [] s = "youtube-id-extractor"         -> YoutubeIdExtractor
    [] s = "shorts-url-converter"         -> ShortsUrlConverter
    [] s = "channel-rss-feed-generator"   -> ChannelIdFinder
    [] s = "thumbnail-downloader"         -> ThumbnailDownloader
    [] s = "video-metadata-viewer"        -> VideoMetadataViewer
    [] s = "playlist-exporter"            -> PlaylistExporter
    [] s = "playlist-duration-calculator" -> PlaylistDurationCalculator
    [] s = "transcript-extractor"         -> TranscriptExtractor
    [] s = "transcript-downloader"        -> TranscriptDownloader
    [] s = "transcript-search"            -> TranscriptSearch
    [] s = "video-duration-calculator"    -> VideoDurationCalculator
    [] s = "bulk-metadata-extractor"      -> BulkMetadataExtractor
    [] s = "bulk-thumbnail-downloader"    -> BulkThumbnailDownloader
    [] s = "timestamp-offset"             -> TimestampOffset
    [] s = "chapter-validator"            -> ChapterValidator]

\* What the tool's Validate makes of a request: it finds its input where it
\* looks for it, and every option has a value that it knows.  A tool ignores
\* the options that it does not name.
Validates(s, member, opts) ==
  /\ member = ToolOf[s].member
  /\ \A o \in DOMAIN ToolOf[s].accepts :
       o \in DOMAIN opts /\ opts[o] \in ToolOf[s].accepts[o]
================================================================================
