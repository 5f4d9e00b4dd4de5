-------------------------------- MODULE HomePage -------------------------------
(***************************************************************************)
(* The home page: the grid of tools and the banner in the header ask       *)
(* Remote Config of Firebase, each with calls one after the other, both at *)
(* the same time, and share what getRC keeps in its module: whether the    *)
(* configuration has been fetched and activated.  A call that fails leaves *)
(* the tool, or the banner, as it is without Firebase.                     *)
(***************************************************************************)
EXTENDS Naturals, Sequences, ToolPages

CONSTANT Configs  \* the configurations that may be on the server: of the keys that
                  \* one has, the tools and the banner that it shows or hides

VARIABLES
  config,       \* the configuration on the server
  configured,   \* the build has the keys of a Firebase project
  initialized,  \* of remote-config.ts
  activated,    \* the SDK has an active configuration
  grid,         \* the effect of the grid: how far, waiting or not, visibleList
  visibleTools, \* what the grid shows
  header,       \* the effect of the header: which call, waiting or not, visible
  promo         \* what the header shows: the banner or not, whose message

homeVars == <<config, configured, initialized, activated, grid, visibleTools,
              header, promo>>

--------------------------------------------------------------------------------
(***************************************************************************)
(* tools-registry.ts                                                       *)
(***************************************************************************)

ToolEntry(slug, category, inputType) ==
  [slug |-> slug, category |-> category, inputType |-> inputType]

\* Mutant of toolsRegistry: an entry with the old address of its page.
oldRegistry == <<
  ToolEntry("transcript-extractor", "Transcripts", "video"),
  ToolEntry("playlist-exporter", "Playlist Tools", "playlist"),
  ToolEntry("channel-id-finder", "Video Info", "channel") >>

toolsRegistry == <<
  ToolEntry("transcript-extractor", "Transcripts", "video"),
  ToolEntry("transcript-downloader", "Transcripts", "video"),
  ToolEntry("transcript-search", "Transcripts", "video"),
  ToolEntry("playlist-duration-calculator", "Playlist Tools", "playlist"),
  ToolEntry("playlist-exporter", "Playlist Tools", "playlist"),
  ToolEntry("thumbnail-downloader", "Video Info", "video"),
  ToolEntry("thumbnail-preview", "Video Info", "video"),
  ToolEntry("video-metadata-viewer", "Video Info", "video"),
  ToolEntry("channel-rss-feed-generator", "Video Info", "channel"),
  ToolEntry("youtube-url-cleaner", "Quick Utilities", "video"),
  ToolEntry("youtube-id-extractor", "Quick Utilities", "video"),
  ToolEntry("timestamp-generator", "Quick Utilities", "video"),
  ToolEntry("shorts-url-converter", "Quick Utilities", "video"),
  ToolEntry("bulk-metadata-extractor", "Bulk Tools", "bulk"),
  ToolEntry("video-duration-calculator", "Bulk Tools", "bulk"),
  ToolEntry("bulk-thumbnail-downloader", "Bulk Tools", "bulk"),
  ToolEntry("chapter-validator", "Validation & Formatting", "text"),
  ToolEntry("timestamp-offset", "Validation & Formatting", "text") >>

\* The form of the page behind a slug; the two pages with a machine of their own
\* take a video.
formOf(slug) == IF slug \in Slugs THEN PageOf[slug].form
                ELSE IF slug \in {"timestamp-generator", "thumbnail-preview"}
                THEN "video" ELSE "no page"

--------------------------------------------------------------------------------
(***************************************************************************)
(* remote-config.ts                                                        *)
(***************************************************************************)

\* getValue of the SDK, for the key of a tool or of the banner: from the active
\* configuration, or from the defaults, which know the banner only, or from
\* nowhere.
getSource(key, active) ==
  IF active /\ key \in config.shows \cup config.hides THEN "remote"
  ELSE IF key = "banner" THEN "default" ELSE "static"

asBoolean(key, active) ==
  \/ getSource(key, active) = "remote" /\ key \in config.shows
  \/ getSource(key, active) = "default"

getToolVisible(slug, active) ==
  getSource(slug, active) = "default" \/ asBoolean(slug, active)

\* The call of getRC that the effect e is in.  Either it needs nothing from the
\* network, and then its rest runs at once, or it waits for fetchAndActivate.
NeedsFetch == configured /\ ~initialized

\* What comes of it: an active configuration, or null, and then the fallback.
GetsRC(e, fallback, value(_), then(_)) ==
  \/ /\ ~e.waits /\ ~NeedsFetch
     /\ then(IF configured THEN value(activated) ELSE fallback)
     /\ UNCHANGED <<initialized, activated>>
  \/ /\ e.waits /\ initialized' = TRUE /\ activated' = TRUE
     /\ then(value(TRUE))
  \/ /\ e.waits
     /\ then(fallback)
     /\ UNCHANGED <<initialized, activated>>

Waits(e) == ~e.waits /\ NeedsFetch

--------------------------------------------------------------------------------
(***************************************************************************)
(* tool-grid.tsx                                                           *)
(***************************************************************************)

GridMounted == [at |-> 1, waits |-> FALSE, visibleList |-> <<>>]

gridDone == grid.at > Len(toolsRegistry)

\* Mutant of gridWaits: getRC sets initialized before its await.
gridWaitsMarked ==
  /\ ~gridDone /\ Waits(grid)
  /\ grid' = [grid EXCEPT !.waits = TRUE]
  /\ initialized' = TRUE
  /\ UNCHANGED <<config, configured, activated, visibleTools, header, promo>>

gridWaits ==
  /\ ~gridDone /\ Waits(grid)
  /\ grid' = [grid EXCEPT !.waits = TRUE]
  /\ UNCHANGED <<config, configured, initialized, activated, visibleTools,
                 header, promo>>

\* One turn of the loop, and what follows the last one.
fetchVisibility ==
  /\ ~gridDone
  /\ LET tool == toolsRegistry[grid.at]
         value(active) == getToolVisible(tool.slug, active)
         then(rcVisible) ==
           LET list == IF rcVisible THEN Append(grid.visibleList, tool)
                       ELSE grid.visibleList
           IN /\ grid' = [at |-> grid.at + 1, waits |-> FALSE,
                          visibleList |-> list]
              /\ visibleTools' = IF grid.at = Len(toolsRegistry) THEN list
                                 ELSE visibleTools
     IN GetsRC(grid, TRUE, value, then)
  /\ UNCHANGED <<config, configured, header, promo>>

\* The registry names a first: the section of a stands above that of b.
categoryOrder(a, b) ==
  \E n \in DOMAIN toolsRegistry :
    /\ toolsRegistry[n].category = a
    /\ \A m \in 1 .. n : toolsRegistry[m].category # b

inCategory(n, m) == visibleTools[n].category = visibleTools[m].category

\* The card n of visibleTools stands above the card m: in a section above, or before
\* it in the same.
shownAbove(n, m) ==
  IF inCategory(n, m) THEN n < m
  ELSE categoryOrder(visibleTools[n].category, visibleTools[m].category)

--------------------------------------------------------------------------------
(***************************************************************************)
(* site-header.tsx                                                         *)
(***************************************************************************)

HeaderMounted == [call |-> "visible", waits |-> FALSE, visible |-> TRUE]

headerWaits ==
  /\ header.call # "done" /\ Waits(header)
  /\ header' = [header EXCEPT !.waits = TRUE]
  /\ UNCHANGED <<config, configured, initialized, activated, grid, visibleTools,
                 promo>>

\* getChannelPromoVisible, then getChannelPromoMessage; then both are set.
fetchRC ==
  /\ header.call # "done"
  /\ \/ /\ header.call = "visible"
        /\ LET value(active) == asBoolean("banner", active)
               then(v) == /\ header' = [call |-> "message", waits |-> FALSE,
                                        visible |-> v]
                          /\ UNCHANGED promo
           IN GetsRC(header, TRUE, value, then)
     \/ /\ header.call = "message"
        /\ LET value(active) == getSource("banner", active)
               then(m) == /\ header' = [header EXCEPT !.call = "done",
                                                      !.waits = FALSE]
                          /\ promo' = [visible |-> header.visible, message |-> m]
           IN GetsRC(header, "default", value, then)
  /\ UNCHANGED <<config, configured, grid, visibleTools>>

--------------------------------------------------------------------------------

HomeInit ==
  /\ config \in Configs /\ configured \in BOOLEAN
  /\ initialized = FALSE /\ activated = FALSE
  /\ grid = GridMounted /\ visibleTools = toolsRegistry
  /\ header = HeaderMounted
  /\ promo = [visible |-> TRUE, message |-> "default"]

\* The user comes back to the home page: the grid mounts anew, the header and the
\* module's variables are still there.  What the old effect awaits may initialize
\* the module and nothing else.
comeBack ==
  /\ grid' = GridMounted /\ visibleTools' = toolsRegistry
  /\ \/ UNCHANGED <<initialized, activated>>
     \/ grid.waits /\ initialized' = TRUE /\ activated' = TRUE
  /\ UNCHANGED <<config, configured, header, promo>>

HomeNext == gridWaits \/ fetchVisibility \/ headerWaits \/ fetchRC \/ comeBack

HomeSpec == HomeInit /\ [][HomeNext]_homeVars

--------------------------------------------------------------------------------
\* The configuration's choice of the tools from the n-th on, and all before.
Choice(n) ==
  {m \in DOMAIN toolsRegistry :
     m < n \/ getToolVisible(toolsRegistry[m].slug, TRUE)}

\* The grid shows, in the order of the registry, what the configuration shows; but
\* for the first tools, if asking for them failed.  It never mixes the two the
\* other way, and before it knows it shows all.
GridFollowsConfig ==
  \/ visibleTools = toolsRegistry
  \/ /\ gridDone /\ configured
     /\ \E n \in DOMAIN toolsRegistry :
          {visibleTools[m] : m \in DOMAIN visibleTools} =
            {toolsRegistry[m] : m \in Choice(n)}
     /\ \A l, m \in DOMAIN visibleTools : \A k, j \in DOMAIN toolsRegistry :
          visibleTools[l] = toolsRegistry[k] /\ visibleTools[m] = toolsRegistry[j]
            => (shownAbove(l, m) <=> k < j)

\* The banner and its text: a text of the server never stands in a banner that is
\* decided by default, unless the first of the two calls failed; and a decision of
\* the server never comes with the default text, if the server has one.
HeaderFollowsConfig ==
  header.call = "done" =>
    \/ promo = [visible |-> asBoolean("banner", TRUE),
                message |-> getSource("banner", TRUE)]
    \/ promo.visible /\ promo.message \in {"default", getSource("banner", TRUE)}

\* What is shown at home is what the server decided, as far as it could be asked.
HomeFollowsConfig == GridFollowsConfig /\ HeaderFollowsConfig

\* A card leads to a page that is there and has the form that the card promises.
CardsLeadSomewhere ==
  \A n \in DOMAIN visibleTools :
    formOf(visibleTools[n].slug) = visibleTools[n].inputType

\* "If the key doesn't exist in remote config, default to true (visible)"
\* (remote-config.ts:62).
AbsentKeyVisible ==
  gridDone => \A n \in DOMAIN toolsRegistry :
    toolsRegistry[n].slug \notin config.hides =>
      \E m \in DOMAIN visibleTools : visibleTools[m] = toolsRegistry[n]
================================================================================
