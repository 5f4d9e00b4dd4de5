# A TLA+ model of the YouTube tools

This directory models the repository beside it: the Go backend that runs the tools,
keeps the files they produce and serves them, and the state of the Next.js pages that
call it. Paths below are relative to the repository (`src/`); `PROJECT.json` maps
definitions to lines.

## 1. The system

A page of the frontend checks what is typed into its form, posts JSON to
`/api/v1/tools/<slug>`, and shows the answer. The Go backend validates the input and runs
one of 18 tools under a context of 45 s; several tools start yt-dlp or fetch from the
image CDN, and four of them write a file to a temp directory and answer with a link
`/api/v1/downloads/<token>`. nginx is in front, systemd behind.

| Component | State | Operations | Talks to |
|---|---|---|---|
| Download store (`downloads/store.go`) | map token -> entry under an RWMutex; files on disk under no lock | Register, Get, BundleAsZip, Cleanup every minute | tools, download handler |
| Download handler (`router.go`) | its copy of an entry | look up, compare the clock, read the file, answer | store, disk |
| yt-dlp client (`ytdlp/client.go`) | a channel of tokens | acquire, start, wait, release | nine tools, contexts, subprocesses |
| Producers (thumbnail, transcript, playlist export) | one temp directory per request | fetch, mkdir, create, fill, register; error paths | store, client, CDN, disk |
| Bulk thumbnails | results by index, local semaphore, WaitGroup, one directory | a goroutine per URL, archive | store, CDN, disk |
| Other bulk tools | results by index, local semaphore | a goroutine per URL | client (its pool inside the local one) |
| Rate limiter (`middleware/ratelimit.go`) | map address -> bucket under a mutex | look up, Allow, evict | every request |
| Pipeline (`router.go`, middleware) | one response per request | recover, CORS, limiter, App Check, decode, Validate, Execute | browser, tools |
| Process (`cmd/server/main.go`) | listener, shutdown goroutine | listen, drain, exit | signals, systemd |
| Kits (`urlkit`, `timestampkit`, `durationkit`) | none | parse, format, add up | tools |
| Forms (`url-input.tsx`, `bulk-url-input.tsx`, `text-block-input.tsx`) | text, touched, error | change, blur, paste, clear, submit | page, clipboard, `validation.ts` |
| API client (`api-client.ts`, `lib/firebase`) | one call | App Check token, fetch, read the body | backend, Firebase |
| Tool pages, results panel | options, a mutation, what was rendered, copy labels | submit, render, copy, download, track | API client, router |
| Timestamp generator | two mutations, URL, identifier, rows | look up, edit, generate, start over | API client |
| Thumbnail preview | uploaded image, CDN image | choose, upload, clear | file readers, API client |
| Table of the bulk extractor | rows, sort order | sort, new answer | React |
| Home page, registry, Remote Config | visible tools, banner, activated | ask key by key | Firebase |

### What is hard, and what makes each part correct

- **Store, handler, worker.** Three kinds of goroutine meet at the map, and meet
  on disk without a lock. Get reads the map, then the clock, then the handler reads
  the file; the sweep samples the clock once and removes files before entries.
  Correct means: a link works for its whole lifetime, is refused only outside it,
  nothing is lost early, and no file stays without someone who will remove it.
- **Producers.** Every step can fail after the earlier ones have left something on
  disk. Correct means: error paths leave nothing, and what is registered is a
  complete file.
- **yt-dlp client and the bulk tools on it.** Cancellation can win over a free token, a
  start can fail, a killed process can linger; goroutines of a bulk request wait for a
  local semaphore that ignores their context, and inside it for the pool that other
  requests share. Correct means: the cap holds, no token is lost, every call returns,
  every bulk request is answered in full.
- **Bulk thumbnails.** Goroutines share a directory, and for equal videos a file.
  Correct means: an answer after the last goroutine, a result for each URL, links
  that last.
- **Rate limiter.** A request uses its bucket after the unlock; eviction runs in
  between. Correct means: the burst and the rate bound every window, and a refusal has
  a reason.
- **Pipeline in its process.** A preflight and five middlewares may each end a request,
  a tool may panic inside or outside Recover, the process may stop between two steps.
  Correct means: whoever calls hears an answer or an error with a code, and nothing
  runs unchecked; SIGTERM stops the process, and nothing else stops the unit for good.
- **Forms.** A paste ends after an await, the page renders after its call has begun,
  and one text is checked by regular expressions in the browser and by a URL parser
  on the server. Correct means: the error shown is that of the text shown, and the two
  checks agree.
- **Pages.** Two calls can be on their way at once; a page sees its mutation only when
  it renders; the contract with the tools is a pair of types in two languages. Correct
  means: the outcome shown is that of the last submission, it comes in the end, it is
  tracked once, and it has the fields the page reads.
- **Generator, preview, table.** Pieces of state that only together mean something:
  links and the video they are of, a reader and the file chosen last, keys and rows.
- **Home page.** Grid and header share a module variable over awaits. Correct means:
  what is shown is what the server decided, as far as it could be asked.

## 2. The modules

`DownloadLease` is the abstract promise: a token is a lease that is issued once,
live for a while, then over; a GET is refused only while it is not live and fails
only when it ended on the way. `BoundedPool` is the abstract counting semaphore.

The backend:

| Module | Models | Correspondence |
|---|---|---|
| `DownloadStore` | `store.go`, `handleDownload` | One action per stretch between two points where another goroutine can get in. `Lookup` is Get under RLock, `CheckExpiry` the comparison after it, `ReadFile` the `os.ReadFile`. `SweepBegin`, `Unlink`, `Forget`, `SweepEnd` are Cleanup: it holds the lock throughout, so `Register` and `Lookup` wait, but reads and writes of files go on. `Stage`, `WriteFile`, `Discard`, `Abandon`, `Register` are what a tool request may do. `Restart` loses the map and the goroutines and keeps the disk. |
| `FileProducers` | `Execute` of three tools (four variants) | Extends the store. One action per call that can fail. `ImplementsStore` says that the steps are those that `DownloadStore` takes requests to do. |
| `BulkThumbnails` | `Execute` of the bulk tool, `BundleAsZip` | Extends the store. One action per statement of a goroutine that touches shared state; the local semaphore is the set of goroutines past `TakeSlot`. |
| `YtDlpClient` | `client.go`, the context of `handleToolCall` | `Acquire` and `Refuse` are the two cases of the select; `Start`, `StartFails`, `Exit`, `Kill`, `Drained` are what `cmd.Run` does; `Release` is the deferred send, guarded by the channel's capacity. |
| `BulkFetch` | `Execute` of the two bulk tools on yt-dlp | Extends the client. A goroutine is the call it makes; `TakeSlot`, `Fetch`, `Fetched` are around that call, and `Answer` is `wg.Wait`. Single calls of other requests use the pool beside it. |
| `RateLimiter` | `ratelimit.go` | `Lookup` under the mutex, `Admit` or `Refuse` after it, `Evict`. The buckets of `x/time/rate` are external and counted in whole tokens and ticks. |
| `ServerLifecycle` | `main.go`, the systemd unit | The main goroutine and the shutdown goroutine are two processes; the drain of `server.Shutdown` is external. |
| `RequestPipeline` | `router.go`, the middlewares, `api-client.ts` | Extends the process. A request is in one middleware at a time (`at`). The browser asks first about a call to another origin that declares JSON or has the header of App Check (`AsksFirst`); any other it sends, and CORS passes it on. In the end it tells the page what CORS lets it. |

The frontend:

| Module | Models | Correspondence |
|---|---|---|
| `UrlForms` | `validation.ts`, `urlkit`, the tool of `youtube-id-extractor` | The regular expressions and the parser, as predicates over the features of an input: what stands before the host, the host, the path and whether a slash ends it, how well identifier and parameters begin. `Sloppy` and `Uncommon` name where the two sides part. |
| `InputForms` | the three forms | Extends `UrlForms`. `kind` says which form, and on which page where that matters: the identifier extractor has the form of a video, and the text block has two pages with limits of their own. One action per handler; `handlePaste` and `pasted` are the two sides of its await, and `render` is when the page's `isLoading` arrives. |
| `ToolPages` | the sixteen pages with a results panel, and the types of their tools | For each slug what the page sends, offers and reads, and what the tool accepts and gives; `Validates` is the comparison. |
| `ToolPage` | `api-client.ts`, the mutation, `results-panel.tsx`, copy buttons | The stages of a call are where it awaits: token, response, body. `Render` is where the page sees the mutation and the panel's effect runs. |
| `TimestampGenerator` | `timestamp-generator/page.tsx` | Two mutations, the editor, Start Over. |
| `ThumbnailPreview` | `thumbnail-preview/page.tsx`, `image-upload.tsx` | Two readers per chosen file, one of the page and one of the panel, which end in any order or fail without a word and are never aborted, and the mutation beside them. |
| `ResultTable` | the table of the bulk extractor | Sorting, and what React does with the rows whose keys are equal. |
| `ChapterText` | `timestampkit`, the offset tool, the chapter validator | A list that is typed, shifted, pasted back, and validated. `Wrap` is Go's int, `MaxInt` the largest. |
| `Site` | the router | Composes the page modules: one is mounted, a visit to another drops its state and the calls it waited for. |
| `HomePage` | grid, header, `tools-registry.ts`, `remote-config.ts` | Two effects, call by call, over the shared variables of the module. |

`MC<Module>` gives a module the model values of its runs, and `<Module>Proofs` its
theorems (`SiteProofs` those of all pages under `Site`, and of `HomePage`). A
definition marked as a mutant is a plausible bug in the definition after it; nothing
refers to it, and it shows that the property it is for can fail.

### Abstractions

- A file is its path; its content is complete or not. A temp directory and the file
  in it share a name in `DownloadStore`; in `BulkThumbnails` all paths are in one
  directory.
- A token is a fresh value. `crypto/rand` gives 128 bits, and under the Go version
  of `go.mod` `rand.Read` does not return an error, so the error branches after
  Register are dead code and not modelled.
- `os.RemoveAll` on an error path succeeds; `os.Remove` in the sweep may fail.
- The clock is the wall clock in ticks, and does not go backwards.
- The sweep may run at any time, which includes the one-minute interval; the same
  goes for the eviction of rate limiter buckets.
- In `RequestPipeline` all calls come from one address and the limiter is a budget;
  `RateLimiter` has the buckets.
- An input of a form is a record of features, not a string; the head of `UrlForms` lists what
  they leave out (malformed percent escapes, or escapes outside of an identifier; characters
  that a host cannot have; slashes inside a parameter; two links in one string; rare kinds of
  space). A text block is a size in UTF-16 units and in bytes. A timestamp is the
  numbers between its colons. The empty string is `Empty` or `NoError`.
- The archive of the bulk thumbnails is one file. `BundleAsZip` skips a file that it cannot
  open and goes on after a copy that fails (`store.go:145-163`), so that an archive may lack
  a file or have a part of it; what is in an archive is not modelled, and `EveryLinkWorks`
  says that it is there, not that it is whole. The same holds of a single thumbnail whose
  copy broke off: `Copied` is the end of `io.Copy` wherever it comes.
- A page renders what its mutation says before the answer of that call arrives: a token and a
  round trip lie between. The second submission that slips in before the rendering
  is modelled. A mutation that react-query pauses off line is, too.
- What React makes of a list with equal keys is external, modelled from its reconciler's
  map of the remaining children by key.
- The submission's number stands for its input, its URL and its answer, so that an
  answer can be told from that of another submission.

### Faults

`DownloadStore` is parameterised by `Faults`, so that a property can say under which
it holds: `restart`, `unlinkFails`, `abandon` (a leaking error path), `share` (a path
registered twice), `phantom` (a path with no file). The first two are the
environment's; the other three are what `FileProducers` and `BulkThumbnails` show the
tools to do: `abandon` the JSON export, `phantom` the transcript downloader, `share`
the bulk thumbnails. In `RequestPipeline` connections break, tools panic or take the
process down, and the unit is deployed, stopped and restarted. In `ToolPage` the token
may not come, the connection may break before the response or in its body, and the
browser may go off line.

## 3. The runs

Runs that pass:

| Run | Instance | Shows |
|---|---|---|
| store_safety | 2 tokens, 2 paths, 2 handlers, clock 0..4, lifetimes 1 and 2, environment faults and leaks | the promise of a link under all interleavings, and the refinement of `DownloadLease` |
| store_live | 2 tokens, 2 paths, 1 handler; shared and phantom paths | no ownerless file; every GET answered, every entry collected with its file |
| producers_safety | 2 requests over all four tools, restarts | error paths clean up (but for JSON), no partial file is registered, links work (but for transcripts), `DownloadStore` is implemented |
| bulk_safety | 3 URLs of different videos for 2 slots, the worker | all links work, the archive's included, and the request ends with every result |
| ytdlp_live | 3 goroutines of a bulk request with 2 local slots, 1 single call of another request, cap 2 | conservation of tokens, `BoundedPool` is implemented; every call returns and every bulk request is answered in full |
| limiter_safety | 2 addresses, 2 racing requests, 3 buckets, clock 0..4 | no window exceeds burst and rate; no unjustified refusal |
| pipeline_live | 2 calls at a time out of 10 kinds of call, burst 1 | everyone hears an answer or a code, no tool runs that App Check or a preflight should have kept from it, SIGTERM and only SIGTERM stops |
| forms_safety | 3 forms on pages of 7 kinds, 40 inputs, 6 kinds of text, lists of up to 2 lines | the error is that of the text; forms and tools agree but for what is named |
| site_pages | all pages, 2 submissions on a visit | what panel, generator, preview, table and chapter lists show is right; every submission ends in an outcome |
| home_safety | the 18 tools, 4 configurations | home page and banner follow the server; cards lead to pages of their kind |

Runs that end in a violation: each checks one sentence of the README or of a comment
against what the code does.

| Run | Sentence | What happens |
|---|---|---|
| lifecycle_drain | README 234, 10-second drain | main returns when Shutdown begins |
| home_hidden | `remote-config.ts` 62, a key that does not exist means visible | with an active configuration, such a tool is hidden |

Deadlock is checked in every run but home_hidden, whose one property is violated before
it matters: the systems always have a step (an idle handler can be asked, the worker can
sweep, a context can open, a visitor can go to another page).

Several properties hold with an exception that names what the code gets wrong, and a
finding quotes the sentence that the exception contradicts:

- `ErrorPathsCleanButJson`, `LinksWorkButTranscripts`: the JSON export leaves its
  directory on an error; a transcript's path is registered unseen.
- `EveryLinkWorks`: for different videos only; the links of two equal videos share a file.
- `HeardUnlessLost`, `OnlyCheckedRuns`: the preflight does not allow the App Check
  header, so that pages of an allowed origin cannot send a token. A request without
  options makes two tools panic, which Recover answers with a code.
- `OnlyCheckedRuns` does not say that no tool runs for a page of an origin that is not
  allowed. CORS (`cors.go:28-33`) only withholds its header from such a page and passes the
  call on, and the handler decodes a body whatever its type (`router.go:77-78`): without App
  Check, a POST that a browser sends unasked, as text, is executed, and its answer kept from
  the page. The calls of the site's own pages declare JSON and are asked for first.
- `RequestFitsTool`: the chapter validator's page sends its text where the tool does not
  look; an offset from 2^63 on is no int to the tool, in digits or, from 1e21 on, with an
  exponent (`BeyondInt`). `AnswerFitsPage` says nothing of the chapter validator, whose
  requests are all refused: its page reads other fields than the tool gives, a finding.
- `ErrorMatchesText`: a paste that began before the field was touched.
- `ToolTakesWhatFormGave`, `FormGivesWhatToolTakes`: the links on which the regular
  expressions, which are not anchored, and the parser disagree, listed in `Sloppy` and
  `Uncommon` (among them `www.youtu.be`, `watch/?v=`, and handles that go on in
  characters outside of ASCII); all that the extractor's tool reads and its form for videos
  refuses; texts of 50,000 characters or fewer that have more bytes than that; white space
  alone, which the offset tool takes; chapter lists beyond the page's limit of 10,000.
- `GeneratorAgrees`: a new URL keeps the old links on the page. `LastChoiceShown`: a
  reader that is still at work at the next choice, or that fails. `NoRowLeftBehind`: a
  list that names a video twice, once it is sorted.
- `ShiftsAddUp`: blank lines are shown as parsed; a sum that leaves the int wraps around and
  is clamped to 0:00, or worse, is another timestamp.

### Bounds

`MaxTime` bounds the clock and the expiry of any entry; with lifetimes of one and two
ticks it leaves time to register before, between and after the expiries of two entries
and to sweep all of them. Two tokens and two paths are the least for one entry to be
swept while another is registered or read, two handlers for two GETs of one token. Three
goroutines for two local slots, and four calls for a pool of two, make some wait at either
semaphore while others hold it; three goroutines for two slots do so in
`BulkThumbnails`. In `RateLimiter` the burst is two, a bucket is refilled in two ticks and
may be evicted after three, so that buckets of one address succeed each other within the
clock; three buckets are the two in hand and one more. `MaxStall` bounds how long a
request lies between unlock and Allow: the code assumes less than the five minutes of
the eviction. `MaxRun` bounds the time that a bulk request takes, far less than the
lifetime of its links. In `RequestPipeline` two calls at a time share a budget of one.

Each of the forty inputs of the forms is one way in which form and tool agree or
differ; the proofs cover all
combinations of the features. `MaxUrls` of the list is 1 and
lists have up to two lines, so that one over the limit occurs; a line is valid, refused,
or blank. Two submissions on a visit (`MaxCalls`) are the least that overtake each other,
and two copies (`MaxCopies`) the least that race with a timer. `MaxUrls`, `MaxClicks` and
`MaxRows` of 3 let the generator have links of one URL while a second and a third are
looked up; three choices (`MaxChoices`) let two readers be late. Three videos and lists
of three (`MaxVideo`, `MaxListed`) contain a duplicate with a row between its two.
Lists of up to three chapters (`MaxLines`) have neighbours and a pair that is not, and an
offset of 15 s applied up to twice each way (`MaxShift` 30) crosses zero, the minute and
the hour from the lines of `MCSite`. `MaxInt` is 3640 there, so that some of these lines reach it
by a shift, or lie beyond it as typed.

Symmetry is used in store_safety, producers_safety and limiter_safety only, which have no
liveness property, over sets that no property tells apart.

### Fairness

- `DownloadStore`: goroutines that can run do run (weak fairness on the worker, on the
  steps of a handler after its lookup, on the clock). Lookup has strong fairness,
  since the worker takes the lock time and again: `sync.RWMutex` admits the readers that
  queued behind a writer before the next writer. Requests end, because of the 45 s context.
- `YtDlpClient`: timers fire, goroutines run. Nothing is assumed of yt-dlp, nor that
  `Acquire` ever wins. That a killed process lets go of its pipes is assumed only where
  `PipesOutlive` is FALSE, as in the run: `cmd.Run` has no WaitDelay, and
  would wait for a grandchild that keeps them open.
- `BulkFetch`: goroutines that can run do. Weak fairness is enough for the local
  semaphore, since each sibling takes it once, so that a slot that stays wanted stays free
  in the end.
- `BulkThumbnails`: a fetch ends, by its context and by the 5 s of its client. The steps
  of a goroutine have strong fairness: sends to the local semaphore are served in order,
  and Register gets the lock between two sweeps.
- `RequestPipeline`: the browser and the goroutines of the middlewares and of main run,
  and systemd restarts a failed unit. Nothing is assumed of a tool, of a crash, or of the
  process staying up; `EveryCallHeard` says that a call is waited for only while its tool
  is at work.
- `Site`: each call goes on (the token comes or fails, the response comes or the
  connection breaks, as the server's timeouts bound it) and the browser renders. Nothing is
  assumed of the user or the network; off line a mutation is paused.

## 4. The proofs

Each theorem is for every value of the constants that the module's assumption admits.

`DownloadStoreProofs` (`StoreAssumption`):

- `TypeCorrect`, `LiveTokensServable`, `FailuresExpired`, `NoFileUntracked`,
  `EntriesKeptUntilExpiry`, `RefusalsJustified`: the safety properties of store_safety and
  store_live, and that a 404 is justified although map and clock are read apart.
- `StoreImplementsLease`: the refinement, where no path is shared or phantom.

None of the properties is inductive. The invariant `IInv` adds: the worker's sample is
not in the future and its victim is an entry that was due at the sample (`WorkerInv`);
entries and running requests own disjoint directories and an entry that is not the
worker's victim has its file (`OwnershipInv`); every file has an owner that is not past
removing it (`TrackedInv`); a handler's copy is the entry in the map, or it has expired and
its token will never have an entry again (`CopyInv`). The last is what makes the
separate clock check in Get sound: an entry is immutable and its token is not reissued.
`InvStep` has a lemma per conjunct, each with a step per action. The refinement maps a
token to live, over or unissued by the map *and* the clock, so `Tick` is the step that
ends leases and `Forget` is a stutter.

`FileProducersProofs` (extends the above; `ProducersAssumption`): `ProducersUseStore` is the
refinement of `DownloadStore`, by which the lemmas about the store's own steps apply to the
producers too; with `StoreImplementsLease` it gives `ProducersKeepLease`, for tools other than
the transcript downloader (whose phantom path `ExclusiveFiles` leaves out).
`NeverHalfWritten`, `ErrorPathsClean` and `ProducerLinksWork` rest on an
invariant that says for each place of `Execute` what the request has on disk (`Job`), and
what the link of an entry leads to (`LinkInv`).

`YtDlpClientProofs` (`ClientAssumption`, `BulkFetchAssumption`): `TypeCorrect`,
`TokensConserved`, `ProcessesCapped`, `ReleasesNeverBlock`, `ClientImplementsPool`. The
inductive invariant is the conservation of tokens: those in the channel and those in hand
make up the cap. The lemmas relate each step to the cardinality of the set of holders.
`BulkUsesClient` shows that `BulkFetch` takes only steps of the client, where the
contexts of bulk requests outlive the calls of their goroutines; `BulkKeepsTokens` and `BulkKeepsPool`
follow. What the bulk tools add rests on an invariant that ties each goroutine to its request
and to its call (`FetchInv`): `BulkAnswersWhole` (an answer has each entry, and leaves no call
behind; the safety under `EveryBulkAnswered`), `BulkShareBounded` (a request fills no more of
the pool than its local semaphore lets in) and `BulkCallsAllowed` (no guard of the client
holds a goroutine up once it has its slot).

`RateLimiterProofs` (`LimiterAssumption`): `WindowsBounded`, `BucketsShared`,
`RefusalsJustified`. The argument is that of a token bucket: what an address was admitted
in a window and what its bucket holds now make up at most what the window is worth, and
exactly that for some window. An address without a bucket counts as one with a full one,
so the step of `Evict` has to show that the bucket has refilled, which is what
`EvictAfter` is for.

`RequestPipelineProofs` (`PipelineAssumption`): `CallersHear`, `OnlyCheckedCallsRun`,
`OnlySigtermStops`, `ServerStopsOnlyBySigterm`. The invariant says what is settled at each
place of the chain: by the browser before the call is sent, by CORS for the header, by
App Check for the token. A call that the browser asks about first is sent only after an
answer with the header, and without a token; so a tool that runs for a page of another origin
runs for an allowed one without App Check, or for a call that was not asked about.

`InputFormsProofs` (`FormsAssumption`): `ErrorsMatch`, `RefusedIsNotTaken`,
`GivesWhatIsTaken`. Expression and parser are compared for every combination of features;
the invariant ties the error to the text and to the paste under way, and what was handed
over to the check that let it through. The lines of a list are filtered by their places
among those that pass, and `CountedOff` shows that each place is taken, so that a filter
returns elements that pass.

`SiteProofs` (`PageAssumption`): `SiteShowsLastAsked`, `SiteTracksOnce`, `SiteAnswersFit`,
`SiteRequestsFit`. The contract is first shown slug by slug; an inductive invariant of one
page relates the mutation, the calls and what was rendered; then both are carried through
the router. The pages with a machine of their own each have an invariant, which the router
keeps by mounting the page afresh:

- `GeneratorAlwaysAgrees`: each mutation is of the URL and the click that it is said to be.
- `PreviewShowsLastChoice`: only the reader of the last choice is at work, unless disturbed.
- `NoRowEverLeft` (`TableAssumption`): the rows that are rendered are a shuffle of the
  answer, since the ranks of a strict total order are the places 1 to n (`RanksArePlaces`);
  hence rows that share a key in the table share a video in the answer.
- `ShiftsAlwaysAddUp`, `ValidatorAlwaysRight` (`ChapterAssumption`): each line descends from
  what was typed in its place by the sum of the offsets (`Descends`), while no sum has left
  the int. That rests on
  `RoundTrip`, that what `FormatFromSeconds` writes `ParseToSeconds` reads back as the same
  number. That neighbours ten seconds apart put all chapters ten seconds apart is an
  induction along the list, from the least counterexample (`Spaced`).
- `HomeAlwaysFollowsConfig`, `CardsAlwaysLead`, for any set `Configs`: the list under way is
  either all tools so far, or a selection in the order of the registry whose first part was
  shown for want of an answer (`GridInv`), and the second only once the module is
  initialized, so that no later call waits or fails. The sections keep that order as the
  tools of a category stand together in the registry (`RunsStay`).

`BulkThumbnailsProofs` (`BulkAssumption`: finitely many URLs, any videos and slots, and
requests shorter than the lifetime of a link):

- `BulkLinksWork`: in a list of different videos every link within its lifetime has its
  file. `OnlySharedLinksBreak` is for any list: only a link that shares its video can fail.
  `LinksWorkAtFirst` says when: not during the request, and not in the half hour from its
  start, since the worker takes nothing before the first expiry.
- `AnswersInFull` and `OneLinkEach`: each URL has its entry when the goroutines have been
  waited for, and one link if it succeeded; a link more is that of the archive.
- `LocalSemaphoreIsPool`: the local channel implements the abstract `BoundedPool`, as the
  channel of the client does.

The invariant says of each place of a goroutine what of its file is on disk and who may
remove it; a file of one URL has no entry before its goroutine registers it, and one after.

Only model-checked: the eight liveness properties (fairness and ENABLED are beyond the
prover). Every invariant, action property and refinement that the passing runs check is
stated by a theorem. The table, the
chapters, the grid and the filter of the list are written with sets, ranks and quantifiers
in place of the library's recursive operators so that they can be proved about.

## 5. Not modelled

- Transcript search, its filter and highlighting, and the filter of VTT lines in the
  transcript tools; sums, averages and rounding in `durationkit`; the fall from one
  thumbnail resolution to the next. Their requests and answers are in `ToolPages`.
- How a line is split into its timestamp and title, how identifiers are put into links.
- What only folds a part of a page in or out, the tabs of the mockups, exports made in the
  browser, analytics events of visits and downloads.
- Names and contents of archives, HTTP headers that change nothing, yt-dlp's arguments and output,
  logging, layout: formatting or other programs. Configuration is read once; its values are
  the CONSTANTS. nginx and CI are other programs' configuration.

Findings that no run shows: temp directories of expired files are never removed; the error
of a broken copy is ignored in the bulk thumbnails, and so are files that fail on their way into
an archive; the code `MISSING_SPACE` cannot be issued; the chapter validator's page reads
other fields than its tool gives; the list over its limit is not cut but refused.
Seen beside the modelling, and not among the findings:
files orphaned by a restart are never removed; lifetimes are 15, 20 and 30 minutes where
README 228 says 20; the codes `PLAYLIST_TOO_LARGE` and `TIMEOUT` (README 172) are never sent;
the transcript search builds a `RegExp` from the query as typed, which throws while
rendering for an incomplete expression; the content security policy's
`connect-src 'self'` does not let the pages it covers reach Firebase.

## 6. The plan

1. `DurationKit`: sums, averages and playing speeds over the playlist cap, against a
   reference definition.
2. `TranscriptTools`: the filter over VTT lines and the search over cues.
3. `ThumbnailTiers`: the fall through the resolutions, and what the label says of the file.
4. Proofs: the invariants of the modules above as they come; under each liveness property
   the safety it rests on, as `BulkAnswersWhole` does for `EveryBulkAnswered`.
