------------------------------- MODULE UrlForms --------------------------------
(***************************************************************************)
(* What people type into the URL forms of the frontend, and who accepts    *)
(* it.  The frontend checks an input with regular expressions that are not *)
(* anchored; the backend parses the same string as a URL.  An input is a   *)
(* record of the features that tell the two apart:                         *)
(*   bare: a string with no slash or question mark, by what it is;         *)
(*   url:  <host>/<path>/<id>?v=<v>&list=<list>, each part but the host    *)
(*         optional.                                                       *)
(* Left out, as neither side has a rule of its own for them: percent       *)
(* escapes that are malformed or outside of an identifier, characters that *)
(* a host cannot have, slashes inside a parameter, two links in one        *)
(* string, and the few characters that only one of trim and                *)
(* strings.TrimSpace counts as space.                                      *)
(***************************************************************************)
EXTENDS Naturals

Bare == [form : {"bare"},
         is : {"blank", "videoId", "playlistId", "channelId", "handle",
               "otherWord"}]

\* "odd": something before the host gives the backend another host than the one
\* that the expressions find (HTTPS:// in capitals, words, a link around it).
Leads == {"plain", "odd"}

\* youtube.com with any subdomain, youtu.be; with capitals; with a subdomain that
\* the short host does not have; going on after its name (a port, more labels).
Hosts == {"youtube.com", "YouTube.com", "youtube.com+",
          "youtu.be", "YouTu.be", "www.youtu.be", "other"}

\* "root": nothing; "id": the identifier alone, or any single segment; "other":
\* one segment that nobody knows and the identifier, "nested": several.
Paths == {"root", "watch", "watch_popup", "playlist", "id", "other", "nested",
          "shorts", "embed", "e", "v", "channel", "c", "user", "@"}

NoId == {"root", "watch", "watch_popup", "playlist"}

\* An identifier by the characters allowed in it that it begins with: as many as
\* it should have and nothing else ("exact"), or more ("long"), fewer ("short"),
\* none ("foreign"); or it is right but for a percent escape ("escaped"), which
\* leaves an expression too few to see.
Lengths == {"none", "short", "exact", "long", "foreign", "escaped"}

\* A parameter has besides a right value that the backend does not get, after a
\* wrong one or with no question mark before it ("unseen"); or a name that only
\* ends in that of the parameter ("misnamed").
Values == Lengths \cup {"unseen", "misnamed"}

\* slash: a slash follows the path, and perhaps one more short word.  watch_popup
\* would be an identifier, by its eleven characters, on the short hosts.
Urls == {u \in [form : {"url"}, lead : Leads, host : Hosts, path : Paths,
                slash : BOOLEAN, id : Lengths, v : Values, list : Values] :
           /\ u.path \in NoId => u.id = "none"
           /\ u.path = "watch_popup" =>
                u.host \notin {"youtu.be", "YouTu.be", "www.youtu.be"}}

\* youtube.com/<path>/<id>, the parameters missing
Link(path, id) == [form |-> "url", lead |-> "plain", host |-> "youtube.com",
                   path |-> path, slash |-> FALSE, id |-> id,
                   v |-> "none", list |-> "none"]
Word(is) == [form |-> "bare", is |-> is]

IsUrl(i) == i.form = "url"
IsWord(i, words) == i.form = "bare" /\ i.is \in words

--------------------------------------------------------------------------------
(***************************************************************************)
(* The frontend.  A regular expression without an anchor does not mind     *)
(* what comes before the host or after an identifier, and finds the right  *)
(* parameter anywhere.                                                     *)
(***************************************************************************)

Begins(l) == l \in {"exact", "long", "unseen"}
ShortHost(i) == i.host \in {"youtu.be", "www.youtu.be"}

\* Mutant of validateVideoUrl: without the path of a player.
validateVideoUrlShort(i) ==
  \/ IsWord(i, {"videoId"})
  \/ /\ IsUrl(i)
     /\ \/ i.host = "youtube.com" /\ i.path = "watch" /\ Begins(i.v)
        \/ ShortHost(i) /\ i.path = "id" /\ Begins(i.id)
        \/ i.path = "shorts" /\ Begins(i.id)

validateVideoUrl(i) ==
  \/ IsWord(i, {"videoId"})
  \/ /\ IsUrl(i)
     /\ \/ /\ i.host = "youtube.com"
           /\ \/ i.path \in {"nested", "v", "e", "embed"} /\ Begins(i.id)
              \/ Begins(i.v) /\ (i.path # "root" \/ i.slash)
        \/ ShortHost(i) /\ i.path = "id" /\ Begins(i.id)
        \/ i.path = "shorts" /\ Begins(i.id)

validatePlaylistUrl(i) ==
  \/ IsWord(i, {"playlistId", "channelId"})  \* 24 characters are 18 to 34
  \/ IsUrl(i) /\ Begins(i.list)

validateChannelUrl(i) ==
  \/ IsWord(i, {"channelId", "handle"})
  \/ /\ IsUrl(i) /\ i.host = "youtube.com"
     /\ \/ i.path = "channel" /\ Begins(i.id)
        \/ i.path \in {"c", "user", "@"} /\ i.id \in {"short", "exact", "long"}

validateUrl(i, type) ==
  CASE type = "video"    -> validateVideoUrl(i)
    [] type = "playlist" -> validatePlaylistUrl(i)
    [] type = "channel"  -> validateChannelUrl(i)

\* The lines of the bulk form have a check of their own.
validateYouTubeUrl(i) ==
  \/ IsWord(i, {"videoId"})
  \/ /\ IsUrl(i)
     /\ \/ /\ i.host = "youtube.com" /\ i.path = "watch"
           /\ ~i.slash /\ i.v # "none"
        \/ ShortHost(i) /\ i.path = "id" /\ Begins(i.id)
        \/ /\ i.host = "youtube.com" /\ i.path \in {"shorts", "embed"}
           /\ Begins(i.id)

--------------------------------------------------------------------------------
(***************************************************************************)
(* The backend lowers the host, parses path and query, and compares whole  *)
(* identifiers.                                                            *)
(***************************************************************************)

OnYouTube(i) == /\ IsUrl(i) /\ i.lead = "plain"
                /\ i.host \in {"youtube.com", "YouTube.com", "youtube.com+"}
OnShortener(i) == /\ IsUrl(i) /\ i.lead = "plain"
                  /\ i.host \in {"youtu.be", "YouTu.be"}
Whole(l) == l \in {"exact", "escaped"}

ExtractVideoID(i) ==
  \/ IsWord(i, {"videoId"})
  \/ OnShortener(i) /\ i.path = "id" /\ ~i.slash /\ Whole(i.id)
  \/ /\ OnYouTube(i)
     /\ \/ i.path \in {"shorts", "embed", "v"} /\ Whole(i.id)
        \/ i.path \in {"watch", "watch_popup"} /\ ~i.slash /\ Whole(i.v)

ExtractPlaylistID(i) ==
  \/ IsWord(i, {"playlistId", "channelId"})
  \/ OnYouTube(i) /\ Whole(i.list)

ExtractChannelValue(i) ==
  \/ IsWord(i, {"channelId", "handle"})
  \/ /\ OnYouTube(i)
     /\ \/ i.path \in {"channel", "@"} /\ Whole(i.id)
        \/ i.path \in {"c", "user"} /\ i.id # "none"

\* The tool of youtube-id-extractor is content with any of them.
ExtractAny(i) ==
  ExtractVideoID(i) \/ ExtractPlaylistID(i) \/ ExtractChannelValue(i)

\* What the tools behind the forms read from their URL.  The page of
\* youtube-id-extractor has the form of a video.
Takes(i, kind) ==
  CASE kind \in {"video", "bulk"} -> ExtractVideoID(i)
    [] kind = "extractor"         -> ExtractAny(i)
    [] kind = "playlist"          -> ExtractPlaylistID(i)
    [] kind = "channel"           -> ExtractChannelValue(i)

formType(kind) == IF kind = "extractor" THEN "video" ELSE kind

--------------------------------------------------------------------------------
(***************************************************************************)
(* Where the two part.                                                     *)
(***************************************************************************)

\* An input that the form of a kind is generous about and the backend is not:
\* something before the host, or a host that the link does not belong to.
\* In a video, besides: a slash or a path too many; more after the identifier than
\* should be there, or a v that is not the first one or not that of a watch page;
\* and in the bulk form anything after v=.
\* In a playlist: more after the identifier, or a list that is not the first one.
\* In a channel: more after the identifier, or a handle of one or two characters.
Sloppy(i, kind) ==
  /\ IsUrl(i)
  /\ \/ i.lead = "odd" \/ i.host \in {"www.youtu.be", "other"}
     \/ /\ kind \in {"video", "extractor", "bulk"}
        /\ \/ /\ i.host \in {"youtu.be", "YouTu.be"}
              /\ i.path # "id" \/ i.slash
           \/ i.path \in {"e", "nested"} \/ i.id = "long"
           \/ i.v \in {"long", "unseen"}
           \/ /\ i.v # "none"
              /\ i.path \notin {"watch", "watch_popup"} \/ i.slash
           \/ kind = "bulk" /\ i.v \in {"short", "foreign", "misnamed"}
     \/ /\ kind = "playlist"
        /\ i.list \in {"long", "unseen"} \/ i.host \in {"youtu.be", "YouTu.be"}
     \/ /\ kind = "channel"
        /\ i.id = "long" \/ (i.path = "@" /\ i.id = "short")

\* An input that the form of a kind rejects although its tool reads it: a host in
\* capitals or with more after it, an escaped identifier, a custom name that begins
\* outside of ASCII; in the bulk form the older links to a player; and what the
\* extractor reads that is no video.
Uncommon(i, kind) ==
  \/ /\ IsUrl(i)
     /\ \/ i.host \in {"YouTube.com", "YouTu.be", "youtube.com+"}
        \/ "escaped" \in (IF kind = "playlist" THEN {i.list} ELSE {i.id, i.v})
        \/ kind = "channel" /\ i.id = "foreign"
        \/ kind = "bulk" /\ i.path \in {"v", "watch_popup"}
  \/ kind = "extractor" /\ ~ExtractVideoID(i)
================================================================================
