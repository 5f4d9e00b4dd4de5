------------------------------ MODULE ResultTable ------------------------------
(***************************************************************************)
(* The table of the page of the bulk metadata extractor: the rows of the   *)
(* answer, the order that the user clicked, and what React makes of the    *)
(* document when rows with keys change places.                             *)
(*                                                                         *)
(* A video is a number that stands for its title too.  Three of the seven  *)
(* columns are kept: the one without ties, one of text and one of numbers. *)
(***************************************************************************)
EXTENDS Naturals, Sequences, FiniteSets

CONSTANTS
  MaxVideo,  \* bound: the videos are 1 .. MaxVideo
  MaxListed  \* bound: lines in the list that is submitted

ASSUME TableAssumption == MaxVideo \in Nat \ {0} /\ MaxListed \in Nat

VARIABLES
  videos,   \* mutation.data.videos, empty while the panel shows no result
  sortKey, sortAsc,
  rendered, \* the rows that React knows of, in order
  left      \* rows that it left in the document and has forgotten

tableVars == <<videos, sortKey, sortAsc, rendered, left>>

SortKeys == {"index", "title", "viewCount"}

\* What the extractor answers for the line n: the metadata of its video, or an
\* error, and then all but index, video and URL have their zero value.
Answer(n, video, failed) ==
  [index |-> n, videoId |-> video,
   title |-> IF failed THEN 0 ELSE video,
   viewCount |-> IF failed THEN 0 ELSE MaxVideo + 1 - video]

Answers ==
  UNION {{s \in [1 .. n -> {Answer(m, v, f) : m \in 1 .. n, v \in 1 .. MaxVideo,
                                              f \in BOOLEAN}] :
            \A m \in 1 .. n : s[m].index = m} : n \in 0 .. MaxListed}

TableInit ==
  /\ videos = <<>> /\ sortKey = "index" /\ sortAsc = TRUE
  /\ rendered = <<>> /\ left = {}

TableMounts ==
  /\ videos' = <<>> /\ sortKey' = "index" /\ sortAsc' = TRUE
  /\ rendered' = <<>> /\ left' = {}

--------------------------------------------------------------------------------

\* A row has its place behind those that come before it.  The sort is stable: rows
\* that compare equal stay in the order of the answer.
sorted(rows, key, asc) ==
  LET before(a, b) ==
        IF a[key] = b[key] THEN a.index < b.index
        ELSE IF asc THEN a[key] < b[key] ELSE a[key] > b[key]
      place(n) == 1 + Cardinality({m \in DOMAIN rows : before(rows[m], rows[n])})
  IN [n \in DOMAIN rows |-> rows[CHOOSE m \in DOMAIN rows : place(m) = n]]

\* Mutant of rowKey: rows that failed have the same key.
rowTitle(row) == row.title

\* Every line has a video, as the extractor's Validate lets no other through.
rowKey(row) == row.videoId

\* React keeps the rows up to the first key that differs.  It puts those after
\* it into a map by their keys, reuses what it finds there and removes the rest of
\* the map: a row whose key comes again after it is not in the map, and stays in
\* the document.
Forgotten(old, new) ==
  LET differs == {n \in DOMAIN old : rowKey(old[n]) # rowKey(new[n])}
  IN {n \in DOMAIN old :
        /\ \E d \in differs : d <= n
        /\ \E m \in DOMAIN old : m > n /\ rowKey(old[m]) = rowKey(old[n])}

\* An answer.  While it was pending the panel had no table, so that its document
\* is new; the order that was clicked is still there.
tableAnswered ==
  /\ \E rows \in Answers :
       /\ videos' = rows
       /\ rendered' = sorted(rows, sortKey, sortAsc)
  /\ left' = {}
  /\ UNCHANGED <<sortKey, sortAsc>>

\* A submission that is pending, or that failed.
tableGone ==
  /\ videos # <<>>
  /\ videos' = <<>> /\ rendered' = <<>> /\ left' = {}
  /\ UNCHANGED <<sortKey, sortAsc>>

\* A click on a heading of the table, and the rendering after it.
handleSort ==
  /\ videos # <<>>
  /\ \E key \in SortKeys :
       /\ sortKey' = key
       /\ sortAsc' = IF key = sortKey THEN ~sortAsc ELSE TRUE
  /\ rendered' = sorted(videos, sortKey', sortAsc')
  /\ left' = left \cup {rendered[n] : n \in Forgotten(rendered, rendered')}
  /\ UNCHANGED videos

TableNext == tableAnswered \/ tableGone \/ handleSort

--------------------------------------------------------------------------------
\* However the table is sorted, it has the rows of the answer and no others; but
\* for a list with a video in it twice, whose rows have one key.
NoRowLeftBehind ==
  left # {} => \E m, n \in DOMAIN videos :
                 m # n /\ videos[m].videoId = videos[n].videoId
================================================================================
