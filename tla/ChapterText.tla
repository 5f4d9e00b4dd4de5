------------------------------ MODULE ChapterText ------------------------------
(***************************************************************************)
(* A list of chapters on its way through the tools for it: it is typed,    *)
(* shifted, the output copied and shifted again, and given to the chapter  *)
(* validator.                                                              *)
(*                                                                         *)
(* A line is what its leading word is, as the numbers between the colons,  *)
(* and its title.  The leading word of a line without a timestamp is <<>>; *)
(* without a title too, the line is blank.                                 *)
(*                                                                         *)
(* Seconds are Go's int: a number above the largest is no number, and a    *)
(* sum above it wraps around to a negative one, or to another timestamp.   *)
(***************************************************************************)
EXTENDS Integers, Sequences, FiniteSets

CONSTANTS
  Lines,    \* the lines that are typed
  Offsets,  \* the offsets, in seconds
  MaxInt,   \* the largest int
  MaxLines, \* bound: lines in the text
  MaxShift  \* bound: seconds by which it is shifted in all

ASSUME ChapterAssumption ==
  /\ Lines \subseteq [stamp : Seq(Nat), title : STRING]
  /\ MaxInt \in Nat
  /\ Offsets \subseteq 1 .. MaxInt
  /\ MaxLines \in Nat \ {0} /\ MaxShift \in Nat

VARIABLES
  text,    \* the lines in the field
  typed,   \* the lines as they were typed (for the properties only)
  net,     \* seconds added since then, and subtracted
  clamped, \* a timestamp was cut off at 0:00 on the way
  wrapped  \* a sum left the int on the way (for the properties only)

chapterVars == <<text, typed, net, clamped, wrapped>>

Blank(line) == line.stamp = <<>> /\ line.title = ""

--------------------------------------------------------------------------------
(***************************************************************************)
(* timestampkit                                                            *)
(***************************************************************************)

Fits(x) == x \in -(MaxInt + 1) .. MaxInt

\* What an int has of a sum.
Wrap(x) ==
  IF Fits(x) THEN x
  ELSE ((x + MaxInt + 1) % (2 * (MaxInt + 1))) - (MaxInt + 1)

\* Only the first number of a timestamp may be above 59.
Reads(stamp) ==
  /\ Len(stamp) \in 1 .. 3
  /\ \A n \in DOMAIN stamp : stamp[n] <= MaxInt
  /\ \A n \in DOMAIN stamp \ {1} : stamp[n] <= 59

\* The seconds of a timestamp that reads.
Total(stamp) ==
  CASE Len(stamp) = 1 -> stamp[1]
    [] Len(stamp) = 2 -> stamp[1] * 60 + stamp[2]
    [] Len(stamp) = 3 -> stamp[1] * 3600 + stamp[2] * 60 + stamp[3]

ParseToSeconds(stamp) == Wrap(Total(stamp))

\* Mutant of FormatFromSeconds: the minutes are all of them.
FormatFromSecondsAll(secs) ==
  IF secs >= 3600
  THEN <<secs \div 3600, secs \div 60, secs % 60>>
  ELSE <<secs \div 60, secs % 60>>

FormatFromSeconds(secs) ==
  IF secs >= 3600
  THEN <<secs \div 3600, (secs % 3600) \div 60, secs % 60>>
  ELSE <<secs \div 60, secs % 60>>

Parses(line) == Reads(line.stamp)
Seconds(line) == ParseToSeconds(line.stamp)

--------------------------------------------------------------------------------
(***************************************************************************)
(* The timestamp offset                                                    *)
(***************************************************************************)

\* A sum below 0:00 is 0:00, also one that wrapped around.
Moved(secs, by) == IF Wrap(secs + by) < 0 THEN 0 ELSE Wrap(secs + by)

\* The title stays, and so does a line that does not parse.
Shifted(line, by) ==
  IF ~Parses(line) THEN line
  ELSE [line EXCEPT !.stamp = FormatFromSeconds(Moved(Seconds(line), by))]

\* What the tool says of a text.
unparsedCount(lines) ==
  Cardinality({n \in DOMAIN lines : ~Parses(lines[n]) /\ ~Blank(lines[n])})

\* What its page makes of that, under "Lines Parsed".
linesParsed(lines) == Len(lines) - unparsedCount(lines)

--------------------------------------------------------------------------------
(***************************************************************************)
(* The chapter validator                                                   *)
(***************************************************************************)

\* The numbers of the lines that become chapters.
Chapters(lines) == {n \in DOMAIN lines : Parses(lines[n])}

Issue(n, type) == [line |-> n, type |-> type]

\* Line by line.  A duplicate is one of an earlier line that was the first with
\* its timestamp, or title; MISSING_SPACE never comes, as a timestamp that parses
\* ends at a space.
LineIssues(lines) ==
  LET before(n) == {m \in 1 .. n - 1 : Parses(lines[m])}
      ofLine(n) ==
        IF ~Parses(lines[n]) THEN {"INVALID_FORMAT"}
        ELSE {t \in {"EMPTY_TITLE", "DUPLICATE_TIMESTAMP", "DUPLICATE_TITLE"} :
                \/ t = "EMPTY_TITLE" /\ lines[n].title = ""
                \/ /\ t = "DUPLICATE_TIMESTAMP"
                   /\ \E m \in before(n) : Seconds(lines[m]) = Seconds(lines[n])
                \/ /\ t = "DUPLICATE_TITLE" /\ lines[n].title # ""
                   /\ \E m \in before(n) : lines[m].title = lines[n].title}
  IN UNION {{Issue(n, t) : t \in ofLine(n)} :
              n \in {k \in DOMAIN lines : ~Blank(lines[k])}}

\* The chapters m and n, with no other between them.
Follows(m, n, chapters) ==
  m < n /\ \A k \in chapters : k <= m \/ k >= n

First(n, chapters) == \A k \in chapters : k >= n

TooClose(secs, prev) == prev < secs /\ Wrap(secs - prev) < 10

\* Mutant of ChapterIssues: each chapter is compared with the first.
ChapterIssuesFirst(lines) ==
  LET c == Chapters(lines)
      secs(n) == Seconds(lines[n])
      beside(n) == {secs(m) : m \in {k \in c : First(k, c) /\ k < n}}
  IN {Issue(n, "MISSING_START") : n \in {k \in c : First(k, c) /\ secs(k) # 0}}
     \cup {Issue(n, "OUT_OF_ORDER") :
             n \in {k \in c : \E p \in beside(k) : secs(k) < p}}
     \cup {Issue(n, "TOO_CLOSE") :
             n \in {k \in c : \E p \in beside(k) : TooClose(secs(k), p)}}

\* Each chapter beside the one before it.
ChapterIssues(lines) ==
  LET c == Chapters(lines)
      secs(n) == Seconds(lines[n])
      beside(n) == {secs(m) : m \in {k \in c : Follows(k, n, c)}}
  IN {Issue(n, "MISSING_START") : n \in {k \in c : First(k, c) /\ secs(k) # 0}}
     \cup {Issue(n, "OUT_OF_ORDER") :
             n \in {k \in c : \E p \in beside(k) : secs(k) < p}}
     \cup {Issue(n, "TOO_CLOSE") :
             n \in {k \in c : \E p \in beside(k) : TooClose(secs(k), p)}}

Issues(lines) == LineIssues(lines) \cup ChapterIssues(lines)

--------------------------------------------------------------------------------

ChapterInit ==
  /\ text = <<>> /\ typed = <<>> /\ net = 0
  /\ clamped = FALSE /\ wrapped = FALSE

ChapterMounts ==
  /\ text' = <<>> /\ typed' = <<>> /\ net' = 0
  /\ clamped' = FALSE /\ wrapped' = FALSE

\* A line more in the field, below what is there; only then is it as typed.
typeLine ==
  /\ Len(text) < MaxLines /\ net = 0 /\ text = typed
  /\ \E line \in Lines :
       /\ text' = Append(text, line)
       /\ wrapped' = (wrapped \/ (Parses(line) /\ ~Fits(Total(line.stamp))))
  /\ typed' = text'
  /\ UNCHANGED <<net, clamped>>

\* A submission that is answered, Copy Output, and a paste in place of the text.
shift ==
  /\ text # <<>>
  /\ \E o \in Offsets : \E by \in {o, -o} :
       /\ net + by \in -MaxShift .. MaxShift
       /\ net' = net + by
       /\ text' = [n \in DOMAIN text |-> Shifted(text[n], by)]
       /\ clamped' = (clamped \/ \E n \in DOMAIN text :
                                   Parses(text[n]) /\ Seconds(text[n]) + by < 0)
       /\ wrapped' = (wrapped \/ \E n \in DOMAIN text :
                                   Parses(text[n]) /\ ~Fits(Seconds(text[n]) + by))
  /\ UNCHANGED typed

ChapterNext == typeLine \/ shift

--------------------------------------------------------------------------------
\* However often a list is shifted there and back, each line has its timestamp and
\* the sum of the offsets, in whichever form it is written by then; a list that
\* was cut off at 0:00 on the way is never behind that.  The exception is a sum
\* that left Go's int, which is lost without an error.  No line that is none of
\* a chapter becomes one.  The page counts the blank lines among those parsed.
ShiftsAddUp ==
  /\ \A n \in DOMAIN text :
       /\ text[n].title = typed[n].title
       /\ Parses(text[n]) <=> Parses(typed[n])
       /\ ~Parses(text[n]) => text[n] = typed[n]
       /\ Parses(text[n]) /\ ~wrapped =>
            /\ ~clamped => Seconds(text[n]) = Total(typed[n].stamp) + net
            /\ Seconds(text[n]) >= Total(typed[n].stamp) + net
  /\ linesParsed(text) = Cardinality(Chapters(text))
                         + Cardinality({n \in DOMAIN typed : Blank(typed[n])})

\* The rules, for any two chapters and not for neighbours only: all lines are
\* chapters with titles of their own, the first is at 0:00, and each is ten
\* seconds or more behind all before it.
GoodChapters(lines) ==
  LET chapters == {n \in DOMAIN lines : ~Blank(lines[n])}
  IN \A n \in chapters :
       /\ Parses(lines[n]) /\ lines[n].title # ""
       /\ (\A m \in chapters : m >= n) => Seconds(lines[n]) = 0
       /\ \A m \in chapters : m < n =>
            /\ Seconds(lines[n]) >= Seconds(lines[m]) + 10
            /\ lines[n].title # lines[m].title

\* The validator, which looks at neighbours and at what it has seen before, finds
\* an issue exactly in the lists that the rules refuse, for the seconds that it
\* has of a line, wrapped around or not; and a good list stays good when it is
\* shifted, but for its start, unless a timestamp was cut off at 0:00 or wrapped.
ValidatorIsRight ==
  /\ Issues(text) = {} <=> GoodChapters(text)
  /\ Issues(typed) = {} /\ ~clamped /\ ~wrapped =>
       \A i \in Issues(text) : i.type = "MISSING_START"
================================================================================
