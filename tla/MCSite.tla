-------------------------------- MODULE MCSite ---------------------------------
(***************************************************************************)
(* Site with all of the tool pages.                                        *)
(***************************************************************************)
EXTENDS Site

MCAllPages == Slugs

\* Lines with 0:00, 0:09, 10, 59:50, from which a shift leads beyond the hour,
\* 1:00:05, and 0:60, which is none; a line of text, and a blank one.  Of an int
\* up to 3640: 1:00:35, which a shift leads beyond, 122:00, which is 38 then, and
\* 3641, which is none.
MCLines ==
  {[stamp |-> x[1], title |-> x[2]] : x \in
     {<<<<0, 0>>, "a">>, <<<<0, 0>>, "">>, <<<<0, 9>>, "b">>, <<<<10>>, "b">>,
      <<<<10>>, "c">>, <<<<59, 50>>, "b">>, <<<<59, 50>>, "a">>,
      <<<<1, 0, 5>>, "c">>, <<<<0, 60>>, "b">>, <<<<>>, "a">>, <<<<>>, "">>,
      <<<<1, 0, 35>>, "d">>, <<<<122, 0>>, "d">>, <<<<3641>>, "a">>}}
================================================================================
