------------------------------ MODULE MCHomePage -------------------------------
(***************************************************************************)
(* HomePage with the registry as it is and four configurations: of nothing,*)
(* of all tools, of all but some, and of some of either.                   *)
(***************************************************************************)
EXTENDS HomePage

Tools == {toolsRegistry[n].slug : n \in DOMAIN toolsRegistry}
Hidden == {"transcript-downloader", "timestamp-generator", "timestamp-offset"}
Named == Hidden \cup {"youtube-url-cleaner", "chapter-validator"}

MCConfigs ==
  {[shows |-> {}, hides |-> {}],
   [shows |-> Tools \cup {"banner"}, hides |-> {}],
   [shows |-> Tools \ Hidden, hides |-> Hidden \cup {"banner"}],
   [shows |-> Named \ Hidden, hides |-> Hidden]}
================================================================================
