----------------------------- MODULE MCInputForms ------------------------------
(***************************************************************************)
(* InputForms with one input for each way in which the forms and the       *)
(* backend treat a text alike or apart.                                    *)
(***************************************************************************)
EXTENDS InputForms

At(h, l) == [l EXCEPT !.host = h]
V(l, v) == [l EXCEPT !.v = v]
List(l, x) == [l EXCEPT !.list = x]
Slashed(l) == [l EXCEPT !.slash = TRUE]
After(l) == [l EXCEPT !.lead = "odd"]
Watch == Link("watch", "none")

MCInputs ==
  {Word(w) : w \in {"blank", "videoId", "playlistId", "channelId", "handle",
                    "otherWord"}}
  \cup {V(Watch, l) : l \in {"exact", "long", "short", "unseen", "escaped"}}
  \cup {Slashed(V(Watch, "exact")), After(V(Watch, "exact")),
        V(Link("root", "none"), "exact"), V(Slashed(Link("root", "none")), "exact"),
        List(Link("root", "none"), "exact")}
  \cup {List(V(Watch, "exact"), "exact"), List(Link("playlist", "none"), "long"),
        List(Link("playlist", "none"), "exact")}
  \cup {At("YouTube.com", V(Watch, "exact")), At("other", Link("shorts", "exact")),
        At("youtube.com+", V(Watch, "exact"))}
  \cup {At("youtu.be", Link("id", l)) : l \in {"exact", "long", "escaped"}}
  \cup {At("www.youtu.be", Link("id", "exact")),
        At("youtu.be", Slashed(Link("id", "exact")))}
  \cup {Link(p, "exact") : p \in {"shorts", "embed", "e", "v", "nested",
                                 "channel", "c", "@"}}
  \cup {Link("user", "foreign"), Link("@", "short"), Link("@", "long"),
        Link("c", "short"),
        V(Link("watch_popup", "none"), "exact")}

MCLines ==
  {Word("blank"), Word("videoId"), Word("otherWord"), V(Watch, "exact"),
   V(Watch, "short"), V(Watch, "misnamed"), Slashed(V(Watch, "exact")),
   Link("v", "exact"), Link("shorts", "exact")}
================================================================================
