------------------------------- MODULE MCDownload -------------------------------
(* Small sets of URLs for Download. *)
EXTENDS Download

w == Char("word")
slash == Char("/")
space == Char(" ")
colon == Char(":")

\* Every text of at most two characters after the scheme ...
Short2 ==
  BoundedSeq({w, slash, colon, Char("."), Char("-"), Char("nonascii"), space, Num(80)}, 2)

\* ... and longer ones: authorities with and without a port that fits, and paths.
Authorities ==
  {<<w>>, <<w, Char("."), w>>, <<w, Char("-"), w>>, <<w, colon, Num(8080)>>,
   <<w, colon, Num(40000)>>, <<w, colon, Char("-"), Num(80)>>, <<w, colon>>,
   <<space, w, space, Char("."), space, colon, space, Num(80)>>, <<w, colon, Char("-"), space, Num(80)>>}
Paths ==
  {<<>>, <<slash, w>>, <<slash, w, slash, Num(1)>>, <<slash, Num(1), Char("?"), w>>,
   <<slash, w, Char("nonascii"), w>>, <<slash, w, space, slash, space>>}

MCUrls ==
  [scheme : {"http"}, text : Short2]
    \cup [scheme : {"http", "https"}, text : {a \o p : a \in Authorities, p \in Paths}]
    \cup [scheme : {"other"}, text : {<<w>>}]

=============================================================================
