--------------------------- MODULE LinkRouterCheck ---------------------------
(***************************************************************************)
(* The router of LinkRouter checked against the routing table of the spec  *)
(* (section 4.4) over every bounded command.  The state is the command's   *)
(* head (category, slash, path words); each property quantifies over every *)
(* parameter combination, so one state stands for 4536 commands.           *)
(***************************************************************************)
EXTENDS LinkRouter

VARIABLE head

\* Path word sequences of length 1 or 2: "/" followed by at least one word
\* (a trailing "/" gives the empty word, which is "other" here).
PathSeqs == [1..1 -> PathWords] \cup [1..2 -> PathWords]

Heads == [cat : Categories, slash : {FALSE}, parts : {<< >>}]
           \cup [cat : Categories, slash : {TRUE}, parts : PathSeqs]

UrlLists == {<< >>} \cup [1..1 -> {"web", "file"}] \cup [1..2 -> {"web", "file"}]

Params == [title : {"absent", "empty", "text"}, artist : {"absent", "empty", "text"},
           album : {"absent", "empty", "text"}, url : UrlLists,
           xspf : {"absent", "text"}, jspf : {"absent", "text"},
           type : {"absent", "text"}, spotifyURI : {"absent", "empty", "text"}]

Cmd(h, p) == [cat |-> h.cat, slash |-> h.slash, parts |-> h.parts, params |-> p]

Init == head \in Heads

\* Every head is visited from the initial states; the step only stutters.
Next == UNCHANGED head

Spec == Init /\ [][Next]_head

-----------------------------------------------------------------------------
(* Properties.                                                             *)

\* The spec's required parameters of each effect (section 4.4), except
\* PlayTrack, which RoutingTableHonoured states.
RequiredFor(e, c) ==
    CASE e \in {"importXspf"} -> Has(c, "xspf")
      [] e = "importJspf" -> Has(c, "jspf")
      [] e = "newPlaylist" -> Has(c, "title")
      [] e \in {"station", "autoplaylist"} -> Has(c, "title") /\ Has(c, "type")
      [] e = "search" -> \E k \in {"artist", "album", "title"} : Has(c, k)
      [] e = "queueTrack" -> \E k \in {"artist", "album", "title"} : NonEmpty(c, k)
      [] e = "queueUrl" -> Has(c, "url")
      [] e \in {"queueSpotify", "playSpotify"} -> Has(c, "spotifyURI")
      [] OTHER -> TRUE

\* No handler reached from parseTomahawkLink starts an import, a playlist, a
\* station, a search or a queue insertion without the parameters the spec
\* requires for it.
RequiredParamsEnforced ==
    \A p \in Params : RequiredFor(ParseTomahawkLink(Cmd(head, p)).effect, Cmd(head, p))

\* The routing table of spec 4.4 and the legacy aliases of spec 6, for the
\* entries the required parameters do not cover: a bookmark link reaches
\* handleBookmarkCommand (the bookmarks playlist), load?xspf=<url> starts an
\* import, a track is played only when the link names a title, artist or
\* album (a service URI goes to playSpotify), and a queue/open command with
\* urls and no track fields builds one query per web url (doQueueAdd).
RoutingTableHonoured ==
    \A p \in Params :
        LET c == Cmd(head, p)
            r == ParseTomahawkLink(c)
        IN  /\ head.cat = "bookmark" => r.effect \in {"bookmark", "none"}
            /\ head.cat = "load" /\ Has(c, "xspf") => r.effect = "importXspf"
            /\ r.effect = "playTrack" => \E k \in {"artist", "album", "title"} : Has(c, k)
            /\ r.result /\ r.effect \in {"queueUrl", "none"} /\ Has(c, "url")
                   => r.items = WebUrls(c)

\* Spec 7: every entry point returns a success/failure indicator; the
\* boolean parseTomahawkLink returns is true exactly when an effect started.
ResultReportsEffect ==
    \A p \in Params : LET r == ParseTomahawkLink(Cmd(head, p))
                      IN  r.result = (r.effect # "none")

=============================================================================
