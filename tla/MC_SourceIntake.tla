-------------------------- MODULE MC_SourceIntake --------------------------
(* An arXiv feed and an RSS feed that list the same work under two forms of  *)
(* its link, and an entry without link; two invocations a day, two days.     *)
EXTENDS SourceIntake, TLC

CONSTANTS p1, p2

MCHttps == [http |-> "https", https |-> "https"]
MCFeed(id, kind, enabled) == [id |-> id, kind |-> kind, url |-> "public",
                              enabled |-> enabled]
MCConfigs == {<<MCFeed("a", "arxiv", TRUE), MCFeed("b", "rss", TRUE)>>,
              <<MCFeed("a", "arxiv", TRUE), MCFeed("b", "rss", FALSE)>>,
              <<MCFeed("a", "arxiv", TRUE), MCFeed("a", "rss", TRUE)>>}
Entry(url, id, text) == [url |-> url, id |-> id, text |-> text]
MCListings == [a |-> {{Entry("http", None, 1)}, {Entry("http", None, 2)}},
               b |-> {{Entry("https", None, 1), Entry(None, "x", 1)}}]
Symmetry == Permutations(Procs)
=============================================================================
