---------------------------- MODULE MCLinkSpellings ----------------------------
(***************************************************************************)
(* A small instance of LinkSpellings for TLC.                              *)
(***************************************************************************)
EXTENDS LinkSpellings, TLC

SomeWords == {"repo", "docs", "networkx", "en-us", "v1.2"}

At(host, words) ==
  [scheme |-> "https", user |-> FALSE, sub |-> "", host |-> host, upper |-> FALSE,
   zeros |-> FALSE, port |-> "", path |-> [i \in DOMAIN words |-> Plain(words[i])],
   query |-> <<>>, fragment |-> ""]

(* The root of a site, pages of documentation, one with a dot in its name, *)
(* one with a locale further down, a file and the page it is mistaken for, *)
(* the front page of a host of repositories with and without a query, a    *)
(* repository with and without a query and at a line, one that looks like  *)
(* a banned path, and two with a dot that the rules of other hosts take for*)
(* one.                                                                    *)
SomePages ==
  {At("docs.dev", <<>>), At("docs.dev", <<"docs">>), At("docs.dev", <<"repo", "docs">>),
   At("docs.dev", <<"docs", "v1.2">>), At("docs.dev", <<"docs", "en-us">>),
   [At("docs.dev", <<"docs">>) EXCEPT !.path[1].tail = "index"],
   At("10.0.0.1", <<"repo">>),
   At("github.com", <<>>), [At("github.com", <<>>) EXCEPT !.query = <<"tab">>],
   At("github.com", <<"repo", "docs">>),
   [At("github.com", <<"repo", "docs">>) EXCEPT !.query = CleanQuery(<<"tab", "q">>)],
   [At("github.com", <<"repo", "docs">>) EXCEPT !.fragment = "L10"],
   At("github.com", <<"repo", "networkx">>),
   At("github.com", <<"repo", "v1.2">>), At("github.com", <<"en-us", "repo", "v1.2">>),
   [At("github.com", <<"repo", "docs">>) EXCEPT !.sub = "gist."],
   At("bitbucket.org", <<"repo", "docs">>)}
=============================================================================
