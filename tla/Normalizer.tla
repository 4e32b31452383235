------------------------------ MODULE Normalizer ------------------------------
(***************************************************************************)
(* The normal form of a URL, which is the name under which the crawler     *)
(* knows a page: RunNormalizationPipeline in                               *)
(* internal/scraper/normalizer/normalizeFunctions.go with the rules of     *)
(* normalizerRules.go.                                                     *)
(*                                                                         *)
(* The program computes; what varies is how the authors of web pages spell *)
(* a link.  So the state is a page, named by one URL of it, and a link to  *)
(* it that is respelled one step at a time.  A path is the sequence of the *)
(* segments after its first "/": <<>> is the empty path, a last segment    *)
(* that is empty is a trailing "/".  Left out: percent-encoding, IPv6, a   *)
(* parameter that is given twice, and what url.Parse refuses.              *)
(***************************************************************************)
EXTENDS Integers, Sequences, SequencesExt

CONSTANTS
  Words,        \* what the segments of a path are made of, without ".git" or "index.html"
  BannedWords,  \* those that begin with a word of bannedGitPaths
  LocaleWords,  \* those of the form xx-yy
  DottedWords,  \* those with a dot in them
  Params,       \* the parameters of queries
  Tracking,     \* those whose key is utm_source, utm_medium, utm_campaign, ref or fbclid
  Fragments,    \* fragments that are not empty
  LineNumbers,  \* those that rxGitFragment matches: 10, L10, L10-L20
  PlainHosts,   \* hosts that are not one of GitHosts
  NumberHosts,  \* those that are IPv4 addresses
  Pages,        \* different pages, each by its shortest URL
  MaxRespelled  \* bound: how many steps away from it a link is

ASSUME WordAssumption ==
  /\ BannedWords \union LocaleWords \union DottedWords \subseteq Words
  /\ Words \intersect {"", ".", ".."} = {}
ASSUME ParamAssumption ==
  /\ Tracking \subseteq Params
  /\ LineNumbers \subseteq Fragments /\ "" \notin Fragments
ASSUME HostAssumption == NumberHosts \subseteq PlainHosts

-----------------------------------------------------------------------------
(* Segments.  A tail is what a segment ends in: ".git", or the name of an  *)
(* index file, which is a tail too ("myindex.html").                       *)
Tails == {"", "git", "index"}

Segment == [word : Words \union {"", ".", ".."}, upper : BOOLEAN, tail : Tails]

Plain(word) == [word |-> word, upper |-> FALSE, tail |-> ""]
Nothing == Plain("")

GitHosts == {"github.com", "gitlab.com", "bitbucket.org"}

Url == [scheme : {"http", "https"}, user : BOOLEAN,
        sub : {"", "www.", "gist."}, host : GitHosts \union PlainHosts,
        upper : BOOLEAN, zeros : BOOLEAN, port : {"", "80", "443", "8080"},
        path : Seq(Segment), query : Seq(Params), fragment : Fragments \union {""}]

EndsInSlash(path) == path # <<>> /\ Last(path) = Nothing

-----------------------------------------------------------------------------
(* isGitHost looks at the host as it is written, in lower case but with    *)
(* its port and its "www.".                                                *)
isGitHost(u) ==
  /\ u.port = ""
  /\ \/ u.sub = "" /\ u.host \in GitHosts
     \/ u.sub # "" /\ u.host \in {"github.com", "gitlab.com"}

(* path.Clean of a rooted path.                                            *)
CleanStep(done, segment) ==
  CASE segment.word = ".."               -> IF done = <<>> THEN done ELSE Front(done)
    [] segment \in {Nothing, Plain(".")} -> done
    [] OTHER                             -> Append(done, segment)

Cleaned(path) ==
  LET done[n \in 0..Len(path)] ==
        IF n = 0 THEN <<>> ELSE CleanStep(done[n - 1], path[n])
  IN done[Len(path)]

CleanKeepsSlash(path) ==
  IF Cleaned(path) = <<>> \/ Last(path) = Nothing
  THEN Append(Cleaned(path), Nothing) ELSE Cleaned(path)

Clean(path) == IF Cleaned(path) = <<>> THEN <<Nothing>> ELSE Cleaned(path)

(* q.Del of each tracking parameter, and q.Encode, which sorts by key.     *)
CleanQuery(query) == SetToSeq(ToSet(query) \ Tracking)

DefaultPort(u) == \/ u.scheme = "http" /\ u.port = "80"
                  \/ u.scheme = "https" /\ u.port = "443"

BaseNormalizer(u) ==
  [u EXCEPT !.upper = FALSE,
            !.zeros = FALSE,
            !.sub = IF @ = "www." THEN "" ELSE @,
            !.port = IF DefaultPort(u) THEN "" ELSE @,
            !.path = IF @ = <<>> THEN @ ELSE Clean(@),
            !.query = CleanQuery(@)]

(* A path with "/" and a banned word anywhere in it is dropped whole.      *)
IsBanned(path) ==
  \E i \in DOMAIN path : path[i].word \in BannedWords /\ ~path[i].upper

(* rxGitExtension at the end of the path, then TrimRight of every "/".     *)
WithoutGit(path) ==
  IF path = <<>> THEN path
  ELSE [path EXCEPT ![Len(path)].tail = IF @ = "git" THEN "" ELSE @]

TrimSlash(path) ==
  LET kept == {n \in 0..Len(path) : n = 0 \/ path[n] # Nothing}
  IN SubSeq(path, 1, CHOOSE n \in kept : \A m \in kept : m <= n)

GitPath(path) == IF IsBanned(path) THEN <<>> ELSE TrimSlash(WithoutGit(path))

GitNormalizerNoLines(u) ==
  [u EXCEPT !.scheme = "https",
            !.user = FALSE,
            !.path = GitPath(@),
            !.fragment = ""]

GitNormalizer(u) ==
  [u EXCEPT !.scheme = "https",
            !.user = FALSE,
            !.path = GitPath(@),
            !.fragment = IF @ \in LineNumbers THEN @ ELSE ""]

(* rxLocalePrefix asks for a "/" after the locale.                         *)
WithoutLocale(path) ==
  IF Len(path) > 1 /\ path[1].word \in LocaleWords /\ path[1].tail = ""
  THEN Tail(path) ELSE path

WithoutIndex(path) ==
  IF path = <<>> THEN path
  ELSE [path EXCEPT ![Len(path)].tail = IF @ = "index" THEN "" ELSE @]

LowerCase(path) == [i \in DOMAIN path |-> [path[i] EXCEPT !.upper = FALSE]]

(* path.Base of the empty path is ".", which has a dot.                    *)
WithSlashAgain(path) ==
  IF path = <<>> \/ Last(path).tail # "" \/ Last(path).word \in DottedWords
  THEN path ELSE Append(path, Nothing)

WithSlash(path) ==
  IF \/ path = <<>> \/ EndsInSlash(path)
     \/ Last(path).tail # "" \/ Last(path).word \in DottedWords
  THEN path ELSE Append(path, Nothing)

DocsPath(path) == WithSlash(WithoutIndex(LowerCase(WithoutLocale(path))))

DocsNormalizer(u) == [u EXCEPT !.path = DocsPath(@), !.query = <<>>]

(* The second rule is chosen before the first has run.                     *)
RunNormalizationPipeline(u) ==
  IF isGitHost(u) THEN GitNormalizer(BaseNormalizer(u)) ELSE DocsNormalizer(BaseNormalizer(u))

-----------------------------------------------------------------------------
(* The shortest URL of a page has nothing in it that the rules of its host *)
(* take away.                                                              *)
Shortest(u) ==
  /\ ~u.upper /\ ~u.zeros /\ u.sub # "www." /\ ~DefaultPort(u)
  /\ \A i \in DOMAIN u.path : u.path[i].word \in Words
  /\ u.query = CleanQuery(u.query)

ShortestOnGit(u) ==
  /\ isGitHost(u)
  /\ u.scheme = "https" /\ ~u.user
  /\ u.path # <<>> => Last(u.path).tail # "git"
  /\ u.fragment \in LineNumbers \union {""}

ShortestElsewhere(u) ==
  /\ \A i \in DOMAIN u.path : ~u.path[i].upper
  /\ u.path # <<>> => u.path[1].word \notin LocaleWords
  /\ u.query = <<>> /\ u.fragment = ""

ASSUME PageAssumption ==
  /\ Pages \subseteq Url
  /\ \A p \in Pages :
       /\ Shortest(p)
       /\ IF p.host \in GitHosts THEN ShortestOnGit(p) ELSE ShortestElsewhere(p)
=============================================================================
