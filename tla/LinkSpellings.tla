----------------------------- MODULE LinkSpellings -----------------------------
(***************************************************************************)
(* One page and the many ways to write a link to it, which the normal form *)
(* of Normalizer should see as one URL (README.md:145: "URL normalization  *)
(* before hashing and comparing the hash with existing").  Each step       *)
(* respells the link in a way that leads to the same page: what is meant   *)
(* by the same page is read off the rules themselves, which drop the very  *)
(* things that are added here.                                             *)
(***************************************************************************)
EXTENDS Normalizer

VARIABLES
  page,   \* the page, by its shortest URL
  link,   \* the URL in the link
  steps   \* bound: what is left of MaxRespelled

vars == <<page, link, steps>>

Init ==
  /\ page \in Pages
  /\ link = page
  /\ steps = MaxRespelled

OnGit == page.host \in GitHosts

Insert(path, i, segments) == SubSeq(path, 1, i) \o segments \o SubSeq(path, i + 1, Len(path))

Respelled(url) ==
  /\ steps > 0
  /\ url # link
  /\ link' = url
  /\ steps' = steps - 1
  /\ UNCHANGED page

-----------------------------------------------------------------------------
(* The host.                                                               *)
UpperHost == Respelled([link EXCEPT !.upper = TRUE])
ZeroPad == link.host \in NumberHosts /\ Respelled([link EXCEPT !.zeros = TRUE])
AddWww == /\ link.sub = "" /\ link.host \notin NumberHosts
          /\ Respelled([link EXCEPT !.sub = "www."])
AddPort == /\ link.port = ""
           /\ Respelled([link EXCEPT !.port = IF link.scheme = "http" THEN "80" ELSE "443"])

(* The path, on every host.                                                *)
AddSlash == ~EndsInSlash(link.path) /\ Respelled([link EXCEPT !.path = Append(@, Nothing)])

Detours == {<<Nothing>>, <<Plain(".")>>} \union {<<Plain(w), Plain("..")>> : w \in Words}

AddDetour ==
  \E i \in 0..(Len(link.path) - 1), detour \in Detours :
    /\ ~ \E n \in DOMAIN link.path : link.path[n].word \in {".", ".."}
    /\ Respelled([link EXCEPT !.path = Insert(@, i, detour)])

(* Query and fragment.                                                     *)
AddTracking ==
  \E p \in Tracking \ ToSet(link.query), i \in 0..Len(link.query) :
    Respelled([link EXCEPT !.query = InsertAt(@, i + 1, p)])
SwapQuery == Respelled([link EXCEPT !.query = Reverse(@)])
AddFragment ==
  /\ link.fragment = ""
  /\ \E f \in Fragments \ LineNumbers : Respelled([link EXCEPT !.fragment = f])

(* On a host of repositories.                                              *)
OtherScheme == /\ OnGit /\ link.port = ""
               /\ Respelled([link EXCEPT !.scheme = "http"])
AddUser == OnGit /\ Respelled([link EXCEPT !.user = TRUE])
AddGit == /\ OnGit /\ Len(page.path) > 1 /\ Last(page.path).tail = "" /\ link.path = page.path
          /\ Respelled([link EXCEPT !.path[Len(link.path)].tail = "git"])

(* On every other host.                                                    *)
AddQuery ==
  /\ ~OnGit
  /\ \E p \in Params \ ToSet(link.query) : Respelled([link EXCEPT !.query = Append(@, p)])
UpperPath ==
  /\ ~OnGit
  /\ \E i \in DOMAIN link.path :
       /\ link.path[i].word \in Words
       /\ Respelled([link EXCEPT !.path[i].upper = TRUE])
AddLocale ==
  /\ ~OnGit /\ link.path # <<>>
  /\ \E w \in LocaleWords :
       /\ \A i \in DOMAIN link.path : link.path[i].word \notin LocaleWords
       /\ Respelled([link EXCEPT !.path = <<Plain(w)>> \o @])
IndexFile == [Nothing EXCEPT !.tail = "index"]
AddIndex ==
  /\ ~OnGit /\ IndexFile \notin ToSet(link.path)
  /\ page.path # <<>> => Last(page.path).tail = ""
  /\ Respelled([link EXCEPT !.path = IF EndsInSlash(@) THEN Append(Front(@), IndexFile)
                                    ELSE Append(@, IndexFile)])

Next ==
  \/ UpperHost \/ ZeroPad \/ AddWww \/ AddPort
  \/ AddSlash \/ AddDetour
  \/ AddTracking \/ SwapQuery \/ AddFragment
  \/ OtherScheme \/ AddUser \/ AddGit
  \/ AddQuery \/ UpperPath \/ AddLocale \/ AddIndex

Spec == Init /\ [][Next]_vars

-----------------------------------------------------------------------------
Key(url) == RunNormalizationPipeline(url)

(* The spellings that the rules do not undo.  A host of repositories is    *)
(* not seen as one when it is written with a port, or as www.bitbucket.org;*)
(* fragments stay on the other hosts; so does the "/" of a bare host, and  *)
(* the missing "/" of a directory with a dot in its name.                  *)
OtherRules == isGitHost(link) # isGitHost(page)
FragmentStays == ~isGitHost(link) /\ link.fragment # page.fragment
RootHasTwoForms == ~isGitHost(link) /\ page.path = <<>> /\ link.path # <<>>
DotHidesDirectory ==
  /\ page.path # <<>> /\ Last(page.path).word \in DottedWords
  /\ IndexFile \in ToSet(link.path)

Escapes == OtherRules \/ FragmentStays \/ RootHasTwoForms \/ DotHidesDirectory

(* The rules of other hosts append a "/" to the path, which no page on a   *)
(* host of repositories ends in - but not to the empty path, nor to a name *)
(* with a dot in it.  That can be the key of the page itself after all, or *)
(* of another one.                                                         *)
NoSlashByOtherRules ==
  OtherRules /\ (page.path = <<>> \/ Last(page.path).word \in DottedWords)

(* However a link to a page is spelled, the crawler knows it by the key of *)
(* the page, so the page is crawled once; and the spellings above give a   *)
(* second key, under which it is crawled again (NoSlashByOtherRules is the *)
(* only case in which they may not).  README.md:134 says of all fragments  *)
(* that they are removed.                                                  *)
SpellingsMeet ==
  /\ ~Escapes => Key(link) = Key(page)
  /\ Escapes => Key(link) # Key(page) \/ NoSlashByOtherRules

(* A link leads to no page but its own: two pages with one key would be    *)
(* crawled as one and the other never.  The rules themselves take every    *)
(* page with a banned word for the front page, and a file whose name ends  *)
(* in "index.html" for the rest of its name.                               *)
Blurred(url) ==
  \/ isGitHost(url) /\ IsBanned(url.path)
  \/ url.path # <<>> /\ Last(url.path).tail = "index" /\ Last(url.path).word # ""

PagesApart ==
  \A q \in Pages :
    Key(link) = Key(q) => q = page \/ Blurred(q) \/ Blurred(page) \/ NoSlashByOtherRules

(* A page that links to itself by the very URL it was crawled under is not *)
(* discovered as another page, not even if that URL is a second key of it  *)
(* - unless the first pass hides from the second which rules apply, or     *)
(* leaves a "/" that the second removes.  Two passes settle all of them.   *)
KeyIsStable ==
  LET key == Key(link)
  IN /\ Key(key) = key \/ OtherRules \/ DotHidesDirectory
     /\ Key(Key(key)) = Key(key)
=============================================================================
