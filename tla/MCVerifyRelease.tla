---------------------------- MODULE MCVerifyRelease ----------------------------
(***************************************************************************)
(* Trees over versions of every form the mapping tells apart: plain, with  *)
(* each kind of prerelease, with zeros in the core or in the prerelease    *)
(* number, with parts too many or too few, with a word in the core, with   *)
(* build metadata; tags with and without their "v".                        *)
(***************************************************************************)
EXTENDS VerifyRelease

N(v) == [value |-> v, zeros |-> 0]

Padded(v) == [value |-> v, zeros |-> 1]

Word(w) == [word |-> w]

Num(n) == [numeral |-> n]

V(core, pre) == [core |-> core, hyphen |-> pre # <<>>, pre |-> pre, build |-> FALSE]

MCCore == <<Num(N(0)), Num(N(1)), Num(N(0))>>

MCGood ==
  {V(MCCore, <<>>), V(MCCore, <<Word("rc"), Num(N(1))>>),
   V(MCCore, <<Word("alpha"), Num(N(1))>>)}

MCVersions ==
  MCGood \cup
  {V(<<Num(Padded(0)), Num(N(1)), Num(N(0))>>, <<>>), V(<<Num(N(0)), Num(N(1))>>, <<>>),
   V(<<Word("v0"), Num(N(1)), Num(N(0))>>, <<>>),
   V(MCCore, <<Word("rc"), Num(Padded(1))>>), V(MCCore, <<Word("rc")>>),
   V(MCCore, <<Word("alpha"), Word("beta")>>), V(MCCore, <<Word("pre"), Num(N(1))>>),
   [V(MCCore, <<>>) EXCEPT !.build = TRUE]}

MCPeps == {RustToPep440(v) : v \in {u \in MCVersions : Maps(u)}}

MCTags ==
  {TagOf(v) : v \in MCGood} \cup {[prefix |-> "", version |-> V(MCCore, <<>>)]}

\* Manifests in every state; the lockfile missing, unreadable, without an entry
\* for the crate, with one, or with two.
MCTrees ==
  [cargo : {Missing, NotText, Unreadable} \cup {Declares(v) : v \in MCVersions},
   py : {Missing, NotText, Unreadable} \cup {Declares(v) : v \in MCGood},
   pyproject : {Missing, NotText, Unreadable} \cup {Declares(p) : p \in MCPeps},
   named : BOOLEAN,
   lock : {Missing, NotText, Unreadable, Declares(<<>>)}
            \cup {Declares(<<v>>) : v \in MCVersions}
            \cup {Declares(<<v, V(MCCore, <<>>)>>) : v \in MCGood}]
=============================================================================
