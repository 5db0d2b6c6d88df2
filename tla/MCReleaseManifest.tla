------------------------- MODULE MCReleaseManifest -------------------------
(***************************************************************************)
(* Small instances of ReleaseManifest and Versions for TLC.                *)
(***************************************************************************)
EXTENDS ReleaseManifest

\* Versions of one to four numbers up to 2, of two parts in every form, the
\* empty one and one of five parts.
MCSamples ==
  LET plain(n) == [1..n -> {Number(i) : i \in 0..2}]
      mixed(n) == [1..n -> [num : 0..1, form : Forms]]
  IN  UNION {plain(n) : n \in 0..4} \cup mixed(1) \cup mixed(2)
      \cup {[i \in 1..5 |-> Number(1)]}

One == <<Number(1)>>
OneOne == <<Number(1), Number(1)>>
\* "1.1.1-rc" is newer than "1.1", and as old as "1.1.1".
OneOneOne == <<Number(1), Number(1), [num |-> 1, form |-> "suffixed"]>>
MCReleases == {One, OneOne, OneOneOne}

MCPlatforms == {"android", "ios"}
MCHeaders == {"android", "ios", "ipad", "web"}
=============================================================================
