------------------------------ MODULE MCBench ------------------------------
(***************************************************************************)
(* Bench for TLC: two runs of one second, or of one output directory, over *)
(* two archives and three samples, one of them a bundle with a link in it, *)
(* one behind a link.                                                      *)
(***************************************************************************)
EXTENDS Bench

F(d) == [kind |-> "file", data |-> d, size |-> 1]
D == [kind |-> "dir", data |-> "none", size |-> 0]
L == [kind |-> "link", data |-> "none", size |-> 0]

\* Archive "z1" holds the bundle App with a file and a link; "z2" a file x,
\* and behind the link l a file.
MCContents ==
    ("z1" :> (<<"App">> :> D @@ <<"App", "bin">> :> F("m") @@ <<"App", "l">> :> L))
    @@ ("z2" :> (<<"x">> :> F("x") @@ <<"l">> :> L @@ <<"l", "y">> :> F("y")))

S(id, archive, sha, member, kind, digest, scope, expected) ==
    [id |-> id, archive |-> archive, archiveSha |-> sha, member |-> member, kind |-> kind,
     digests |-> IF IsBundle(kind) THEN {"tree"} ELSE {"file"}, digest |-> digest, bytes |-> 1,
     scope |-> scope, category |-> IF scope = "out" THEN "apt" ELSE "stealer", expected |-> expected]

App(digest) == S("app", 1, "z1", <<"App">>, "app", {<<<<"bin">>, digest>>}, "in", NoOutcome)
X(digest, scope, expected) == S("x", 2, "z2", <<"x">>, "macho", {<<<<>>, digest>>}, scope, expected)
Y == S("y", 2, "z2", <<"l", "y">>, "macho", {<<<<>>, "y">>}, "in", NoOutcome)

\* The committed manifest; one that expects something of x and has another
\* digest for the bundle; one with a sample behind a link, that is not found;
\* one whose members nest.
MCSamples ==
    ("committed" :> <<App("m"), X("x", "out", NoOutcome)>>)
    @@ ("other" :> <<App("m2"), X("x", "in", [rec |-> 2, comp |-> 0, files |-> 0])>>)
    @@ ("linked" :> <<X("x", "in", NoOutcome), Y>>)
    @@ ("nested" :> <<X("x", "in", NoOutcome), [X("x", "in", NoOutcome) EXCEPT !.id = "y"]>>)

R(id, rec, comp) == [path |-> <<"store", id, "f">>, rec |-> rec, comp |-> comp]

\* Nothing printed, one file, or two of which one is incomplete.
MCFindings == [i \in {"app", "x", "y"} |->
    {<<>>, <<R(i, 2, 0)>>, <<R(i, 0, 0)>>, <<R(i, 2, 0), R(i, 1, 1)>>, <<R(i, 0, 0), R(i, 1, 2)>>}]

Run(new, manifest, given, keep) ==
    [new |-> new, base |-> "c0", manifest |-> manifest, given |-> given, keep |-> keep]

\* The first keeps its VM or names a manifest; the second takes its
\* directory from the second, as the first, or from the command line.
MCRequests == [r \in Runs |-> IF r = "r1"
    THEN {Run("c1", "committed", FALSE, TRUE), Run("c1", "other", FALSE, FALSE)}
    ELSE {Run("c2", "committed", FALSE, FALSE)}]
=============================================================================
