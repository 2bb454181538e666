---------------------------- MODULE MCProviders ----------------------------
(* Instance of Providers for TLC: a popular name of four letters and one   *)
(* of ten, two maintainers, repositories that differ or only look so.      *)
EXTENDS Providers, TLC

MCPopular   == {<<"a", "b", "c", "b">>, <<"c", "a", "b", "a", "a", "b", "c", "a", "b", "c">>}
MCLetters   == {"b", "-", "alpha"}
MCLookalike == "alpha" :> "a"
MCAdjacent  == {<<"b", "c">>}

Meta(by, owners, repo, signed) ==
    [by |-> by, owners |-> owners, repo |-> repo, signed |-> signed]
Repo(scheme, path) == [scheme |-> scheme, path |-> path]

MCPublications ==
    {Meta("ann", {"ann"}, Repo("https", "home"), TRUE), Meta("ann", {"ann"}, Repo("git+https", "home"), TRUE),
     Meta("bob", {"ann", "bob"}, Repo("https", "home"), TRUE),
     Meta(NoOne, {}, NoRepo, TRUE), Meta("ann", {"ann"}, Repo("https", "fork"), FALSE)}

Reply(kind, stale, vulns) == [kind |-> kind, stale |-> stale, vulns |-> vulns]
Record(marks, fixed)      == [marks |-> marks, fixed |-> fixed]
MCAdvisories ==
    {Reply("failed", FALSE, {}), Reply("no vulns key", FALSE, {}), Reply("ok", TRUE, {}),
     Reply("ok", FALSE, {Record({}, TRUE)}),
     Reply("ok", FALSE, {Record({"alias"}, FALSE), Record({}, TRUE)})}
=============================================================================
