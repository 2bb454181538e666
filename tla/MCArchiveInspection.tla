------------------------ MODULE MCArchiveInspection ------------------------
(* Instance of ArchiveInspection for TLC.                                  *)
EXTENDS ArchiveInspection

Plain(p, size) == [path |-> p, abs |-> FALSE, type |-> "reg", link |-> <<>>, linkAbs |-> FALSE,
                   size |-> size, manifest |-> NoManifest]
Linked(type, p, target) == [Plain(p, 0) EXCEPT !.type = type, !.link = target]
PackageJSON(p, size, m) == [Plain(p, size) EXCEPT !.manifest = m]

Hook(name, len, at) == [name |-> name, len |-> len, at |-> at]
Json(text, valid, hooks, gyp) ==
    [text |-> text, valid |-> valid, scripts |-> hooks, gypfile |-> gyp]

MCEntries ==
    {Plain(<<"f">>, 1), Plain(<<"d", "f">>, 3), Plain(<<"d", ".", "f">>, 0), Plain(<<"g">>, 4),
     Plain(<<"d", "e", "f">>, 1), Plain(<<"d", "..", "f">>, 1), Plain(<<"..", "f">>, 1),
     [Plain(<<"f">>, 1) EXCEPT !.abs = TRUE],
     Plain(<<"x.tgz">>, 1), [Plain(<<"x.tgz">>, 0) EXCEPT !.type = "dir"],
     Plain(<<"binding.gyp">>, 1),
     Linked("symlink", <<"d", "s">>, <<"f">>), Linked("symlink", <<"d", "s">>, <<"..", "f">>),
     Linked("symlink", <<"s">>, <<"d", "..", "f">>), Linked("link", <<"h">>, <<"f">>),
     Linked("link", <<"d", "h">>, <<"d", "..", "..", "f">>),
     [Linked("link", <<"h">>, <<"f">>) EXCEPT !.linkAbs = TRUE],
     PackageJSON(<<"package.json">>, 2, Json(2, TRUE, {}, FALSE)),
     PackageJSON(<<"package.json">>, 2, Json(2, FALSE, {Hook("install", 1, 1)}, FALSE)),
     PackageJSON(<<"package.json">>, 3, Json(3, TRUE, {Hook("install", 1, 1)}, FALSE)),
     PackageJSON(<<"package.json">>, 3, Json(2, TRUE, {}, TRUE)),
     PackageJSON(<<"package.json">>, 2,
                 Json(2, TRUE, {Hook("install", 2, 2), Hook("prepare", 1, 0), Hook("test", 3, 1)}, FALSE)),
     PackageJSON(<<"package.json">>, 2,
                 Json(2, TRUE, {Hook("install", 3, 3), Hook("prepare", 1, 1)}, FALSE)),
     PackageJSON(<<"package.json">>, 2,
                 Json(2, TRUE, {Hook("install", 1, 1), Hook("preinstall", 1, 0), Hook("prepare", 1, 0)}, FALSE)),
     PackageJSON(<<"d", "package.json">>, 1, Json(1, TRUE, {Hook("postinstall", 1, 1)}, FALSE))}
=============================================================================
