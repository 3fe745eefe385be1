------------------------------ MODULE MCEngine ------------------------------
(* Trees and command lines for TLC.                                        *)
EXTENDS Engine

Registered == <<"trivy", "osv", "opengrep", "trufflehog">>

(* The identifiers 1 and 2 are CVEs, 11 and 12 are not.                    *)
CVEs == {1, 2}

Segments ==
  <<"*.egg-info", "..cache", "/", "a.min.js", "a.pem", "app", "build", "env", "go.mod",
    "go.sum", "home", "k.pem", "main.go", "node_modules", "other", "pkg.egg-info",
    "vendor", "x.min.js">>

Wilds == {"*.egg-info", "*.min.js", "[ab].pem"}

Expansion ==
  [w \in Wilds |-> CASE w = "*.egg-info" -> {"pkg.egg-info"}
                     [] w = "*.min.js" -> {"a.min.js", "x.min.js"}
                     [] w = "[ab].pem" -> {"a.pem"}]

Home == <<"/", "home", "app">>

InBuild == <<"/", "home", "build">>

Elsewhere == <<"/", "other">>

-----------------------------------------------------------------------------
Mod(eco, version) == [ecosystem |-> eco, name |-> "net", version |-> version]

Rec(rule, aliases, category, grade, note, path, line, tokens, layout, package, fixedIn) ==
  [rule |-> rule, aliases |-> aliases, category |-> category, grade |-> grade,
   note |-> note, path |-> path, line |-> line,
   snippet |-> [tokens |-> tokens, layout |-> layout], package |-> package,
   fixedIn |-> fixedIn]

Vuln(rule, aliases, grade, path, eco, version, fixedIn) ==
  Rec(rule, aliases, "vulnerability", grade, "", path, 0, "", "", Mod(eco, version), fixedIn)

License(grade, note, path) ==
  Rec(21, {}, "license", grade, note, path, 0, "", "", Mod("npm", "1"), "")

Code(grade, note, path, line, tokens, layout) ==
  Rec(31, {}, "code", grade, note, path, line, tokens, layout, NoPackage, "")

Secret(rule, grade, note, path, tokens) ==
  Rec(rule, {}, "secret", grade, note, path, 7, tokens, "", NoPackage, "")

(* Two tools agree on an advisory under two names and grade it apart; a    *)
(* match moves down its file and is reformatted, one is suppressed; a      *)
(* secret is live, another only lies in a lockfile.                        *)
Plain ==
  [trivy |-> <<Vuln(1, {}, "HIGH", <<"go.mod">>, "gomod", "v1", "v2"),
               License("LOW", "restricted", <<"node_modules", "app">>),
               License("LOW", "notice", <<"vendor", "app">>),
               Secret(41, "MEDIUM", "", <<"node_modules", "env">>, "key")>>,
   osv |-> <<Vuln(11, {1}, 98, <<"go.mod">>, "Go", "1", ""),
             Vuln(12, {}, 0, <<"go.mod">>, "Go", "1", "2")>>,
   opengrep |-> <<Code("ERROR", "", <<"main.go">>, 3, "exec", " "),
                  Code("INFO", "", <<"main.go">>, 9, "exec", "  "),
                  Code("ERROR", "ignored", <<"app", "main.go">>, 1, "exec", "")>>,
   trufflehog |-> <<Secret(51, "verified", "", <<"app", "k.pem">>, "key"),
                    Secret(51, "dead", "", <<"go.sum">>, "hash")>>]

(* Files and directories whose names the exclusions have to tell apart.    *)
Named ==
  [trivy |-> <<Secret(41, "HIGH", "", <<"env">>, "token"),
               Vuln(1, {}, "MEDIUM", <<"..cache", "go.mod">>, "gomod", "v1", "")>>,
   osv |-> <<Vuln(11, {1, 2}, 50, <<"..cache", "go.mod">>, "Go", "1", "v2")>>,
   opengrep |-> <<Code("WARNING", "", <<"env">>, 2, "eval", ""),
                  Code("WARNING", "", <<"x.min.js", "main.go">>, 2, "eval", ""),
                  Code("EXPERIMENT", "", <<"main.go">>, 2, "eval", "")>>,
   trufflehog |-> <<Secret(51, "failed", "", <<"a.pem">>, "key"),
                    Secret(51, "failed", "unplaced", <<"env">>, "key"),
                    Secret(51, "dead", "", <<"env">>, "token")>>]

Works == [state |-> "works", version |-> "odd"]

Installed == [s \in Tools |-> Works]

Outdated == [Installed EXCEPT !["trivy"].version = "old", !["osv"].state = "broken"]

OnlyOne ==
  [s \in Tools |-> IF s = "trufflehog" THEN Works ELSE [Works EXCEPT !.state = "missing"]]

Usual ==
  [reports |-> Plain, root |-> Home, machine |-> Installed, config |-> Nothing,
   replace |-> FALSE, user |-> {}, licenses |-> TRUE, verify |-> FALSE,
   min |-> 0, failOn |-> NoThreshold]

User(form, name) == [form |-> form, name |-> name]

Tried ==
  <<Usual,
   [Usual EXCEPT !.min = 4, !.failOn = 5, !.verify = TRUE],
   [Usual EXCEPT !.replace = TRUE, !.licenses = FALSE, !.min = 2, !.failOn = 4,
                 !.config = [dirs |-> {"vendor"}, files |-> {"k.pem"}]],
   [Usual EXCEPT !.reports = Named, !.user = {User("", "[ab].pem"), User("", "app")}],
   [Usual EXCEPT !.reports = Named, !.root = InBuild, !.machine = Outdated,
                 !.user = {User("file:", "env"), User("dir:", "*.egg-info")},
                 !.verify = TRUE, !.failOn = 3],
   [Usual EXCEPT !.machine = OnlyOne, !.failOn = 1]>>
=============================================================================
