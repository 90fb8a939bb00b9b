--------------------------- MODULE MCScanService ---------------------------
(* Two releases of a project, one name that ScanRequest refuses, and jobs in *)
(* which the path and the URL of a file differ, a list holds what cannot be  *)
(* scanned, pip chooses a release that is not the newest, and commands run   *)
(* in their own process and through the server.                              *)
EXTENDS ScanService

CONSTANTS r1, r2, bad

TwoClients  == {"c1", "c2"}
AllReleases == {r1, r2, bad}
BadNames    == {bad}
NewestOf    == [r \in AllReleases |-> IF r = r1 THEN r2 ELSE r]

Pinned(r) == [release |-> r, pin |-> TRUE]
Open(r)   == [release |-> r, pin |-> FALSE]
Job(command, remote, wants, url, force) ==
  [command |-> command, remote |-> remote, wants |-> wants, url |-> url,
   yes |-> FALSE, force |-> force]
File(path, url)              == Job("file", TRUE, <<Pinned(path)>>, url, FALSE)
Shell_(command, remote, wants) == Job(command, remote, wants, Odd, FALSE)

\* The server's clients, and commands of a shell.
Post      == Job("post", TRUE, <<Pinned(r1)>>, Odd, FALSE)
CheckFile == Shell_("check-file", TRUE, <<Open(r2), Pinned(r1), Pinned(r2)>>)
Forced    == Job("guard", TRUE, <<Pinned(r2)>>, Odd, TRUE)
SomeJobs ==
  [c1 |-> {Post, CheckFile, Forced,
           Shell_("check", FALSE, <<Open(r1)>>), Shell_("install", TRUE, <<Open(r1)>>),
           Shell_("check-file", FALSE, <<Pinned(r1), Pinned(bad)>>),
           Shell_("guard", FALSE, <<Open(Odd), Open(r1)>>)},
   c2 |-> {Post, Forced, File(r1, r1), File(r1, r2), File(r1, Elsewhere),
           File(Odd, Odd), File(bad, bad)}]
=============================================================================
