------------------------------- MODULE Limits -------------------------------
(* The limits on what is read: the download of an artifact, its extraction,  *)
(* and the body of a request to the server.  What is read comes in pieces,   *)
(* and what is said of its size beforehand need not be so.                   *)
EXTENDS Integers, SequencesExt

CONSTANTS MAX_ARTIFACT_BYTES, MAX_MEMBERS, MAX_UNCOMPRESSED_BYTES, MAX_BODY_BYTES

Unsaid == -1      \* no content-length; a size of 0 in PyPI's JSON says nothing either

Total(sizes) == FoldLeft(LAMBDA sum, size : sum + size, 0, sizes)

-----------------------------------------------------------------------------
(* download: what is held when it ends, and how it ends.                     *)

Refused(held) == [held |-> held, ok |-> FALSE]

KeepsAll(transfer, chunk) == [transfer EXCEPT !.held = @ + chunk]
Receives(transfer, chunk) ==
  LET held == transfer.held + chunk IN
  IF ~transfer.ok THEN transfer
  ELSE [held |-> held, ok |-> held <= MAX_ARTIFACT_BYTES]

Download(listed, declared, chunks) ==
  IF listed > MAX_ARTIFACT_BYTES \/ declared > MAX_ARTIFACT_BYTES THEN Refused(0)
  ELSE FoldLeft(Receives, [held |-> 0, ok |-> TRUE], chunks)

\* An artifact is taken whole or refused; it is refused if it, its entry in the
\* JSON or its content-length exceeds the limit, and only then; and a refused one
\* was held for one chunk above the limit at most.  (pypi.py, download: "The cap
\* is enforced during the transfer, not after")
DownloadHolds(listed, declared, chunks) ==
  LET d == Download(listed, declared, chunks) IN
  /\ d.ok <=> \A n \in {listed, declared, Total(chunks)} : n <= MAX_ARTIFACT_BYTES
  /\ d.ok => d.held = Total(chunks)
  /\ d.held <= MAX_ARTIFACT_BYTES + Max({0} \cup ToSet(chunks))

-----------------------------------------------------------------------------
(* _extract_tar and _extract_zip: the members written, or none.              *)

Members == [kind : {"reg", "dir", "link"}, safe : BOOLEAN, size : Nat]

\* A tar's links count as members and are left out; a zip's are files like
\* others, and are written as files.
Kept(format, members) ==
  {i \in DOMAIN members : format = "zip" \/ members[i].kind # "link"}

\* The size of what is kept, up to the i-th member.
SizeUpTo(kept, members, i) ==
  Total([k \in 1 .. i |-> IF k \in kept THEN members[k].size ELSE 0])

Refuses(kept, members) ==
  \/ Len(members) > MAX_MEMBERS
  \/ \E i \in kept :
       ~members[i].safe \/ SizeUpTo(kept, members, i) > MAX_UNCOMPRESSED_BYTES

\* The members written.
Extract(format, members) ==
  LET kept == Kept(format, members)
  IN  IF format \notin {"tar", "zip"} \/ Refuses(kept, members) THEN {} ELSE kept

\* Nothing of an archive is written unless all that is to be written is safe and
\* within the limits together; of one that is within the limits everything is
\* written but the links of a tar.  (pypi.py, extract)
ExtractHolds(format, members) ==
  LET wanted == {i \in DOMAIN members : format = "tar" => members[i].kind \in {"reg", "dir"}}
      sizes == [i \in DOMAIN members |-> IF i \in wanted THEN members[i].size ELSE 0]
      within == /\ format \in {"tar", "zip"} /\ \A i \in wanted : members[i].safe
                /\ Len(members) <= MAX_MEMBERS /\ Total(sizes) <= MAX_UNCOMPRESSED_BYTES
  IN  Extract(format, members) = IF within THEN wanted ELSE {}

-----------------------------------------------------------------------------
(* BodySizeLimitMiddleware: the answer, and the bytes the application got.   *)

NotANumber == -2

Counts(request, chunk) ==
  CASE request.answer # "app" -> request
    [] request.answer = "app" /\ request.got + chunk > MAX_BODY_BYTES ->
         [request EXCEPT !.answer = "413"]
    [] OTHER -> [request EXCEPT !.got = @ + chunk]

Body(declared, chunks) ==
  CASE declared # Unsaid /\ declared < 0    -> [answer |-> "400", got |-> 0]
    [] declared > MAX_BODY_BYTES            -> [answer |-> "413", got |-> 0]
    [] declared \in 0 .. MAX_BODY_BYTES \cup {Unsaid} ->
         FoldLeft(Counts, [answer |-> "app", got |-> 0], chunks)

\* The application never gets more of a body than the limit, whatever the header
\* says and however the body is cut; it answers a request that is within the
\* limit, and no other.  (main.py, BodySizeLimitMiddleware)
BodyHolds(declared, chunks) ==
  LET b == Body(declared, chunks) IN
  /\ b.got <= MAX_BODY_BYTES
  /\ b.answer = "app" <=>
       declared # NotANumber /\ declared <= MAX_BODY_BYTES /\ Total(chunks) <= MAX_BODY_BYTES
  /\ b.answer = "app" => b.got = Total(chunks)
=============================================================================
