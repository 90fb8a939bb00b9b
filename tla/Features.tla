------------------------------ MODULE Features ------------------------------
(* The risk signals that are algorithms: the burst of releases, and which    *)
(* parts of two names are compared when one may imitate the other.  A date   *)
(* is a number of hours, a name a sequence of characters.                    *)
EXTENDS Integers, SequencesExt

BURST_WINDOW == 24
BURST_COUNT  == 3

\* busiest / total >= BURST_FRACTION, which is one half.
EnoughOf(busiest, total) == 2 * busiest >= total

\* sorted(): by time, and what is equal as it stood.
Before(dates, i, k) == dates[i] < dates[k] \/ (dates[i] = dates[k] /\ i < k)

\* How many of the dates from the i-th on lie in the window that starts with it.
FromStrictly(dates, i) ==
  Cardinality({k \in DOMAIN dates : ~Before(dates, k, i) /\ dates[k] - dates[i] < BURST_WINDOW})
From(dates, i) ==
  Cardinality({k \in DOMAIN dates : ~Before(dates, k, i) /\ dates[k] - dates[i] <= BURST_WINDOW})

HasReleaseBurst(dates) ==
  LET busiest == Max({From(dates, i) : i \in DOMAIN dates})
  IN  /\ Len(dates) >= BURST_COUNT
      /\ busiest >= BURST_COUNT
      /\ EnoughOf(busiest, Len(dates))

\* A burst is some three or more releases, half of all at least, any two of
\* which are a day apart at most; the order in which PyPI lists them and equal
\* times make no difference.  (features.py, has_release_burst)
BurstIsDense(dates) ==
  HasReleaseBurst(dates) <=>
    \E S \in SUBSET DOMAIN dates :
      /\ Cardinality(S) >= 3 /\ 2 * Cardinality(S) >= Len(dates)
      /\ \A i, k \in S : dates[i] - dates[k] <= 24

-----------------------------------------------------------------------------
SwapsAnywhere(a, b, i, j) == i > 1 /\ j > 1 /\ a[i] = b[j - 1]
Swapped(a, b, i, j) == i > 1 /\ j > 1 /\ a[i] = b[j - 1] /\ a[i - 1] = b[j]

\* The candidates for the distance of the first i characters of a and the first j
\* of b, when d has the distances of shorter ones: the last step is an insertion,
\* a deletion, a substitution if need be, or a swap of two neighbours.
Candidates(a, b, d, i, j) ==
  {d[<<i, j - 1>>] + 1, d[<<i - 1, j>>] + 1,
   d[<<i - 1, j - 1>>] + (IF a[i] = b[j] THEN 0 ELSE 1)}
  \cup (IF Swapped(a, b, i, j) THEN {d[<<i - 2, j - 2>>] + 1} ELSE {})

EditDistance(a, b) ==
  LET d[c \in (0 .. Len(a)) \X (0 .. Len(b))] ==
        IF c[1] = 0 \/ c[2] = 0 THEN c[1] + c[2] ELSE Min(Candidates(a, b, d, c[1], c[2]))
  IN  d[<<Len(a), Len(b)>>]

\* The places where the segments of a name end.
Ends(name) == {i \in DOMAIN name : name[i] = "-"} \cup {Len(name) + 1}

\* Where the segments that two names share in front end: 0 if the first differ.
Shared(target, popular) ==
  Max({0} \cup {i \in Ends(target) \cap Ends(popular) :
                  \A k \in 1 .. i - 1 : target[k] = popular[k]})

Rest(name, shared) == SubSeq(name, shared + 1, Len(name))

\* What _namespaced_ratio hands to SequenceMatcher: the names as a whole, their
\* rests, or nothing, when one name extends the other.
Compared(target, popular) ==
  LET shared == Shared(target, popular)
      t_rest == Rest(target, shared)
      p_rest == Rest(popular, shared)
  IN  CASE shared = 0 -> "whole"
        [] shared > 0 /\ (t_rest = <<>> \/ p_rest = <<>>) -> "nothing"
        [] OTHER -> IF EditDistance(t_rest, p_rest) <= 1 THEN "whole" ELSE "rests"

-----------------------------------------------------------------------------
OneTypo(a, b) ==
  \/ a = b
  \/ \E i \in DOMAIN a : RemoveAt(a, i) = b
  \/ \E i \in DOMAIN b : RemoveAt(b, i) = a
  \/ Len(a) = Len(b) /\ \E i \in DOMAIN a : [a EXCEPT ![i] = b[i]] = b
  \/ \E i \in DOMAIN a \ {Len(a)} : [a EXCEPT ![i] = a[i + 1], ![i + 1] = a[i]] = b

\* One typing error anywhere in a popular name, the dashes included, is seen at
\* full similarity: setting aside the segments the names share never hides it.
\* And of two names of one family that are compared whole, one is a typing error
\* of the other, which the edit distance tells as one insertion, deletion,
\* substitution or swap of neighbours.  (features.py, _namespaced_ratio: "뒷부분이
\* 한 타 차이인 경우다")
TyposAreSeen(target, popular) ==
  target # popular =>
    /\ OneTypo(target, popular) => Compared(target, popular) = "whole"
    /\ Compared(target, popular) = "whole" /\ Shared(target, popular) > 0 =>
         OneTypo(target, popular)
=============================================================================
