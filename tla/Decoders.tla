------------------------------ MODULE Decoders ------------------------------
(* The rule for obfuscated payloads: does a decoded value flow into exec,    *)
(* eval or compile?  The functions of a file and what their bodies call, the *)
(* variables and what is assigned to them, and the argument of the sink.     *)
EXTENDS SequencesExt

CONSTANTS Functions,   \* names of functions, and of lambdas that have a name
          Variables    \* names that are assigned something else

\* What an expression may hold: a decoder of the library or characters put
\* together with chr(), a call of a function by its name, a variable.
Parts == Functions \cup Variables \cup {"decoder"}

\* The functions come in the order of the file.
Modules == [bodies : [Functions -> SUBSET Parts], assigned : [Variables -> SUBSET Parts],
            argument : SUBSET Parts, order : Seq(Functions)]

\* _direct: is one of these a decoded value, local being the file's decoders
\* as far as they are known?
Direct(parts, local) == "decoder" \in parts \/ parts \cap local # {}

\* One turn of `while changed`; a function found helps those after it.
Turn(m, local) ==
  FoldLeft(LAMBDA known, f : IF Direct(m.bodies[f], known) THEN known \cup {f} ELSE known,
           local, m.order)
OneTurn(m) == Turn(m, {})
Local(m) ==
  LET converge[local \in SUBSET Functions] ==
        IF Turn(m, local) = local THEN local ELSE converge[Turn(m, local)]
  IN  converge[{}]

\* find: a variable is followed for one step.
Find(m) ==
  \/ Direct(m.argument, Local(m))
  \/ \E v \in m.argument \cap Variables : Direct(m.assigned[v], Local(m))

-----------------------------------------------------------------------------
\* The functions from which a decoder is reached over any number of calls.
Reaching(m) ==
  LET Closed(S) == \A f \in Functions : Direct(m.bodies[f], S) => f \in S
  IN  {f \in Functions : \A S \in SUBSET Functions : Closed(S) => f \in S}

\* A payload is found however deep and in whatever order the file's functions
\* wrap the decoder, with one variable in between at most, and nothing is found
\* in a file whose functions only call each other.  (code_patterns.py,
\* _DecoderIndex: "함수가 함수를 부르는 경우까지 수렴", "변수는 한 단계만 따라간다")
DecodersAreFound(m) ==
  Find(m) <=>
    LET values == m.argument \cup UNION {m.assigned[v] : v \in m.argument \cap Variables}
    IN  "decoder" \in values \/ values \cap Reaching(m) # {}
=============================================================================
