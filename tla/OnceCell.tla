------------------------------ MODULE OnceCell ------------------------------
(***************************************************************************)
(* What a value that is computed once and shared promises to its callers:  *)
(* one caller computes it, everyone who asks later is given the value (or  *)
(* the expected error) that was stored.  The computation may also be       *)
(* aborted by an exception nobody stores; the cell is then left with its   *)
(* Default, and only the caller that was computing can learn of the        *)
(* exception.                                                              *)
(*                                                                         *)
(* PackageContext keeps two such cells: the project JSON and the extracted *)
(* artifact.                                                               *)
(***************************************************************************)
CONSTANTS Callers,   \* who may ask for the value
          Values,    \* the values and expected errors that are stored
          Default,   \* what the cell holds after an aborted computation
          Empty,     \* the cell before any computation has ended
          Pending,   \* a caller that has been told nothing yet
          Broken     \* what the caller of an aborted computation is told

VARIABLES cell,      \* the shared value
          got        \* got[c]: what caller c was told

cvars == <<cell, got>>

Init == cell = Empty /\ got = [c \in Callers |-> Pending]

(* Caller c ends the computation; v is stored and c is told v. *)
Fill(c, v) == /\ cell = Empty
              /\ cell' = v
              /\ got' = [got EXCEPT ![c] = v]

(* The computation ends with nothing stored; c may hear of it. *)
Abort(c) == /\ cell = Empty
            /\ cell' = Default
            /\ \/ got' = [got EXCEPT ![c] = Broken]
               \/ got' = got

(* Caller c asks when there is nothing left to compute. *)
Get(c) == /\ cell # Empty
          /\ cell' = cell
          /\ got' = [got EXCEPT ![c] = cell]

Next == \E c \in Callers : (\E v \in Values : Fill(c, v)) \/ Abort(c) \/ Get(c)

Spec == Init /\ [][Next]_cvars
=============================================================================
