-------------------------------- MODULE Import --------------------------------
(***************************************************************************)
(* The import driver (Import.cpp).  The import is a list of steps; a call  *)
(* executes those from a first to a last one, in order, until one fails.   *)
(* A step that fails, and an import that is killed, leave the files of the *)
(* step broken.  The import can be called again from any step that the     *)
(* calls before have come to.                                              *)
(*                                                                         *)
(* What a step makes of the files it reads is a parameter.                 *)
(***************************************************************************)
EXTENDS Naturals, Sequences

CONSTANTS
  Inputs,        (* what can be imported, parameters included               *)
  Reads,         (* step -> the files it reads                             *)
  Writes,        (* step -> the files it writes                            *)
  Run(_, _, _),  (* input, step, files read -> [ok, files]                 *)
  CallLimit(_),  (* input -> the most calls of Import()                    *)
  EndSteps(_),   (* input -> the last steps it is called with              *)
  Missing,       (* a file that is not there                               *)
  Broken         (* a file that was not written to its end                 *)

Steps == DOMAIN Writes
Files == UNION {Writes[k] : k \in Steps}

(* Every file has one step that writes it, and is read by later steps.      *)
ASSUME StepsAssumption ==
  /\ Steps \subseteq Nat \ {0}
  /\ \A k \in Steps : 1..k \subseteq Steps
  /\ \A j, k \in Steps : j # k => Writes[j] \intersect Writes[k] = {}
  /\ \A k \in Steps : \A f \in Reads[k] : \E j \in Steps : j < k /\ f \in Writes[j]

ASSUME CallLimitAssumption == \A in \in Inputs : CallLimit(in) \in Nat

VARIABLES
  input,   (* what is imported                                             *)
  files,   (* what is in the destination directory                         *)
  reached, (* all steps up to this one have been executed                  *)
  current, (* the step that is being executed, or 0                        *)
  endStep, (* the last step to execute                                     *)
  calls    (* the number of calls so far                                   *)

vars == <<input, files, reached, current, endStep, calls>>

------------------------------------------------------------------------------

Result(k, fs) == Run(input, k, [f \in Reads[k] |-> fs[f]])

Init ==
  /\ input \in Inputs
  /\ files = [f \in Files |-> Missing]
  /\ reached = 0
  /\ current = 0
  /\ endStep = 0
  /\ calls = 0

\* A call of Import() for the steps from first to last.
Call(first, last) ==
  /\ current = 0
  /\ calls < CallLimit(input)
  /\ first <= reached + 1
  /\ first <= last
  /\ last \in EndSteps(input)
  /\ current' = first
  /\ endStep' = last
  /\ calls' = calls + 1
  /\ UNCHANGED <<input, files, reached>>

\* ExecuteModules(): a step is done; the next one follows.
Success ==
  /\ current # 0
  /\ Result(current, files).ok
  /\ files' = [f \in Files |-> IF f \in Writes[current] THEN Result(current, files).files[f]
                               ELSE files[f]]
  /\ reached' = IF current > reached THEN current ELSE reached
  /\ current' = IF current < endStep THEN current + 1 ELSE 0
  /\ UNCHANGED <<input, endStep, calls>>

\* Mutant: the steps after one that fails are executed all the same.
FailureIgnored ==
  /\ current # 0
  /\ Result(current, files).ok => calls < CallLimit(input)
  /\ files' = [f \in Files |-> IF f \in Writes[current] THEN Broken ELSE files[f]]
  /\ reached' = IF current > reached THEN current ELSE reached
  /\ current' = IF current < endStep THEN current + 1 ELSE 0
  /\ UNCHANGED <<input, endStep, calls>>

\* The step returns false, by what it reads or because a file cannot be written,
\* or the process is killed.  Nothing else is executed.
Failure ==
  /\ current # 0
  /\ Result(current, files).ok => calls < CallLimit(input)
  /\ files' = [f \in Files |-> IF f \in Writes[current] THEN Broken ELSE files[f]]
  /\ reached' = IF current <= reached THEN current - 1 ELSE reached
  /\ current' = 0
  /\ UNCHANGED <<input, endStep, calls>>

Next ==
  \/ \E first, last \in Steps : Call(first, last)
  \/ Success
  \/ Failure

Spec == Init /\ [][Next]_vars

------------------------------------------------------------------------------

TypeOK ==
  /\ input \in Inputs
  /\ DOMAIN files = Files
  /\ reached \in Steps \union {0}
  /\ current \in Steps \union {0}
  /\ endStep \in Steps \union {0}
  /\ calls \in 0..CallLimit(input)

(* Every file of the steps that have been executed is what its step makes  *)
(* of the files that are there: whatever failed, and from wherever the     *)
(* import was called again, no step has read a broken file, one that was   *)
(* missing, or one that has changed since.                                 *)
FilesFitTogether ==
  current = 0 => \A k \in Steps : k <= reached =>
    LET result == Result(k, files)
    IN  result.ok /\ \A f \in Writes[k] : files[f] = result.files[f]

==============================================================================
