----------------------------- MODULE ImportProofs -----------------------------
(***************************************************************************)
(* The files of an import fit together, whatever the steps do, how often   *)
(* they fail, and from wherever the import is called again.                *)
(***************************************************************************)
EXTENDS Import, TLAPS

\* FilesFitTogether also holds while a step is being executed, which is one of
\* those reached, or the next.
Fits ==
  \A k \in Steps : k <= reached =>
    /\ Result(k, files).ok
    /\ \A f \in Writes[k] : files[f] = Result(k, files).files[f]

IInv ==
  /\ TypeOK
  /\ current <= reached + 1
  /\ Fits

(* The numbers of the steps go up by one.                                   *)
LEMMA StepNumbers ==
  ASSUME NEW k \in Steps
  PROVE  /\ k \in Nat \ {0}
         /\ k - 1 \in Steps \union {0}
         /\ \A j \in Nat \ {0} : j <= k => j \in Steps
<1>1. k \in Nat \ {0} /\ 1..k \subseteq Steps
  BY StepsAssumption
<1>2. \A j \in Nat \ {0} : j <= k => j \in Steps
  BY <1>1
<1> QED
  BY <1>1, <1>2

(* What a step, or one before it, reads or writes is none of what a step   *)
(* from it on writes, but for its own files.                               *)
LEMMA Untouched ==
  ASSUME NEW j \in Steps, NEW k \in Steps, j <= k
  PROVE  /\ Reads[j] \subseteq Files
         /\ \A f \in Reads[j] : f \notin Writes[k]
         /\ j # k => \A f \in Writes[j] : f \in Files /\ f \notin Writes[k]
<1>1. j \in Nat /\ k \in Nat
  BY StepNumbers
<1>2. ASSUME NEW f \in Reads[j]
      PROVE  f \in Files /\ f \notin Writes[k]
  <2>1. PICK i \in Steps : i < j /\ f \in Writes[i]
    BY StepsAssumption
  <2>2. i \in Nat
    BY StepNumbers
  <2>3. i # k
    BY <1>1, <2>1, <2>2
  <2>4. Writes[i] \intersect Writes[k] = {}
    BY <2>3, StepsAssumption
  <2> QED
    BY <2>1, <2>4 DEF Files
<1>3. ASSUME j # k, NEW f \in Writes[j]
      PROVE  f \in Files /\ f \notin Writes[k]
  BY <1>3, StepsAssumption DEF Files
<1> QED
  BY <1>2, <1>3

(* What a step makes depends on the files it reads only.                    *)
LEMMA ResultOfReads ==
  ASSUME NEW j \in Steps, NEW fs, NEW gs, \A f \in Reads[j] : fs[f] = gs[f]
  PROVE  Result(j, fs) = Result(j, gs)
<1>1. [f \in Reads[j] |-> fs[f]] = [f \in Reads[j] |-> gs[f]]
  OBVIOUS
<1> QED
  BY <1>1 DEF Result

LEMMA InitIInv == Init => IInv
<1> SUFFICES ASSUME Init PROVE IInv
  OBVIOUS
<1>1. CallLimit(input) \in Nat
  BY CallLimitAssumption DEF Init
<1>2. TypeOK
  BY <1>1 DEF Init, TypeOK
<1>3. \A k \in Steps : ~(k <= 0)
  BY StepNumbers
<1> QED
  BY <1>2, <1>3 DEF Init, IInv, Fits

LEMMA NextIInv == IInv /\ [Next]_vars => IInv'
<1> SUFFICES ASSUME IInv, [Next]_vars PROVE IInv'
  OBVIOUS
<1> USE DEF IInv
<1>0. /\ CallLimit(input) \in Nat
      /\ calls \in Nat
      /\ reached \in Nat /\ current \in Nat /\ endStep \in Nat
  BY CallLimitAssumption, StepNumbers DEF TypeOK
<1>1. ASSUME NEW first \in Steps, NEW last \in Steps, Call(first, last)
      PROVE  IInv'
  <2>1. TypeOK'
    BY <1>0, <1>1 DEF TypeOK, Call
  <2>2. (current <= reached + 1)'
    BY <1>1 DEF Call
  <2>3. Fits'
    BY <1>1, ResultOfReads DEF Fits, Call, Result
  <2> QED
    BY <2>1, <2>2, <2>3
<1>2. CASE Success
  <2> USE <1>2
  <2>1. current \in Steps
    BY DEF Success, TypeOK
  <2>2. current \in Nat \ {0} /\ Result(current, files).ok
    BY <2>1, StepNumbers DEF Success
  <2>3. current < endStep => current + 1 \in Steps
    <3>1. ASSUME current < endStep PROVE current + 1 \in Steps
      <4>1. endStep \in Steps
        BY <1>0, <2>2, <3>1 DEF TypeOK
      <4> QED
        BY <4>1, <1>0, <2>2, <3>1, StepNumbers
    <3> QED
      BY <3>1
  <2>4. TypeOK'
    BY <2>1, <2>3 DEF TypeOK, Success
  <2>5. (current <= reached + 1)'
    BY <1>0, <2>2 DEF Success
  <2>6. \A f \in Files : f \notin Writes[current] => files'[f] = files[f]
    BY DEF Success
  <2>7. \A f \in Writes[current] : files'[f] = Result(current, files).files[f]
    BY <2>1 DEF Success, Files
  <2>8. ASSUME NEW k \in Steps, k <= reached'
        PROVE  /\ Result(k, files').ok
               /\ \A f \in Writes[k] : files'[f] = Result(k, files').files[f]
    <3>1. CASE k = current
      <4>1. k <= k /\ Reads[k] \subseteq Files
        BY StepNumbers, Untouched
      <4>2. \A f \in Reads[k] : files'[f] = files[f]
        BY <2>6, <3>1, <4>1, Untouched
      <4>3. Result(k, files) = Result(k, files')
        BY <4>2, ResultOfReads
      <4> QED
        BY <2>2, <2>7, <3>1, <4>3
    <3>2. CASE k # current
      <4>1. k \in Nat
        BY StepNumbers
      <4>2. k <= reached
        BY <1>0, <2>2, <2>8, <3>2, <4>1 DEF Success
      <4>3. CASE current <= reached
        <5>1. \A f \in Writes[current] : files'[f] = files[f]
          BY <2>1, <2>7, <4>3 DEF Fits
        <5>2. \A f \in Files : files'[f] = files[f]
          BY <2>6, <5>1
        <5>3. Reads[k] \subseteq Files /\ Writes[k] \subseteq Files
          BY Untouched, <4>1 DEF Files
        <5>4. Result(k, files) = Result(k, files')
          BY <5>2, <5>3, ResultOfReads
        <5> QED
          BY <4>2, <5>2, <5>3, <5>4 DEF Fits
      <4>4. CASE ~(current <= reached)
        <5>1. k <= current
          BY <1>0, <4>1, <4>2, <4>4
        <5>2. /\ \A f \in Reads[k] : files'[f] = files[f]
              /\ \A f \in Writes[k] : files'[f] = files[f]
          BY <2>1, <2>6, <3>2, <5>1, Untouched
        <5>3. Result(k, files) = Result(k, files')
          BY <5>2, ResultOfReads
        <5> QED
          BY <4>2, <5>2, <5>3 DEF Fits
      <4> QED
        BY <4>3, <4>4
    <3> QED
      BY <3>1, <3>2
  <2>9. \A k \in Steps : Result(k, files)' = Result(k, files')
    BY DEF Result, Success
  <2>10. Fits'
    BY <2>8, <2>9 DEF Fits
  <2> QED
    BY <2>4, <2>5, <2>10
<1>3. CASE Failure
  <2> USE <1>3
  <2>1. current \in Steps
    BY DEF Failure, TypeOK
  <2>2. current \in Nat \ {0} /\ current - 1 \in Steps \union {0}
    BY <2>1, StepNumbers
  <2>3. TypeOK'
    BY <2>1, <2>2 DEF TypeOK, Failure
  <2>4. (current <= reached + 1)'
    BY <1>0, <2>3, StepNumbers DEF Failure, TypeOK
  <2>5. \A f \in Files : f \notin Writes[current] => files'[f] = files[f]
    BY DEF Failure
  <2>6. ASSUME NEW k \in Steps, k <= reached'
        PROVE  /\ Result(k, files').ok
               /\ \A f \in Writes[k] : files'[f] = Result(k, files').files[f]
    <3>1. k \in Nat
      BY StepNumbers
    <3>2. k <= reached /\ k < current
      BY <1>0, <2>2, <2>6, <3>1 DEF Failure
    <3>3. k # current /\ k <= current
      BY <2>2, <3>1, <3>2
    <3>4. /\ \A f \in Reads[k] : files'[f] = files[f]
          /\ \A f \in Writes[k] : files'[f] = files[f]
      BY <2>1, <2>5, <3>3, Untouched
    <3>5. Result(k, files) = Result(k, files')
      BY <3>4, ResultOfReads
    <3> QED
      BY <3>2, <3>4, <3>5 DEF Fits
  <2>7. Fits'
    BY <2>6 DEF Fits, Result, Failure
  <2> QED
    BY <2>3, <2>4, <2>7
<1>4. CASE UNCHANGED vars
  BY <1>4 DEF vars, TypeOK, Fits, Result
<1> QED
  BY <1>1, <1>2, <1>3, <1>4 DEF Next

(* The driver stays within its steps and its calls.                         *)
THEOREM TypeCorrect == Spec => []TypeOK
<1>1. IInv => TypeOK
  BY DEF IInv
<1> QED
  BY <1>1, InitIInv, NextIInv, PTL DEF Spec

(* However often steps fail and the import is killed, and from whatever    *)
(* step that has been reached it is called again: every file of the steps  *)
(* executed so far is what its step makes of the files that are there.     *)
THEOREM ImportFits == Spec => []FilesFitTogether
<1>1. IInv => FilesFitTogether
  BY DEF IInv, Fits, FilesFitTogether
<1> QED
  BY <1>1, InitIInv, NextIInv, PTL DEF Spec

==============================================================================
