--------------------------- MODULE MapDownloadProofs --------------------------
(***************************************************************************)
(* For maps of any number of files and blocks, and any number of pauses,   *)
(* failures, versions and interrupted downloads: the types, and that the   *)
(* files the dialog is through with are intact, and that a download that   *)
(* is resumed has no gap and no block twice.                               *)
(***************************************************************************)
EXTENDS MapDownload, TLAPS

\* Requests are only made while downloading, and a HEAD that is overtaken by a
\* GET, because the button still said "Resume Download", is overtaken by one.
RequestInv ==
  /\ head \/ gets # {} \/ fileOpen \/ reply # "NULL" => status = "downloading"
  /\ status \in {"downloading", "done"} => currentFileIndex \in Files
  /\ reply = "head" => head
  /\ head => /\ ~fileOpen
             /\ reply = "head" \/ ~paused
             /\ \A get \in gets : get.id = reply

Inv == TypeOK /\ RequestInv /\ VerifiedIntact

LEMMA InitInv == Init => Inv
<1> SUFFICES ASSUME Init PROVE Inv
  OBVIOUS
<1>1. TypeOK
  <2>1. <<>> \in Seq(Block)
    OBVIOUS
  <2>2. disk \in [Files -> Seq(Block)] /\ part \in [Files -> Seq(Block)]
    BY <2>1 DEF Init
  <2>3. 1 \in Versions /\ 0 \in 0..NumFiles
    BY MapDownloadAssumption DEF Versions
  <2>4. 0 \in 0..MaxSelects /\ 0 \in 0..MaxPauses /\ 0 \in 0..MaxFailures /\ 0 \in 0..MaxStops
    BY MapDownloadAssumption
  <2>5. QED
    BY <2>2, <2>3, <2>4 DEF Init, TypeOK
<1>2. RequestInv
  BY DEF Init, RequestInv
<1>3. VerifiedIntact
  BY DEF Init, VerifiedIntact
<1>4. QED
  BY <1>1, <1>2, <1>3 DEF Inv

------------------------------------------------------------------------------
(* What the parts of the actions do                                        *)

\* Leave and Disconnected establish the types of what they assign.
LEMMA LeaveType ==
  ASSUME Leave
  PROVE  /\ status' = "idle" /\ currentFileIndex' \in 0..NumFiles
         /\ reply' \in {"NULL", "head"} \union GetIds
         /\ other' \in BOOLEAN /\ foreign' \in BOOLEAN
         /\ paused' \in BOOLEAN /\ fileOpen' \in BOOLEAN /\ acceptRanges' \in BOOLEAN
         /\ downloadSize' \in Nat /\ sizeAtPause' \in Nat
         /\ head' \in BOOLEAN /\ orphans' \in BOOLEAN
         /\ gets' \in SUBSET Get
<1>1. 0 \in 0..NumFiles /\ {} \in SUBSET Get
  BY MapDownloadAssumption
<1>2. QED
  BY <1>1 DEF Leave, Disconnected

\* A process that is gone leaves no request and no verified file.
LEMMA DieInv ==
  ASSUME Inv, Die, selects' \in 0..MaxSelects, pauses' \in 0..MaxPauses,
         failures' \in 0..MaxFailures, stops' \in 0..MaxStops, UNCHANGED serverVersion, smooth' \in BOOLEAN
  PROVE  Inv'
<1>1. part' \in [Files -> Seq(Block)]
  <2>1. CASE currentFileIndex = 0
    BY <2>1 DEF Die, Inv, TypeOK
  <2>2. CASE currentFileIndex # 0
    <3>1. currentFileIndex \in Files
      BY <2>2, MapDownloadAssumption DEF Inv, TypeOK, Files
    <3>2. part[currentFileIndex] \in Seq(Block)
      BY <3>1 DEF Inv, TypeOK
    <3>3. PICK n \in 0..Len(part[currentFileIndex]) :
            part' = [part EXCEPT ![currentFileIndex] = SubSeq(part[currentFileIndex], 1, n)]
      BY <2>2 DEF Die
    <3>4. SubSeq(part[currentFileIndex], 1, n) \in Seq(Block)
      BY <3>2
    <3>5. QED
      BY <3>1, <3>3, <3>4 DEF Inv, TypeOK
  <2>3. QED
    BY <2>1, <2>2
<1>2. TypeOK'
  <2>1. disk' \in [Files -> Seq(Block)] /\ serverVersion' \in Versions /\ smooth' \in BOOLEAN /\ Leave
    BY DEF Die, Inv, TypeOK
  <2>2. QED
    BY <1>1, <2>1, LeaveType DEF TypeOK
<1>3. RequestInv' /\ VerifiedIntact'
  BY DEF Die, Leave, Disconnected, RequestInv, VerifiedIntact
<1>4. QED
  BY <1>2, <1>3 DEF Inv

\* While at most one GET is on its way there is an identity for another.
LEMMA FreeIdFree ==
  ASSUME \E i \in GetIds : Free(i)
  PROVE  FreeId \in GetIds /\ Free(FreeId)
  BY DEF FreeId

LEMMA HeadFree ==
  ASSUME Inv, head
  PROVE  \E i \in GetIds : Free(i)
<1>1. "get1" # reply \/ "get2" # reply
  OBVIOUS
<1>2. QED
  BY <1>1 DEF Inv, RequestInv, GetIds, Free

LEMMA NewGetType ==
  ASSUME Inv, \E i \in GetIds : Free(i), NEW ranges \in BOOLEAN, NEW from \in Nat
  PROVE  NewGet(ranges, from) \in Get /\ NewGet(ranges, from).id = FreeId
  BY FreeIdFree DEF NewGet, Get, Editions, Inv, TypeOK

\* finishedHead() only touches the .part file.
LEMMA FinishedHeadType ==
  ASSUME Inv, head, NEW ranges \in BOOLEAN, FinishedHead(ranges)
  PROVE  /\ currentFileIndex \in Files
         /\ part' \in [Files -> Seq(Block)]
         /\ Len(part'[currentFileIndex]) \in Nat
         /\ gets' \in SUBSET Get
         /\ ~head' /\ fileOpen' /\ acceptRanges' \in BOOLEAN
<1> DEFINE left == IF ranges THEN part[currentFileIndex] ELSE <<>>
<1>1. status = "downloading" /\ currentFileIndex \in Files
  BY DEF Inv, RequestInv
<1>2. left \in Seq(Block) /\ Len(left) \in Nat
  <2>1. part[currentFileIndex] \in Seq(Block)
    BY <1>1 DEF Inv, TypeOK
  <2>2. QED
    BY <2>1
<1>3. part' = [part EXCEPT ![currentFileIndex] = left]
  BY DEF FinishedHead
<1>4. part' \in [Files -> Seq(Block)] /\ part'[currentFileIndex] = left
  BY <1>1, <1>2, <1>3 DEF Inv, TypeOK
<1>5. NewGet(ranges, Len(left)) \in Get
  BY <1>2, HeadFree, NewGetType
<1>6. gets' \in SUBSET Get
  BY <1>5 DEF FinishedHead, Inv, TypeOK
<1>7. QED
  BY <1>1, <1>2, <1>4, <1>6 DEF FinishedHead

------------------------------------------------------------------------------
(* Network                                                                 *)

LEMMA HeadAnsweredInv == Inv /\ HeadAnswered => Inv'
<1> SUFFICES ASSUME Inv, HeadAnswered PROVE Inv'
  OBVIOUS
<1>1. PICK ranges \in BOOLEAN : FinishedHead(ranges)
  BY MapDownloadAssumption DEF HeadAnswered
<1>2. /\ currentFileIndex \in Files /\ part' \in [Files -> Seq(Block)]
      /\ Len(part'[currentFileIndex]) \in Nat /\ gets' \in SUBSET Get
      /\ ~head' /\ fileOpen' /\ acceptRanges' \in BOOLEAN
  BY <1>1, FinishedHeadType DEF HeadAnswered
<1>3. reply' \in GetIds
  BY HeadFree, FreeIdFree DEF HeadAnswered
<1>4. failures' \in 0..MaxFailures
  <2>1. failures' = failures \/ (failures < MaxFailures /\ failures' = failures + 1)
    BY DEF HeadAnswered
  <2>2. QED
    BY <2>1, MapDownloadAssumption DEF Inv, TypeOK
<1>5. TypeOK'
  <2>1. sizeAtPause' \in Nat /\ head' \in BOOLEAN /\ fileOpen' \in BOOLEAN
    BY <1>1, <1>2 DEF HeadAnswered, FinishedHead
  <2>2. /\ serverVersion' \in Versions /\ smooth' \in BOOLEAN /\ disk' \in [Files -> Seq(Block)]
        /\ status' \in {"idle", "downloading", "failed", "done"}
        /\ currentFileIndex' \in 0..NumFiles /\ paused' \in BOOLEAN
        /\ other' \in BOOLEAN /\ foreign' \in BOOLEAN /\ selects' \in 0..MaxSelects
        /\ downloadSize' \in Nat /\ orphans' \in BOOLEAN
        /\ pauses' \in 0..MaxPauses /\ stops' \in 0..MaxStops
    BY DEF HeadAnswered, dialogVars, Inv, TypeOK
  <2>3. QED
    BY <1>2, <1>3, <1>4, <2>1, <2>2 DEF TypeOK
<1>6. RequestInv'
  BY <1>2, <1>3 DEF HeadAnswered, dialogVars, Inv, RequestInv, GetIds
<1>7. VerifiedIntact'
  BY DEF HeadAnswered, dialogVars, Inv, VerifiedIntact, Complete, Intact
<1>8. QED
  BY <1>5, <1>6, <1>7 DEF Inv

LEMMA ProgressInv == Inv /\ Progress => Inv'
<1> SUFFICES ASSUME Inv, NEW get \in gets, UNCHANGED <<serverVersion, smooth, counters>>,
                    IF reply = "NULL" \/ ~fileOpen
                    THEN Die
                    ELSE /\ part' = IF reply = get.id
                                    THEN [part EXCEPT ![currentFileIndex] =
                                            Append(@, NextBlock(get))]
                                    ELSE part
                         /\ downloadSize' = sizeAtPause + get.received + 1
                         /\ gets' = (gets \ {get}) \union {Received(get)}
                         /\ UNCHANGED <<disk, dialogVars, foreign, reply, fileOpen, acceptRanges,
                                        sizeAtPause, head, orphans>>
             PROVE  Inv'
  BY DEF Progress
<1>1. CASE reply = "NULL" \/ ~fileOpen
  BY <1>1, DieInv DEF counters, Inv, TypeOK
<1>2. CASE ~(reply = "NULL" \/ ~fileOpen)
  <2>1. get \in Get /\ currentFileIndex \in Files
    BY DEF Inv, TypeOK, RequestInv
  <2>2. NextBlock(get) \in Block
    <3>1. get.version \in Editions /\ get.next + 1 \in Nat
      BY <2>1 DEF Get
    <3>2. ErrorPage \in Block
      BY <3>1 DEF ErrorPage, Block
    <3>3. [version |-> get.version, index |-> get.next + 1] \in Block
      BY <3>1 DEF Block
    <3>4. QED
      BY <3>2, <3>3 DEF NextBlock
  <2>3. part[currentFileIndex] \in Seq(Block)
    BY <2>1 DEF Inv, TypeOK
  <2>4. Append(part[currentFileIndex], NextBlock(get)) \in Seq(Block)
    BY <2>2, <2>3
  <2>5. part' \in [Files -> Seq(Block)]
    <3>1. part \in [Files -> Seq(Block)]
      BY DEF Inv, TypeOK
    <3>2. CASE reply = get.id
      <4>1. part' = [part EXCEPT ![currentFileIndex] =
                       Append(part[currentFileIndex], NextBlock(get))]
        BY <1>2, <3>2
      <4>2. QED
        BY <2>1, <2>4, <3>1, <4>1
    <3>3. CASE reply # get.id
      BY <1>2, <3>1, <3>3
    <3>4. QED
      BY <3>2, <3>3
  <2>6. Received(get) \in Get /\ downloadSize' \in Nat
    <3>1. Received(get) \in Get
      <4>1. /\ get.id \in GetIds /\ get.version \in Editions
            /\ get.next + 1 \in Nat /\ get.received + 1 \in Nat
        BY <2>1 DEF Get
      <4>2. QED
        BY <4>1 DEF Received, Get
    <3>2. get.received \in Nat /\ sizeAtPause \in Nat
      BY <2>1 DEF Get, Inv, TypeOK
    <3>3. QED
      BY <1>2, <3>1, <3>2
  <2>7. gets' \in SUBSET Get
    BY <1>2, <2>6 DEF Inv, TypeOK
  <2>8. TypeOK'
    <3>1. UNCHANGED <<serverVersion, smooth, counters, disk, dialogVars, foreign, reply, fileOpen,
                      acceptRanges, sizeAtPause, head, orphans>>
      BY <1>2
    <3>2. QED
      BY <2>5, <2>6, <2>7, <3>1 DEF counters, dialogVars, Inv, TypeOK
  <2>9. RequestInv'
    BY <1>2 DEF dialogVars, Inv, RequestInv
  <2>10. VerifiedIntact'
    BY <1>2 DEF dialogVars, Inv, VerifiedIntact, Complete, Intact
  <2>11. QED
    BY <2>8, <2>9, <2>10 DEF Inv
<1>3. QED
  BY <1>1, <1>2

\* The file that is finished is checked; those before it, and md5sums, which is
\* the first, are not touched.
LEMMA FinishedInv == Inv /\ Finished => Inv'
<1> SUFFICES ASSUME Inv, NEW get \in gets, UNCHANGED <<serverVersion, smooth, selects, pauses, stops>>,
                    failures' \in 0..MaxFailures,
                    IF ~fileOpen
                    THEN Die
                    ELSE /\ disk' = [disk EXCEPT ![currentFileIndex] = part[currentFileIndex]]
                         /\ part' = [part EXCEPT ![currentFileIndex] = <<>>]
                         /\ orphans' = (orphans \/ head \/ gets # {get})
                         /\ DownloadComplete
                         /\ UNCHANGED <<other, paused>>
             PROVE  Inv'
  <2> SUFFICES ASSUME Inv, Finished PROVE Inv'
    OBVIOUS
  <2>1. failures' \in 0..MaxFailures
    BY MapDownloadAssumption DEF Finished, Inv, TypeOK
  <2>2. QED
    BY <2>1 DEF Finished
<1>1. CASE ~fileOpen
  <2>1. /\ selects' \in 0..MaxSelects /\ pauses' \in 0..MaxPauses /\ stops' \in 0..MaxStops
        /\ smooth' \in BOOLEAN
    BY DEF Inv, TypeOK
  <2>2. QED
    BY <1>1, <2>1, DieInv
<1>2. CASE fileOpen
  <2> DEFINE f == currentFileIndex
  <2>1. f \in Files /\ status = "downloading"
    BY DEF Inv, RequestInv
  <2>2. disk' \in [Files -> Seq(Block)] /\ part' \in [Files -> Seq(Block)]
    <3>1. /\ disk \in [Files -> Seq(Block)] /\ part \in [Files -> Seq(Block)]
          /\ <<>> \in Seq(Block)
      BY DEF Inv, TypeOK
    <3>2. part[f] \in Seq(Block)
      BY <2>1, <3>1
    <3>3. QED
      BY <1>2, <2>1, <3>1, <3>2
  <2>3. /\ disk'[f] = part[f]
        /\ \A g \in Files \ {f} : disk'[g] = disk[g]
    BY <1>2, <2>1 DEF Inv, TypeOK
  <2>4. \A g \in Files \ {1} : g < f => Intact(disk', g)
    <3> SUFFICES ASSUME NEW g \in Files \ {1}, g < f PROVE Intact(disk', g)
      OBVIOUS
    <3>1. disk'[g] = disk[g] /\ disk'[1] = disk[1]
      BY <2>1, <2>3, MapDownloadAssumption DEF Files
    <3>2. Intact(disk, g)
      BY <2>1 DEF Inv, VerifiedIntact, Complete
    <3>3. QED
      BY <3>1, <3>2 DEF Intact
  <2>5. CASE CheckMd5Sum(disk', f) /\ f < NumFiles
    <3>1. /\ Download(f + 1, other)
          /\ UNCHANGED <<status, other, paused, selects, pauses, stops, serverVersion, smooth>>
      BY <1>2, <2>5 DEF DownloadComplete
    <3>2. f + 1 \in Files /\ f + 1 \in 0..NumFiles
      BY <2>1, <2>5, MapDownloadAssumption DEF Files
    <3>3. orphans' \in BOOLEAN
      BY <1>2 DEF Inv, TypeOK
    <3>4. TypeOK'
      BY <2>2, <3>1, <3>2, <3>3 DEF Download, Inv, TypeOK
    <3>5. RequestInv'
      BY <2>1, <3>1, <3>2 DEF Download, RequestInv
    <3>6. VerifiedIntact'
      <4>1. \A g \in Files \ {1} : g < f + 1 => Intact(disk', g)
        BY <2>1, <2>4, <2>5 DEF CheckMd5Sum, Files
      <4>2. QED
        BY <2>1, <3>1, <4>1 DEF Download, VerifiedIntact, Complete
    <3>7. QED
      BY <3>4, <3>5, <3>6 DEF Inv
  <2>6. CASE ~(CheckMd5Sum(disk', f) /\ f < NumFiles)
    <3>1. /\ Disconnected
          /\ UNCHANGED <<currentFileIndex, other, paused, selects, pauses, stops, serverVersion, smooth>>
          /\ status' = IF CheckMd5Sum(disk', f) THEN "done" ELSE "failed"
      BY <1>2, <2>6 DEF DownloadComplete
    <3>2. orphans' \in BOOLEAN
      BY <1>2 DEF Inv, TypeOK
    <3>3. TypeOK'
      BY <2>2, <3>1, <3>2 DEF Disconnected, Inv, TypeOK
    <3>4. RequestInv'
      BY <2>1, <3>1 DEF Disconnected, RequestInv
    <3>5. VerifiedIntact'
      <4> SUFFICES ASSUME status' = "done", NEW g \in Files \ {1}, g < f \/ g = f
                   PROVE  Intact(disk', g)
        BY <2>1, <3>1 DEF VerifiedIntact, Complete
      <4>1. CheckMd5Sum(disk', f)
        BY <3>1
      <4>2. QED
        BY <2>4, <4>1 DEF CheckMd5Sum
    <3>6. QED
      BY <3>3, <3>4, <3>5 DEF Inv
  <2>7. QED
    BY <2>5, <2>6
<1>3. QED
  BY <1>1, <1>2

LEMMA OrphanAnsweredInv == Inv /\ OrphanAnswered => Inv'
  BY DieInv DEF OrphanAnswered, counters, Inv, TypeOK

------------------------------------------------------------------------------
(* User                                                                    *)

LEMMA ClickDownloadInv == Inv /\ ClickDownload => Inv'
<1> SUFFICES ASSUME Inv, ClickDownload PROVE Inv'
  OBVIOUS
<1>1. 1 \in Files /\ 1 \in 0..NumFiles
  BY MapDownloadAssumption DEF Files
<1>2. TypeOK'
  BY <1>1 DEF ClickDownload, Download, filesVars, counters, Inv, TypeOK
<1>3. RequestInv'
  BY <1>1 DEF ClickDownload, Download, RequestInv
<1>4. VerifiedIntact'
  BY DEF ClickDownload, Download, VerifiedIntact, Complete, Files
<1>5. QED
  BY <1>2, <1>3, <1>4 DEF Inv

LEMMA ClickPauseInv == Inv /\ ClickPause => Inv'
<1> SUFFICES ASSUME Inv, ClickPause PROVE Inv'
  OBVIOUS
<1>1. pauses' \in 0..MaxPauses
  BY MapDownloadAssumption DEF ClickPause, Inv, TypeOK
<1>2. CASE PauseHead /\ paused' = TRUE
  <2>1. head
    BY <1>2 DEF PauseHead, Inv, RequestInv
  <2>2. /\ currentFileIndex \in Files /\ part' \in [Files -> Seq(Block)]
        /\ gets' \in SUBSET Get /\ ~head' /\ fileOpen' /\ acceptRanges' \in BOOLEAN
    BY <1>2, <2>1, FinishedHeadType DEF PauseHead
  <2>3. TypeOK'
    BY <1>1, <1>2, <2>2 DEF ClickPause, PauseHead, FinishedHead, Inv, TypeOK
  <2>4. RequestInv'
    BY <1>2, <2>2 DEF ClickPause, PauseHead, Inv, RequestInv
  <2>5. VerifiedIntact'
    BY <1>2 DEF PauseHead, Inv, VerifiedIntact, Complete, Intact
  <2>6. QED
    BY <2>3, <2>4, <2>5 DEF Inv
<1>3. CASE PauseGet /\ paused' = TRUE
  <2>1. gets' \in SUBSET Get
    BY <1>3 DEF PauseGet, Inv, TypeOK
  <2>2. TypeOK'
    BY <1>1, <1>3, <2>1 DEF ClickPause, PauseGet, filesVars, Inv, TypeOK
  <2>3. RequestInv'
    BY <1>3 DEF ClickPause, PauseGet, Inv, RequestInv
  <2>4. VerifiedIntact'
    BY <1>3 DEF PauseGet, filesVars, Inv, VerifiedIntact, Complete, Intact
  <2>5. QED
    BY <2>2, <2>3, <2>4 DEF Inv
<1>4. CASE Die
  BY <1>1, <1>4, DieInv DEF ClickPause, Inv, TypeOK
<1>5. QED
  BY <1>2, <1>3, <1>4 DEF ClickPause

LEMMA ClickResumeInv == Inv /\ ClickResume => Inv'
<1> SUFFICES ASSUME Inv, ClickResume PROVE Inv'
  OBVIOUS
<1>1. /\ NewGet(acceptRanges, sizeAtPause) \in Get
      /\ NewGet(acceptRanges, sizeAtPause).id = FreeId
      /\ FreeId \in GetIds
  BY NewGetType, FreeIdFree DEF ClickResume, Inv, TypeOK
<1>2. gets' \in SUBSET Get
  BY <1>1 DEF ClickResume, Inv, TypeOK
<1>3. TypeOK'
  BY <1>1, <1>2 DEF ClickResume, filesVars, counters, Inv, TypeOK
<1>4. RequestInv'
  <2>1. head => gets = {}
    BY DEF ClickResume, Inv, TypeOK, RequestInv, Get, GetIds
  <2>2. QED
    BY <1>1, <2>1 DEF ClickResume, Inv, RequestInv, GetIds
<1>5. VerifiedIntact'
  BY DEF ClickResume, filesVars, Inv, VerifiedIntact, Complete, Intact
<1>6. QED
  BY <1>3, <1>4, <1>5 DEF Inv

LEMMA SelectMapInv == Inv /\ SelectMap => Inv'
<1> SUFFICES ASSUME Inv, SelectMap PROVE Inv'
  OBVIOUS
<1> USE DEF SelectMap, filesVars, httpVars, netVars, Inv
<1>1. TypeOK'
  <2>1. selects' \in 0..MaxSelects /\ other' \in BOOLEAN
    BY MapDownloadAssumption DEF TypeOK
  <2>2. QED
    BY <2>1 DEF TypeOK
<1>2. RequestInv' /\ VerifiedIntact'
  BY DEF RequestInv, VerifiedIntact, Complete, Intact
<1>3. QED
  BY <1>1, <1>2

LEMMA CloseDialogInv == Inv /\ CloseDialog => Inv'
<1> SUFFICES ASSUME Inv, CloseDialog PROVE Inv'
  OBVIOUS
<1>1. part' \in [Files -> Seq(Block)]
  <2>1. CASE reply = "head"
    <3>1. currentFileIndex \in Files /\ <<>> \in Seq(Block)
      BY <2>1 DEF Inv, RequestInv
    <3>2. QED
      BY <2>1, <3>1 DEF CloseDialog, Inv, TypeOK
  <2>2. CASE reply # "head"
    BY <2>2 DEF CloseDialog, Inv, TypeOK
  <2>3. QED
    BY <2>1, <2>2
<1>2. TypeOK'
  <2>1. /\ disk' \in [Files -> Seq(Block)] /\ serverVersion' \in Versions /\ smooth' \in BOOLEAN /\ Leave
        /\ selects' \in 0..MaxSelects
        /\ pauses' \in 0..MaxPauses /\ failures' \in 0..MaxFailures
    BY DEF CloseDialog, Inv, TypeOK
  <2>2. stops' \in 0..MaxStops
    BY MapDownloadAssumption DEF CloseDialog, Inv, TypeOK
  <2>3. QED
    BY <1>1, <2>1, <2>2, LeaveType DEF TypeOK
<1>3. RequestInv' /\ VerifiedIntact'
  BY DEF CloseDialog, Leave, Disconnected, RequestInv, VerifiedIntact
<1>4. QED
  BY <1>2, <1>3 DEF Inv

LEMMA KilledInv == Inv /\ Killed => Inv'
  BY DieInv, MapDownloadAssumption DEF Killed, Inv, TypeOK

LEMMA NewVersionInv == Inv /\ NewVersion => Inv'
<1> SUFFICES ASSUME Inv, NewVersion PROVE Inv'
  OBVIOUS
<1> USE DEF NewVersion, filesVars, dialogVars, httpVars, netVars, counters, Inv
<1>1. TypeOK'
  <2>1. serverVersion' \in Versions /\ smooth' \in BOOLEAN
    BY MapDownloadAssumption DEF TypeOK, Versions
  <2>2. QED
    BY <2>1 DEF TypeOK
<1>2. RequestInv' /\ VerifiedIntact'
  BY DEF RequestInv, VerifiedIntact, Complete, Intact
<1>3. QED
  BY <1>1, <1>2

LEMMA NextInv == Inv /\ [Next]_vars => Inv'
<1> SUFFICES ASSUME Inv, [Next]_vars PROVE Inv'
  OBVIOUS
<1>1. CASE UNCHANGED vars
  BY <1>1 DEF vars, filesVars, dialogVars, httpVars, netVars, counters, Inv, TypeOK,
              RequestInv, VerifiedIntact, Complete, Intact
<1>2. CASE Next
  BY <1>2, HeadAnsweredInv, ProgressInv, FinishedInv, OrphanAnsweredInv, ClickDownloadInv,
     ClickPauseInv, ClickResumeInv, SelectMapInv, CloseDialogInv, KilledInv, NewVersionInv
     DEF Next, Network, User
<1>3. QED
  BY <1>1, <1>2

LEMMA Invariance == Spec => []Inv
  BY InitInv, NextInv, PTL DEF Spec

\* Every variable of MapDownload has its type in every reachable state.
THEOREM DownloadTypes == Spec => []TypeOK
<1>1. Inv => TypeOK
  BY DEF Inv
<1>2. QED
  BY <1>1, Invariance, PTL

\* Every file the dialog is through with is a complete file of a version that
\* md5sums lists, whatever was paused, cut off, continued or lost before, and
\* whichever map of the list was selected meanwhile.
THEOREM FilesVerified == Spec => []VerifiedIntact
<1>1. Inv => VerifiedIntact
  BY DEF Inv
<1>2. QED
  BY <1>1, Invariance, PTL

------------------------------------------------------------------------------
(* No gap and no overlap                                                   *)

\* As long as the server takes ranges, no request fails and no pause comes too early,
\* every .part file has its blocks in their places, also those of earlier attempts.
PartsFit == \A f \in Files : \A i \in DOMAIN part[f] : part[f][i].index \in {0, i}

\* What is asked for goes on where the .part file ends: there is no request but the
\* current one, and the three counts of what is there agree.
RequestFits ==
  /\ head => gets = {} /\ reply = "head"
  /\ reply \in GetIds \/ paused => fileOpen
  /\ fileOpen => acceptRanges
  /\ \A get \in gets : get.id = reply
  /\ \A get, any \in gets : get = any
  /\ paused => reply = "NULL" /\ sizeAtPause = Len(part[currentFileIndex])
  /\ \A get \in gets :
       /\ get.next = Len(part[currentFileIndex])
       /\ sizeAtPause + get.received = Len(part[currentFileIndex])
       /\ get.received > 0 => downloadSize = Len(part[currentFileIndex])

Undisturbed == smooth /\ failures = 0

FitsInv == Undisturbed => PartsFit /\ RequestFits

\* Before a request is made there is nothing to fit.
LEMMA NothingAsked ==
  ASSUME PartsFit', gets' = {}, ~paused', reply' \in {"NULL", "head"}, ~fileOpen',
         head' => reply' = "head"
  PROVE  PartsFit' /\ RequestFits'
BY DEF RequestFits, GetIds

\* A process that is gone leaves the beginnings of the files.
LEMMA DieFits ==
  ASSUME Inv, PartsFit, Die
  PROVE  PartsFit' /\ RequestFits'
<1>1. PartsFit'
  <2>1. CASE currentFileIndex = 0
    BY <2>1 DEF Die, PartsFit
  <2>2. CASE currentFileIndex # 0
    <3>1. currentFileIndex \in Files /\ part[currentFileIndex] \in Seq(Block)
      BY <2>2, MapDownloadAssumption DEF Inv, TypeOK, Files
    <3>2. PICK n \in 0..Len(part[currentFileIndex]) :
            part' = [part EXCEPT ![currentFileIndex] = SubSeq(part[currentFileIndex], 1, n)]
      BY <2>2 DEF Die
    <3>3. \A i \in DOMAIN SubSeq(part[currentFileIndex], 1, n) :
            /\ i \in DOMAIN part[currentFileIndex]
            /\ SubSeq(part[currentFileIndex], 1, n)[i] = part[currentFileIndex][i]
      BY <3>1
    <3>4. \A f \in Files : part'[f] = IF f = currentFileIndex
                                       THEN SubSeq(part[currentFileIndex], 1, n) ELSE part[f]
      BY <3>1, <3>2 DEF Inv, TypeOK
    <3>5. QED
      BY <3>1, <3>3, <3>4 DEF PartsFit
  <2>3. QED
    BY <2>1, <2>2
<1>2. QED
  BY <1>1, NothingAsked DEF Die, Leave, Disconnected

LEMMA HeadAnsweredFits ==
  ASSUME Inv, FitsInv, HeadAnswered
  PROVE  FitsInv'
<1> SUFFICES ASSUME Undisturbed' PROVE PartsFit' /\ RequestFits'
  BY DEF FitsInv
<1>1. Undisturbed /\ acceptRanges' /\ failures' = failures
  <2>1. failures \in Nat
    BY MapDownloadAssumption DEF Inv, TypeOK
  <2>2. failures' # failures + 1
    BY <2>1 DEF Undisturbed
  <2>3. failures' = failures /\ smooth /\ acceptRanges'
    BY <2>2 DEF HeadAnswered, Undisturbed
  <2>4. QED
    BY <2>3 DEF Undisturbed
<1>2. PartsFit /\ RequestFits
  BY <1>1 DEF FitsInv
<1>3. FinishedHead(TRUE)
  BY <1>1, MapDownloadAssumption DEF HeadAnswered, FinishedHead
<1>4. currentFileIndex \in Files /\ part[currentFileIndex] \in Seq(Block)
  BY DEF HeadAnswered, Inv, RequestInv, TypeOK
<1>5. part' = part
  BY <1>3, <1>4 DEF FinishedHead, Inv, TypeOK
<1>6. /\ FreeId \in GetIds /\ reply' = FreeId /\ gets = {} /\ ~paused /\ fileOpen' /\ ~head'
      /\ UNCHANGED <<currentFileIndex, paused>>
  <2>1. reply = "head" /\ gets = {} /\ ~paused
    BY <1>2 DEF HeadAnswered, RequestFits, Inv, TypeOK, RequestInv
  <2>2. QED
    BY <1>3, <2>1, HeadFree, FreeIdFree DEF HeadAnswered, FinishedHead, dialogVars
<1> DEFINE length == Len(part[currentFileIndex])
           sent   == NewGet(TRUE, length)
<1>7. gets' = {sent}
  BY <1>3, <1>6 DEF FinishedHead
<1>8. PartsFit'
  BY <1>2, <1>5 DEF PartsFit
<1>9. RequestFits'
  <2>1. /\ sent.id = FreeId /\ sent.next = length /\ sent.received = 0
    BY DEF NewGet
  <2>2. sizeAtPause' = length /\ Len(part'[currentFileIndex']) = length
    BY <1>5, <1>6 DEF HeadAnswered
  <2>3. length \in Nat
    BY <1>4
  <2>4. ~paused' /\ reply' = sent.id
    BY <1>6, <2>1
  <2> HIDE DEF sent, length
  <2>5. \A get \in gets' :
          /\ get.next = Len(part'[currentFileIndex'])
          /\ sizeAtPause' + get.received = Len(part'[currentFileIndex'])
          /\ ~(get.received > 0)
    BY <1>7, <2>1, <2>2, <2>3
  <2>6. QED
    BY <1>1, <1>6, <1>7, <2>4, <2>5 DEF RequestFits
<1>10. QED
  BY <1>8, <1>9

\* A block that arrives goes to the end of the .part file, in its place.
LEMMA ProgressFits ==
  ASSUME Inv, FitsInv, Progress
  PROVE  FitsInv'
<1> SUFFICES ASSUME Undisturbed' PROVE PartsFit' /\ RequestFits'
  BY DEF FitsInv
<1>1. PartsFit /\ RequestFits
  BY DEF Progress, counters, Undisturbed, FitsInv
<1>2. PICK get \in gets :
        IF reply = "NULL" \/ ~fileOpen
        THEN Die
        ELSE /\ part' = IF reply = get.id
                        THEN [part EXCEPT ![currentFileIndex] = Append(@, NextBlock(get))]
                        ELSE part
             /\ downloadSize' = sizeAtPause + get.received + 1
             /\ gets' = (gets \ {get}) \union {Received(get)}
             /\ UNCHANGED <<disk, dialogVars, foreign, reply, fileOpen, acceptRanges, sizeAtPause,
                            head, orphans>>
  BY DEF Progress
<1>3. CASE Die
  BY <1>1, <1>3, DieFits
<1>4. CASE ~Die
  <2> DEFINE f      == currentFileIndex
             length == Len(part[f])
  <2>1. get \in Get /\ f \in Files /\ part \in [Files -> Seq(Block)] /\ part[f] \in Seq(Block)
    BY DEF Inv, TypeOK, RequestInv
  <2>2. reply = get.id /\ reply \in GetIds /\ fileOpen /\ gets = {get} /\ ~paused
    BY <1>1, <1>2, <1>4, <2>1 DEF RequestFits, Get, GetIds
  <2>3. /\ part' = [part EXCEPT ![f] = Append(part[f], NextBlock(get))]
        /\ gets' = {Received(get)} /\ downloadSize' = sizeAtPause + get.received + 1
        /\ UNCHANGED <<f, paused, reply, fileOpen, acceptRanges, sizeAtPause, head>>
    BY <1>2, <1>4, <2>2 DEF dialogVars
  <2>4. /\ length \in Nat /\ get.next = length /\ sizeAtPause + get.received = length
        /\ get.received \in Nat /\ sizeAtPause \in Nat
    BY <1>1, <2>1 DEF RequestFits, Get, Inv, TypeOK
  <2>5. part'[f] = Append(part[f], NextBlock(get)) /\ \A g \in Files \ {f} : part'[g] = part[g]
    BY <2>1, <2>3
  <2>6. Len(part'[f]) = length + 1
    BY <2>1, <2>5
  <2>7. PartsFit'
    <3>1. NextBlock(get).index \in {0, length + 1}
      BY <2>4 DEF NextBlock, ErrorPage
    <3>2. \A i \in DOMAIN part'[f] : part'[f][i].index \in {0, i}
      <4> SUFFICES ASSUME NEW i \in DOMAIN part'[f] PROVE part'[f][i].index \in {0, i}
        OBVIOUS
      <4>1. i \in 1..length + 1
        BY <2>1, <2>5
      <4>2. CASE i = length + 1
        <5>1. part'[f][i] = NextBlock(get)
          BY <2>1, <2>5, <4>2
        <5>2. QED
          BY <3>1, <4>2, <5>1
      <4>3. CASE i # length + 1
        <5>1. i \in 1..length
          BY <2>4, <4>1, <4>3
        <5>2. i \in DOMAIN part[f] /\ part'[f][i] = part[f][i]
          BY <2>1, <2>5, <5>1
        <5>3. QED
          BY <1>1, <2>1, <5>2 DEF PartsFit
      <4>4. QED
        BY <4>2, <4>3
    <3>3. QED
      BY <1>1, <2>5, <3>2 DEF PartsFit
  <2>8. RequestFits'
    <3>1. /\ Received(get).id = get.id /\ Received(get).next = get.next + 1
          /\ Received(get).received = get.received + 1
      BY DEF Received
    <3>2. ~head
      BY <1>1, <2>2 DEF RequestFits
    <3>3. \A any \in gets' :
            /\ any.id = reply'
            /\ any.next = Len(part'[f'])
            /\ sizeAtPause' + any.received = Len(part'[f'])
            /\ downloadSize' = Len(part'[f'])
      <4>1. f' = f /\ reply' = reply /\ sizeAtPause' = sizeAtPause
        BY <2>3
      <4>2. /\ Received(get).next = length + 1
            /\ sizeAtPause + Received(get).received = length + 1
            /\ downloadSize' = length + 1
        BY <2>3, <2>4, <3>1
      <4>3. QED
        BY <2>2, <2>3, <2>6, <3>1, <4>1, <4>2
    <3>4. fileOpen' /\ ~head' /\ ~paused' /\ acceptRanges'
      BY <1>1, <2>2, <2>3, <3>2 DEF RequestFits
    <3>5. \A any, other2 \in gets' : any = other2
      BY <2>3
    <3>6. QED
      BY <3>3, <3>4, <3>5 DEF RequestFits
  <2>9. QED
    BY <2>7, <2>8
<1>5. QED
  BY <1>3, <1>4

\* A file that is finished leaves no .part file.
LEMMA FinishedFits ==
  ASSUME Inv, FitsInv, Finished
  PROVE  FitsInv'
<1> SUFFICES ASSUME Undisturbed' PROVE PartsFit' /\ RequestFits'
  BY DEF FitsInv
<1>1. Undisturbed
  <2>1. failures \in Nat
    BY MapDownloadAssumption DEF Inv, TypeOK
  <2>2. failures' = failures \/ failures' = failures + 1
    BY DEF Finished
  <2>3. QED
    BY <2>1, <2>2 DEF Finished, Undisturbed
<1>2. PartsFit /\ RequestFits
  BY <1>1 DEF FitsInv
<1>3. PICK get \in gets :
        IF ~fileOpen
        THEN Die
        ELSE /\ part' = [part EXCEPT ![currentFileIndex] = <<>>]
             /\ DownloadComplete
             /\ UNCHANGED <<other, paused>>
  BY DEF Finished
<1>4. CASE Die
  BY <1>2, <1>4, DieFits
<1>5. CASE ~Die
  <2>1. /\ part' = [part EXCEPT ![currentFileIndex] = <<>>]
        /\ DownloadComplete /\ paused' = paused
    BY <1>3, <1>5
  <2>2. ~paused
    BY <1>2, <1>3 DEF RequestFits, Inv, TypeOK, Get, GetIds
  <2>3. PartsFit'
    BY <1>2, <2>1 DEF PartsFit, Inv, TypeOK
  <2>4. /\ gets' = {} /\ ~fileOpen' /\ reply' \in {"NULL", "head"}
        /\ head' => reply' = "head"
    BY <2>1 DEF DownloadComplete, Download, Disconnected
  <2>5. QED
    BY <2>1, <2>2, <2>3, <2>4, NothingAsked
<1>6. QED
  BY <1>4, <1>5

LEMMA ClickDownloadFits ==
  ASSUME Inv, FitsInv, ClickDownload
  PROVE  FitsInv'
<1> SUFFICES ASSUME Undisturbed' PROVE PartsFit' /\ RequestFits'
  BY DEF FitsInv
<1>1. PartsFit /\ RequestFits
  BY DEF ClickDownload, counters, Undisturbed, FitsInv
<1>2. ~paused
  BY <1>1 DEF ClickDownload, RequestFits, Inv, RequestInv
<1>3. PartsFit'
  BY <1>1 DEF ClickDownload, filesVars, PartsFit
<1>4. QED
  BY <1>2, <1>3, NothingAsked DEF ClickDownload, Download

\* A pause that comes after some progress knows how much there is.
LEMMA ClickPauseFits ==
  ASSUME Inv, FitsInv, ClickPause
  PROVE  FitsInv'
<1> SUFFICES ASSUME Undisturbed' PROVE PartsFit' /\ RequestFits'
  BY DEF FitsInv
<1>1. PICK get \in gets : get.id = reply /\ get.received > 0
  BY DEF ClickPause, Undisturbed
<1>2. PartsFit /\ RequestFits
  BY DEF ClickPause, Undisturbed, FitsInv
<1>3. reply \in GetIds /\ reply # "head"
  BY <1>1 DEF Inv, TypeOK, Get, GetIds
<1>4. CASE PauseGet /\ paused' = TRUE
  <2>1. gets' = {} /\ reply' = "NULL" /\ UNCHANGED <<part, currentFileIndex, fileOpen, head>>
    BY <1>2, <1>4 DEF PauseGet, RequestFits, filesVars
  <2>2. sizeAtPause' = Len(part'[currentFileIndex']) /\ UNCHANGED acceptRanges
    BY <1>1, <1>2, <1>4, <2>1 DEF PauseGet, RequestFits
  <2>3. ~head' /\ fileOpen'
    BY <1>2, <1>3, <1>4, <2>1 DEF PauseGet, RequestFits
  <2>4. PartsFit'
    BY <1>2, <2>1 DEF PartsFit
  <2>5. RequestFits'
    BY <1>2, <1>4, <2>1, <2>2, <2>3 DEF RequestFits
  <2>6. QED
    BY <2>4, <2>5
<1>5. CASE Die
  BY <1>2, <1>5, DieFits
<1>6. QED
  BY <1>3, <1>4, <1>5 DEF ClickPause, PauseHead

\* A request that resumes asks for what comes after the .part file.
LEMMA ClickResumeFits ==
  ASSUME Inv, FitsInv, ClickResume
  PROVE  FitsInv'
<1> SUFFICES ASSUME Undisturbed' PROVE PartsFit' /\ RequestFits'
  BY DEF FitsInv
<1> DEFINE length == Len(part[currentFileIndex])
           sent   == NewGet(acceptRanges, sizeAtPause)
<1>1. PartsFit /\ RequestFits
  BY DEF ClickResume, counters, Undisturbed, FitsInv
<1>2. /\ reply = "NULL" /\ sizeAtPause = length /\ fileOpen /\ acceptRanges /\ ~head
  BY <1>1 DEF ClickResume, RequestFits
<1>3. gets = {}
  BY <1>1, <1>2 DEF RequestFits, Inv, TypeOK, Get, GetIds
<1>4. /\ gets' = {sent} /\ reply' = FreeId /\ ~paused'
      /\ UNCHANGED <<part, currentFileIndex, fileOpen, acceptRanges, sizeAtPause, head>>
  BY <1>3 DEF ClickResume, filesVars
<1>5. FreeId \in GetIds
  BY FreeIdFree DEF ClickResume
<1>6. sent.id = FreeId /\ sent.next = length /\ sent.received = 0
  BY <1>2 DEF NewGet
<1>7. sizeAtPause \in Nat
  BY DEF Inv, TypeOK
<1>8. PartsFit'
  BY <1>1, <1>4 DEF PartsFit
<1>9. RequestFits'
  <2> HIDE DEF sent
  <2>1. \A get \in gets' :
          /\ get.id = reply'
          /\ get.next = Len(part'[currentFileIndex'])
          /\ sizeAtPause' + get.received = Len(part'[currentFileIndex'])
          /\ ~(get.received > 0)
    BY <1>2, <1>4, <1>6, <1>7
  <2>2. QED
    BY <1>2, <1>4, <1>5, <2>1 DEF RequestFits
<1>10. QED
  BY <1>8, <1>9

\* Closing the dialog leaves the .part files, except the one that pause() empties.
LEMMA CloseDialogFits ==
  ASSUME Inv, FitsInv, CloseDialog
  PROVE  FitsInv'
<1> SUFFICES ASSUME Undisturbed' PROVE PartsFit' /\ RequestFits'
  BY DEF FitsInv
<1>1. PartsFit
  BY DEF CloseDialog, Undisturbed, FitsInv
<1>2. PartsFit'
  BY <1>1 DEF CloseDialog, PartsFit, Inv, TypeOK
<1>3. QED
  BY <1>2, NothingAsked DEF CloseDialog, Leave, Disconnected

LEMMA KilledFits ==
  ASSUME Inv, FitsInv, Killed \/ OrphanAnswered
  PROVE  FitsInv'
<1> SUFFICES ASSUME Undisturbed' PROVE PartsFit' /\ RequestFits'
  BY DEF FitsInv
<1>1. PartsFit /\ Die
  BY DEF Killed, OrphanAnswered, counters, Undisturbed, FitsInv
<1>2. QED
  BY <1>1, DieFits

\* What the files and the requests are is not touched by the other actions.
LEMMA OthersFit ==
  ASSUME FitsInv, UNCHANGED <<part, currentFileIndex, paused, httpVars, head, gets, smooth, failures>>
  PROVE  FitsInv'
BY DEF FitsInv, Undisturbed, PartsFit, RequestFits, httpVars

LEMMA NextFits == Inv /\ FitsInv /\ [Next]_vars => FitsInv'
<1> SUFFICES ASSUME Inv, FitsInv, [Next]_vars PROVE FitsInv'
  OBVIOUS
<1>1. CASE UNCHANGED vars
  BY <1>1, OthersFit DEF vars, filesVars, dialogVars, netVars, counters
<1>2. CASE SelectMap \/ NewVersion
  BY <1>2, OthersFit DEF SelectMap, NewVersion, filesVars, dialogVars, netVars, counters
<1>3. CASE Next
  BY <1>2, <1>3, HeadAnsweredFits, ProgressFits, FinishedFits, KilledFits, ClickDownloadFits,
     ClickPauseFits, ClickResumeFits, CloseDialogFits
     DEF Next, Network, User
<1>4. QED
  BY <1>1, <1>3

LEMMA InitFits == Init => FitsInv
  BY DEF Init, FitsInv, PartsFit, RequestFits, GetIds

\* A file that is resumed, or continued in a later attempt, has no gap and no block
\* twice, as long as the server takes ranges, no request fails and no pause comes
\* before any progress.
THEOREM ResumedFilesFit == Spec => []NoGapNoOverlap
<1>1. Inv /\ FitsInv => NoGapNoOverlap
  BY DEF Inv, RequestInv, FitsInv, Undisturbed, PartsFit, NoGapNoOverlap
<1>2. QED
  BY <1>1, InitInv, NextInv, InitFits, NextFits, PTL DEF Spec

==============================================================================
