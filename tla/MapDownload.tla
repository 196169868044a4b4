----------------------------- MODULE MapDownload ------------------------------
(***************************************************************************)
(* Downloading a map: the dialog DownloadMapDialog, which asks for one     *)
(* file of the map after the other and checks each against the list of     *)
(* checksums it downloaded first, and DownloadManagerHTTP, which sends a   *)
(* HEAD and a GET for a file, writes it to a .part file, can be paused and *)
(* resumed, and continues a .part file left by an earlier attempt.         *)
(*                                                                         *)
(* The server and the network are not in the repository: they answer, fail *)
(* half way, or publish a new version of the map.  What is modelled is the *)
(* folder of one map; another map of the list can be selected meanwhile,   *)
(* and the name of the next file is made with the one selected then.  All  *)
(* of it runs in the GUI thread; QNetworkReply::abort() delivers           *)
(* finished() at once to what is still connected, which pause() relies on. *)
(*                                                                         *)
(* A file is a sequence of blocks.  Block i of the list of checksums is    *)
(* the checksum of file i + 1.                                             *)
(***************************************************************************)
EXTENDS Naturals, Sequences

CONSTANTS NumFiles,    (* the files of a map; file 1 is md5sums            *)
          Size,        (* the blocks of any other file                     *)
          Ranges,      (* may the server accept byte ranges?               *)
          MaxVersion,  (* bound: versions of the map on the server         *)
          MaxSelects,  (* bound: selections of a map while downloading     *)
          MaxPauses,   (* bound: presses of the pause button               *)
          MaxFailures, (* bound: failing requests                          *)
          MaxStops     (* bound: the dialog closed or the process gone     *)

ASSUME MapDownloadAssumption ==
  /\ NumFiles \in Nat /\ NumFiles >= 2
  /\ Size \in Nat \ {0}
  /\ Ranges \in SUBSET BOOLEAN /\ Ranges # {}
  /\ MaxVersion \in Nat \ {0}
  /\ MaxSelects \in Nat
  /\ MaxPauses \in Nat /\ MaxFailures \in Nat /\ MaxStops \in Nat

VARIABLES
  serverVersion,    (* the version of the map on the server                *)
  disk,             (* the files of the map; one that is missing is empty   *)
  part,             (* the .part files                                     *)
  status,           (* the dialog: idle, downloading, failed, done         *)
  currentFileIndex, (* the file being downloaded; 0 if none is             *)
  other,            (* another map is selected                             *)
  paused,           (* the pause button says "Resume Download"             *)
  foreign,          (* the file being downloaded is that of another map    *)
  reply,            (* _pCurrentReply: NULL, head, or the id of a GET      *)
  fileOpen,         (* _pFile is not NULL                                  *)
  acceptRanges, downloadSize, sizeAtPause,
  head,             (* the HEAD request is on its way                      *)
  gets,             (* the GET requests on their way                       *)
  orphans,          (* requests of a finished file are on their way        *)
  selects, pauses, failures, stops,
  smooth            (* history: the server took ranges whenever asked, and no *)
                    (* pause came before any progress                      *)

filesVars  == <<disk, part>>
dialogVars == <<status, currentFileIndex, other, paused>>
httpVars   == <<foreign, reply, fileOpen, acceptRanges, downloadSize, sizeAtPause>>
netVars    == <<head, gets, orphans>>
counters   == <<selects, pauses, failures, stops>>
vars       == <<serverVersion, smooth, filesVars, dialogVars, httpVars, netVars, counters>>

Files    == 1..NumFiles
Versions == 1..MaxVersion

\* The files of another map count as one more version.
OtherMap == MaxVersion + 1
Editions == Versions \union {OtherMap}

\* A block of an error page belongs to no version.
Block     == [version : Editions \union {0}, index : Nat]
ErrorPage == [version |-> 0, index |-> 0]

Blocks(f) == IF f = 1 THEN NumFiles - 1 ELSE Size

Content(f, v) == [i \in 1..Blocks(f) |-> [version |-> v, index |-> i]]

GetIds == {"get1", "get2"}
Get    == [id : GetIds, next : Nat, received : Nat, version : Editions]

TypeOK ==
  /\ serverVersion \in Versions
  /\ disk \in [Files -> Seq(Block)] /\ part \in [Files -> Seq(Block)]
  /\ status \in {"idle", "downloading", "failed", "done"}
  /\ currentFileIndex \in 0..NumFiles
  /\ reply \in {"NULL", "head"} \union GetIds
  /\ other \in BOOLEAN /\ foreign \in BOOLEAN
  /\ paused \in BOOLEAN /\ fileOpen \in BOOLEAN /\ acceptRanges \in BOOLEAN
  /\ downloadSize \in Nat /\ sizeAtPause \in Nat
  /\ head \in BOOLEAN /\ orphans \in BOOLEAN
  /\ gets \in SUBSET Get
  /\ selects \in 0..MaxSelects /\ pauses \in 0..MaxPauses
  /\ failures \in 0..MaxFailures /\ stops \in 0..MaxStops
  /\ smooth \in BOOLEAN

Init ==
  /\ serverVersion = 1
  /\ disk = [f \in Files |-> <<>>] /\ part = [f \in Files |-> <<>>]
  /\ status = "idle" /\ currentFileIndex = 0 /\ other = FALSE /\ paused = FALSE
  /\ foreign = FALSE /\ reply = "NULL" /\ fileOpen = FALSE /\ acceptRanges = FALSE
  /\ downloadSize = 0 /\ sizeAtPause = 0
  /\ head = FALSE /\ gets = {} /\ orphans = FALSE
  /\ selects = 0 /\ pauses = 0 /\ failures = 0 /\ stops = 0
  /\ smooth = TRUE

------------------------------------------------------------------------------
(* DownloadManagerHTTP                                                     *)

\* No DownloadManagerHTTP is at work.
Disconnected ==
  /\ foreign' = FALSE /\ reply' = "NULL" /\ fileOpen' = FALSE /\ acceptRanges' = FALSE
  /\ downloadSize' = 0 /\ sizeAtPause' = 0
  /\ head' = FALSE /\ gets' = {}

Leave ==
  /\ status' = "idle" /\ currentFileIndex' = 0 /\ other' = FALSE /\ paused' = FALSE
  /\ Disconnected /\ orphans' = FALSE

\* download(url, path): a new DownloadManagerHTTP for file f of this map or another sends a HEAD.
Download(f, another) ==
  /\ currentFileIndex' = f
  /\ foreign' = another
  /\ reply' = "head" /\ head' = TRUE
  /\ fileOpen' = FALSE /\ acceptRanges' = FALSE
  /\ downloadSize' = 0 /\ sizeAtPause' = 0
  /\ gets' = {}

\* The process is gone, by a crash or by the system.  What was written since
\* the last flush may be lost.
Die ==
  /\ part' \in IF currentFileIndex = 0 THEN {part}
              ELSE {[part EXCEPT ![currentFileIndex] = SubSeq(@, 1, n)] :
                      n \in 0..Len(part[currentFileIndex])}
  /\ Leave
  /\ UNCHANGED disk

\* download(): a GET request, from an offset if the server takes ranges.
Free(i) == \A get \in gets : get.id # i
FreeId  == CHOOSE i \in GetIds : Free(i)

NewGet(ranges, from) ==
  [id |-> FreeId, next |-> IF ranges THEN from ELSE 0, received |-> 0,
   version |-> IF foreign THEN OtherMap ELSE serverVersion]

\* finishedHead(), with the headers of the answer: opens the .part file, empty
\* if it cannot be continued, and sends the GET.
FinishedHead(ranges) ==
  LET left == IF ranges THEN part[currentFileIndex] ELSE <<>>
      get  == NewGet(ranges, Len(left))
  IN  /\ head' = FALSE
      /\ acceptRanges' = ranges
      /\ part' = [part EXCEPT ![currentFileIndex] = left]
      /\ fileOpen' = TRUE
      /\ gets' = gets \union {get}

\* The answer to the HEAD, or an error, which has no headers.
HeadAnswered ==
  /\ head
  /\ \/ \E ranges \in Ranges : FinishedHead(ranges) /\ UNCHANGED failures
     \/ /\ failures < MaxFailures
        /\ failures' = failures + 1
        /\ FinishedHead(FALSE)
  /\ reply' = FreeId
  /\ sizeAtPause' = Len(part'[currentFileIndex])
  /\ smooth' = (smooth /\ acceptRanges')
  /\ UNCHANGED <<serverVersion, disk, dialogVars, foreign, downloadSize, orphans,
                 selects, pauses, stops>>

\* The next block of get, or the page of an error if there is none.
NextBlock(get) ==
  IF get.next < Blocks(currentFileIndex)
  THEN [version |-> get.version, index |-> get.next + 1]
  ELSE ErrorPage

Received(get) ==
  [id |-> get.id, next |-> get.next + 1, received |-> get.received + 1,
   version |-> get.version]

\* downloadProgress(): reads whatever _pCurrentReply has, which is not
\* necessarily the reply that made progress.
Progress ==
  \E get \in gets :
    /\ get.next < Blocks(currentFileIndex) \/ get.received = 0
    /\ IF reply = "NULL" \/ ~fileOpen
       THEN Die
       ELSE /\ part' = IF reply = get.id
                       THEN [part EXCEPT ![currentFileIndex] = Append(@, NextBlock(get))]
                       ELSE part
            /\ downloadSize' = sizeAtPause + get.received + 1
            /\ gets' = (gets \ {get}) \union {Received(get)}
            /\ UNCHANGED <<disk, dialogVars, foreign, reply, fileOpen, acceptRanges, sizeAtPause,
                           head, orphans>>
    /\ UNCHANGED <<serverVersion, smooth, counters>>

\* md5sum() of file f is in a line of md5sums that has its name; md5sums itself
\* is not checked.
Intact(files, f) ==
  \E i \in DOMAIN files[1] :
    /\ files[1][i].index = f - 1
    /\ files[f] = Content(f, files[1][i].version)

\* Mutant: any line with the name of the file will do.
CheckName(files, f) == f = 1 \/ \E i \in DOMAIN files[1] : files[1][i].index = f - 1

\* checkmd5sum()
CheckMd5Sum(files, f) == f = 1 \/ Intact(files, f)

\* onDownloadComplete of the dialog: the next file, or the end.
DownloadComplete ==
  LET correct == CheckMd5Sum(disk', currentFileIndex)
  IN  IF correct /\ currentFileIndex < NumFiles
      THEN Download(currentFileIndex + 1, other) /\ UNCHANGED status
      ELSE /\ Disconnected
           /\ status' = IF correct THEN "done" ELSE "failed"
           /\ UNCHANGED currentFileIndex

\* Mutant: the .part file stays.
FinishedKeepingPart ==
  \E get \in gets :
    /\ \/ get.next >= Blocks(currentFileIndex) /\ UNCHANGED failures
       \/ failures < MaxFailures /\ failures' = failures + 1
    /\ IF ~fileOpen
       THEN Die
       ELSE /\ disk' = [disk EXCEPT ![currentFileIndex] = part[currentFileIndex]]
            /\ orphans' = (orphans \/ head \/ gets # {get})
            /\ DownloadComplete
            /\ UNCHANGED <<part, other, paused>>
    /\ UNCHANGED <<serverVersion, smooth, selects, pauses, stops>>

\* finished(): the .part file becomes the file, whether or not the request
\* failed half way.
Finished ==
  \E get \in gets :
    /\ \/ get.next >= Blocks(currentFileIndex) /\ UNCHANGED failures
       \/ failures < MaxFailures /\ failures' = failures + 1
    /\ IF ~fileOpen
       THEN Die
       ELSE /\ disk' = [disk EXCEPT ![currentFileIndex] = part[currentFileIndex]]
            /\ part' = [part EXCEPT ![currentFileIndex] = <<>>]
            /\ orphans' = (orphans \/ head \/ gets # {get})
            /\ DownloadComplete
            /\ UNCHANGED <<other, paused>>
    /\ UNCHANGED <<serverVersion, smooth, selects, pauses, stops>>

\* Another request of a file that is finished gets an answer: _pFile is NULL.
OrphanAnswered ==
  /\ orphans
  /\ Die
  /\ UNCHANGED <<serverVersion, smooth, counters>>

------------------------------------------------------------------------------
(* The dialog                                                              *)

\* The button downloads the map that is selected: this one.
ClickDownload ==
  /\ status # "downloading"
  /\ status' = "downloading"
  /\ other' = FALSE
  /\ Download(1, FALSE)
  /\ UNCHANGED <<serverVersion, smooth, filesVars, paused, orphans, counters>>

\* pause() while the HEAD is on its way: abort() calls finishedHead(), which
\* sends a GET that pause() then forgets.
PauseHead ==
  /\ reply = "head"
  /\ FinishedHead(FALSE)
  /\ reply' = "NULL"
  /\ sizeAtPause' = downloadSize /\ downloadSize' = 0
  /\ UNCHANGED <<disk, status, currentFileIndex, other, foreign, orphans>>

\* Mutant: the size at an earlier pause is kept.
PauseGetAtOldSize ==
  /\ reply \in GetIds
  /\ fileOpen
  /\ gets' = {get \in gets : get.id # reply}
  /\ reply' = "NULL"
  /\ downloadSize' = 0
  /\ UNCHANGED <<filesVars, status, currentFileIndex, other, foreign, fileOpen,
                 acceptRanges, sizeAtPause, head, orphans>>

\* pause() otherwise.
PauseGet ==
  /\ reply \in GetIds
  /\ fileOpen
  /\ gets' = {get \in gets : get.id # reply}
  /\ reply' = "NULL"
  /\ sizeAtPause' = downloadSize /\ downloadSize' = 0
  /\ UNCHANGED <<filesVars, status, currentFileIndex, other, foreign, fileOpen,
                 acceptRanges, head, orphans>>

\* In the last case there is no file to flush.  There always is a request: the
\* button would say "Resume Download" otherwise.
ClickPause ==
  /\ status = "downloading" /\ ~paused
  /\ pauses < MaxPauses
  /\ pauses' = pauses + 1
  /\ \/ PauseHead /\ paused' = TRUE
     \/ PauseGet /\ paused' = TRUE
     \/ reply \in GetIds /\ ~fileOpen /\ Die
  /\ smooth' = (smooth /\ \E get \in gets : get.id = reply /\ get.received > 0)
  /\ UNCHANGED <<serverVersion, selects, failures, stops>>

ClickResume ==
  /\ status = "downloading" /\ paused
  /\ \E i \in GetIds : Free(i)
  /\ paused' = FALSE
  /\ gets' = gets \union {NewGet(acceptRanges, sizeAtPause)}
  /\ reply' = FreeId
  /\ UNCHANGED <<serverVersion, smooth, filesVars, status, currentFileIndex, other, foreign,
                 fileOpen, acceptRanges, downloadSize, sizeAtPause, head, orphans, counters>>

\* A click on another map of the list, or on this one again.
SelectMap ==
  /\ status = "downloading"
  /\ selects < MaxSelects
  /\ selects' = selects + 1
  /\ other' = ~other
  /\ UNCHANGED <<serverVersion, smooth, filesVars, status, currentFileIndex, paused, httpVars,
                 netVars, pauses, failures, stops>>

\* Closing the dialog destroys everything; ~DownloadManagerHTTP pauses.
CloseDialog ==
  /\ stops < MaxStops
  /\ stops' = stops + 1
  /\ part' = IF reply = "head" THEN [part EXCEPT ![currentFileIndex] = <<>>] ELSE part
  /\ Leave
  /\ UNCHANGED <<serverVersion, smooth, disk, selects, pauses, failures>>

Killed ==
  /\ stops < MaxStops
  /\ stops' = stops + 1
  /\ Die
  /\ UNCHANGED <<serverVersion, smooth, selects, pauses, failures>>

NewVersion ==
  /\ serverVersion < MaxVersion
  /\ serverVersion' = serverVersion + 1
  /\ UNCHANGED <<smooth, filesVars, dialogVars, httpVars, netVars, counters>>

------------------------------------------------------------------------------
Network == HeadAnswered \/ Progress \/ Finished \/ OrphanAnswered

User ==
  \/ ClickDownload \/ ClickPause \/ ClickResume \/ SelectMap
  \/ CloseDialog \/ Killed

Next == Network \/ User \/ NewVersion

Spec == Init /\ [][Next]_vars

\* The network answers in the end, and the user resumes and tries again.
FairSpec ==
  /\ Spec
  /\ WF_vars(Network)
  /\ WF_vars(ClickResume)
  /\ WF_vars(ClickDownload)

------------------------------------------------------------------------------
(* Properties                                                              *)

Complete(f) == f < currentFileIndex \/ (status = "done" /\ f = currentFileIndex)

\* While the dialog goes on and when it is done, every file it is through with
\* is a complete file of a version that md5sums lists, whatever was paused,
\* continued, lost or left over from earlier attempts, and whichever map of the
\* list was selected meanwhile.
VerifiedIntact ==
  status \in {"downloading", "done"} =>
    \A f \in Files \ {1} : Complete(f) => Intact(disk, f)

\* A file that is resumed, or continued in a later attempt, has no gap and no
\* block twice: what is in the .part file, where _nDownloadSizeAtPause says it
\* ends, and what the server still sends belong together.  It takes a server
\* with ranges, requests that do not fail and no pause before any progress.
NoGapNoOverlap ==
  smooth /\ failures = 0 /\ fileOpen => \A i \in DOMAIN part[currentFileIndex] :
                part[currentFileIndex][i].index \in {0, i}

\* However often a download is paused, interrupted, cut off or spoilt by a
\* left-over .part file, a user who tries again gets the map in the end.
EventuallyInstalled == <>(status = "done")

==============================================================================
