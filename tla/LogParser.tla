----------------------------- MODULE LogParser -----------------------------
(***************************************************************************)
(* The parser of the server's CSV log (internal/reaper/logparser*.go):     *)
(* it counts lines and sends the counts at every interval.  On the same    *)
(* host it reads the files itself, line by line; elsewhere it asks the     *)
(* server for chunks of at most maxChunkSize.  Meanwhile the server        *)
(* appends lines and rotates from file to file.                            *)
(*                                                                         *)
(* A line is a number, in the order of writing, and LineSize units long;   *)
(* lines are written whole.  Even lines are of the monitored database.     *)
(* The word of severity the parser finds in a line, translated, is one of  *)
(* pgSeverities or not (a language it has no words for, or a field it      *)
(* takes for the severity).                                                *)
(*                                                                         *)
(* Times are as coarse as pg_ls_logdir and the file system give them: two  *)
(* writes may have the same.                                               *)
(*                                                                         *)
(* A definition Defect_X is not part of the specification: it is a slip    *)
(* the definition below it could have, kept to show that the properties    *)
(* notice it.                                                              *)
(***************************************************************************)
EXTENDS Naturals, FiniteSets, Sequences, SequencesExt, FiniteSetsExt

CONSTANTS
  File,
  None,
  LineSize,
  maxChunkSize,
  maxTrackedFiles,
  Severity, pgSeverities,   \* words of severity, and the eight that are sent
  SeverityOf,               \* [Line -> Severity]
  MaxLines, MaxRotations,   \* bounds: what the server writes
  MaxFaults,                \* bound: failed reads and queries
  MaxOffset                 \* bound: how far a reader goes behind the end of a file

Line == 1..MaxLines

ASSUME LogParserAssumption ==
  /\ IsFiniteSet(File) /\ None \notin File /\ None \notin Nat /\ None \notin Seq(Nat)
  /\ LineSize \in Nat \ {0} /\ maxChunkSize \in Nat /\ maxChunkSize >= LineSize
  /\ maxTrackedFiles \in Nat /\ MaxLines \in Nat \ {0} /\ MaxRotations \in Nat /\ MaxFaults \in Nat
  /\ MaxOffset \in Nat
  /\ pgSeverities \subseteq Severity /\ SeverityOf \in [Line -> Severity]

VARIABLES
  \* the server
  content,     \* [File -> Seq(Line)], None if there is no such file
  modified,    \* [File -> Nat]: the times of the last writes
  active,      \* the file being written
  now,         \* the time
  lines,       \* lines written so far
  rotations,   \* rotations so far
  truncate,    \* log_truncate_on_rotation
  \* the parser
  local,       \* it reads the files itself
  pc,
  latest,      \* latest, latestLogFile
  firstRun,
  fileOffsets, \* [File -> Nat or None]: lines of a file, its size if remote
  linesRead,   \* of the open file (local)
  position,    \* of the reader in the open file, in lines (local)
  offset, size, modification,   \* of the remote file
  chunk,       \* lines of the chunk that are to be parsed; <<line, whole>>
  eventCounts, eventCountsTotal,   \* [Severity -> Nat]
  faults,
  \* what became of the lines
  stored,      \* <<of the database, of all>>: the sums of what was sent, by severity
  counted,     \* [Line -> Nat]
  cut,         \* lines a chunk ended in
  origin,      \* [File -> Nat or None]: the line from which a file was read
  reused,      \* the server went back to a file it had written before
  tied         \* two files had the same time of modification

serverVars == <<content, modified, active, now, lines, rotations, truncate, reused, tied>>
countVars  == <<eventCounts, eventCountsTotal, stored, counted>>
remoteVars == <<offset, size, modification, chunk, cut>>
localVars  == <<linesRead, position>>
vars == <<serverVars, countVars, remoteVars, localVars, local, pc, latest, firstRun,
          fileOffsets, faults, origin>>

Exists == {f \in File : content[f] # None}
Bytes(f) == LineSize * Len(content[f])

\* The types.  The parser keeps the offsets of a bounded number of files.
TypeOK ==
  /\ content \in [File -> Seq(Line) \cup {None}] /\ modified \in [File -> Nat] /\ active \in Exists
  /\ now \in Nat /\ lines \in 0..MaxLines /\ rotations \in 0..MaxRotations
  /\ truncate \in BOOLEAN /\ local \in BOOLEAN /\ reused \in BOOLEAN /\ tied \in BOOLEAN
  /\ pc \in {"start", "open", "read", "wait", "fetch", "lines", "next"}
  /\ latest \in File \cup {None} /\ firstRun \in BOOLEAN
  /\ fileOffsets \in [File -> Nat \cup {None}]
  /\ Cardinality({f \in File : fileOffsets[f] # None}) <= maxTrackedFiles
  /\ linesRead \in Nat /\ position \in Nat
  /\ offset \in Nat /\ size \in Nat /\ modification \in Nat
  /\ chunk \in Seq(Line \X BOOLEAN) /\ cut \subseteq Line
  /\ eventCounts \in [Severity -> Nat] /\ eventCountsTotal \in [Severity -> Nat] /\ faults \in 0..MaxFaults
  /\ stored \in [pgSeverities -> Nat] \X [pgSeverities -> Nat] /\ counted \in [Line -> Nat] /\ origin \in [File -> Nat \cup {None}]

\* ParseLogs has chosen one of the ways.
Init ==
  /\ \E f \in File : /\ active = f
                     /\ content = [g \in File |-> IF g = f THEN <<1>> ELSE None]
                     /\ modified = [g \in File |-> IF g = f THEN 1 ELSE 0]
  /\ now = 1 /\ lines = 1 /\ rotations = 0 /\ truncate \in BOOLEAN /\ reused = FALSE /\ tied = FALSE
  /\ local \in BOOLEAN /\ pc = "start" /\ latest = None /\ firstRun = TRUE
  /\ fileOffsets = [f \in File |-> None]
  /\ linesRead = 0 /\ position = 0
  /\ offset = 0 /\ size = 0 /\ modification = 0 /\ chunk = <<>> /\ cut = {}
  /\ eventCounts = [s \in Severity |-> 0] /\ eventCountsTotal = [s \in Severity |-> 0] /\ faults = 0
  /\ stored = <<[s \in pgSeverities |-> 0], [s \in pgSeverities |-> 0]>>
  /\ counted = [l \in Line |-> 0] /\ origin = [f \in File |-> None]

-----------------------------------------------------------------------------
(* The server.                                                             *)

\* A file is modified, in the same unit of time as the last one or later.
Modify(f) ==
  /\ now' \in {now, now + 1}
  /\ modified' = [modified EXCEPT ![f] = now']
  /\ tied' = (tied \/ \E g \in Exists \ {f} : modified[g] = now')

WriteLine ==
  /\ lines < MaxLines /\ lines' = lines + 1
  /\ content' = [content EXCEPT ![active] = Append(@, lines')]
  /\ Modify(active)
  /\ UNCHANGED <<active, rotations, truncate, reused, countVars, remoteVars, localVars,
                 local, pc, latest, firstRun, fileOffsets, faults, origin>>

RotateTo(f) ==
  /\ f # active /\ rotations < MaxRotations
  /\ rotations' = rotations + 1 /\ active' = f
  /\ content' = [content EXCEPT ![f] = IF @ = None \/ truncate THEN <<>> ELSE @]
  /\ Modify(f)
  /\ reused' = (reused \/ f \in Exists)
  /\ UNCHANGED <<lines, truncate, countVars, remoteVars, localVars,
                 local, pc, latest, firstRun, fileOffsets, faults, origin>>

-----------------------------------------------------------------------------
(* Counting and sending.                                                   *)

Own(l) == l % 2 = 0

\* GetMeasurementEnvelope and zeroEventCounts go through pgSeverities: any other
\* word is neither sent nor cleared.
Sent(sums, counts) == [s \in pgSeverities |-> sums[s] + counts[s]]

Defect_ZeroNothing(counts) == counts
zeroEventCounts(counts) == [s \in Severity |-> IF s \in pgSeverities THEN 0 ELSE counts[s]]

\* send_to_storage_if_needed: the interval has elapsed or not.
SendIfNeeded(own, all) ==
  \/ eventCounts' = own /\ eventCountsTotal' = all /\ UNCHANGED stored
  \/ /\ stored' = <<Sent(stored[1], own), Sent(stored[2], all)>>
     /\ eventCounts' = zeroEventCounts(own) /\ eventCountsTotal' = zeroEventCounts(all)

Count(l) ==
  LET s == SeverityOf[l]
  IN /\ counted' = [counted EXCEPT ![l] = @ + 1]
     /\ SendIfNeeded(IF Own(l) THEN [eventCounts EXCEPT ![s] = @ + 1] ELSE eventCounts,
                     [eventCountsTotal EXCEPT ![s] = @ + 1])

CountNothing == UNCHANGED counted /\ SendIfNeeded(eventCounts, eventCountsTotal)

Fault == faults < MaxFaults /\ faults' = faults + 1

\* Most recently and next modified; of several, the order of names decides.
LatestFiles == {f \in Exists : \A g \in Exists : modified[g] <= modified[f]}
NewerThan(time) == {f \in Exists : modified[f] > time}

Defect_NewestFiles(time) ==
  {f \in NewerThan(time) : \A g \in NewerThan(time) : modified[g] <= modified[f]}
NextFiles(time) ==
  {f \in NewerThan(time) : \A g \in NewerThan(time) : modified[f] <= modified[g]}

Defect_NeverClear(value) ==
  fileOffsets' = IF truncate THEN fileOffsets ELSE [fileOffsets EXCEPT ![latest] = value]

\* The place where reading stopped is kept, unless files are truncated.
Remember(value) ==
  LET kept == [fileOffsets EXCEPT ![latest] = value]
  IN fileOffsets' = IF truncate THEN fileOffsets
                    ELSE IF Cardinality({f \in File : kept[f] # None}) > maxTrackedFiles
                    THEN [f \in File |-> None] ELSE kept

Opened(f, line) == origin' = [origin EXCEPT ![f] = IF @ = None THEN line ELSE @]

-----------------------------------------------------------------------------
(* parseLogsLocal.                                                         *)

FindLatest ==
  /\ local /\ pc = "start"
  /\ latest' \in LatestFiles /\ pc' = "open"
  /\ UNCHANGED <<serverVars, countVars, remoteVars, localVars, local, firstRun, fileOffsets, faults, origin>>

\* The first file is read from its end, one that was left from the line where
\* it was left, any other from its beginning.
OpenFile ==
  LET known == fileOffsets[latest] # None
      skip  == IF known THEN fileOffsets[latest] ELSE 0
      have  == Len(content[latest])
  IN /\ pc = "open"
     /\ IF known /\ skip > 0
        THEN /\ position' = Min({skip, have})
             /\ linesRead' = IF have + 1 < skip THEN 0 ELSE skip
             /\ UNCHANGED firstRun
        ELSE /\ position' = IF firstRun THEN have ELSE 0
             /\ linesRead' = IF known THEN 0 ELSE linesRead
             /\ firstRun' = FALSE
     /\ pc' = "read" /\ Opened(latest, position')
     /\ UNCHANGED <<serverVars, countVars, remoteVars, local, latest, fileOffsets, faults>>

OpenFails ==
  /\ pc = "open" /\ Fault
  /\ pc' = IF firstRun THEN "start" ELSE "open"
  /\ UNCHANGED <<serverVars, countVars, remoteVars, localVars, local, latest, firstRun, fileOffsets, origin>>

ReadLine ==
  /\ pc = "read" /\ position < Len(content[latest])
  /\ position' = position + 1 /\ linesRead' = linesRead + 1
  /\ Count(content[latest][position + 1])
  /\ UNCHANGED <<serverVars, remoteVars, local, pc, latest, firstRun, fileOffsets, faults, origin>>

\* The handle is given up, linesRead is not.
ReadFails ==
  /\ pc = "read" /\ Fault /\ pc' = "open"
  /\ UNCHANGED <<serverVars, countVars, remoteVars, localVars, local, latest, firstRun, fileOffsets, origin>>

\* The end of the file: wait for an interval.
ReachEnd ==
  /\ pc = "read" /\ position >= Len(content[latest])
  /\ pc' = "wait"
  /\ UNCHANGED <<serverVars, countVars, remoteVars, localVars, local, latest, firstRun, fileOffsets, faults, origin>>

\* After it, go on to the next file if there is one, else try again.
LookForNewFile ==
  /\ pc = "wait"
  /\ \/ \E file \in NextFiles(modified[latest]) :
          /\ Remember(linesRead)
          /\ latest' = file /\ linesRead' = 0 /\ pc' = "open"
          /\ UNCHANGED countVars
     \/ /\ NextFiles(modified[latest]) = {}
        /\ pc' = "read" /\ CountNothing /\ UNCHANGED <<fileOffsets, latest, linesRead>>
  /\ UNCHANGED <<serverVars, remoteVars, local, position, firstRun, faults, origin>>

-----------------------------------------------------------------------------
(* parseLogsRemote.                                                        *)

FindLatestRemote ==
  /\ ~local /\ pc = "start"
  /\ latest' \in LatestFiles
  /\ size' = Bytes(latest') /\ offset' = size' /\ modification' = modified[latest']
  /\ firstRun' = FALSE /\ pc' = "fetch" /\ Opened(latest', Len(content[latest']))
  /\ UNCHANGED <<serverVars, countVars, chunk, cut, localVars, local, fileOffsets, faults>>

Defect_KeepOffset(at, length, rest) == at + length

\* The last line of a full chunk is read again.
OffsetAfter(at, length, rest) == IF length = maxChunkSize THEN at + length - rest ELSE at + length

\* If the file was shortened, size - offset is huge, being unsigned.
SizeToRead == IF size >= offset THEN Min({maxChunkSize, size - offset}) ELSE maxChunkSize

\* What the file has between two offsets: a line whose beginning lies before
\* the first is none; one whose end lies behind the second is cut.  Behind the
\* end of the file there is nothing.
FetchChunk ==
  LET length == SizeToRead
      end    == Min({offset + length, Max({offset, Bytes(latest)})})
      starts == {i \in 1..Len(content[latest]) : LineSize * (i - 1) >= offset /\ LineSize * (i - 1) < end}
      rest   == end - Max({offset, LineSize * (end \div LineSize)})
  IN /\ pc = "fetch" /\ chunk = <<>> /\ size # offset /\ offset + length <= MaxOffset
     /\ chunk' = [j \in 1..Cardinality(starts) |->
                    LET i == Min(starts) + j - 1 IN <<content[latest][i], LineSize * i <= end>>]
     /\ cut' = cut \cup {chunk'[j][1] : j \in {j \in DOMAIN chunk' : ~chunk'[j][2]}}
     /\ offset' = OffsetAfter(offset, length, rest)
     /\ pc' = "lines"
     /\ UNCHANGED <<serverVars, countVars, size, modification, localVars, local, latest, firstRun,
                    fileOffsets, faults, origin>>

\* The offset has moved already.
FetchFails ==
  /\ pc = "fetch" /\ chunk = <<>> /\ size # offset /\ offset + SizeToRead <= MaxOffset /\ Fault
  /\ offset' = offset + SizeToRead
  /\ UNCHANGED <<serverVars, countVars, size, modification, chunk, cut, localVars, local, pc, latest,
                 firstRun, fileOffsets, origin>>

NothingToFetch ==
  /\ pc = "fetch" /\ size = offset /\ pc' = "lines"
  /\ UNCHANGED <<serverVars, countVars, remoteVars, localVars, local, latest, firstRun, fileOffsets, faults, origin>>

\* A line that was cut counts if what is there of it reaches to the severity.
ParseLine ==
  /\ pc = "lines" /\ chunk # <<>>
  /\ chunk' = Tail(chunk)
  /\ Count(Head(chunk)[1]) \/ (~Head(chunk)[2] /\ CountNothing)
  /\ UNCHANGED <<serverVars, offset, size, modification, cut, localVars, local, pc, latest, firstRun,
                 fileOffsets, faults, origin>>

\* All is parsed and an interval over: if the file has grown, or is not read to
\* its end, go on with it; else, or if the query fails, look for the next one.
StatFile ==
  /\ pc = "lines" /\ chunk = <<>>
  /\ \/ /\ modification' = modified[latest] /\ UNCHANGED faults
        /\ IF size = Bytes(latest) /\ offset = size
           THEN pc' = "next" /\ UNCHANGED size
           ELSE pc' = "fetch" /\ size' = Bytes(latest)
     \/ Fault /\ pc' = "next" /\ UNCHANGED <<modification, size>>
  /\ UNCHANGED <<serverVars, countVars, offset, chunk, cut, localVars, local, latest, firstRun,
                 fileOffsets, origin>>

NextRemoteFile ==
  /\ pc = "next"
  /\ \/ \E file \in NextFiles(modification) \ {latest} :
          /\ Remember(size)
          /\ latest' = file /\ size' = Bytes(file)
          /\ offset' = IF ~truncate /\ fileOffsets'[file] # None THEN fileOffsets'[file] ELSE 0
          /\ pc' = "fetch" /\ Opened(file, offset' \div LineSize)
          /\ UNCHANGED <<faults, countVars>>
     \/ /\ IF NextFiles(modification) = {} \/ latest \in NextFiles(modification)
           THEN UNCHANGED faults ELSE Fault
        /\ pc' = "lines" /\ CountNothing
        /\ UNCHANGED <<fileOffsets, latest, size, offset, origin>>
  /\ UNCHANGED <<serverVars, modification, chunk, cut, localVars, local, firstRun>>

Parse ==
  \/ FindLatest \/ OpenFile \/ ReadLine \/ ReachEnd \/ LookForNewFile
  \/ FindLatestRemote \/ FetchChunk \/ NothingToFetch \/ ParseLine \/ StatFile \/ NextRemoteFile

Next ==
  \/ WriteLine \/ \E f \in File : RotateTo(f)
  \/ Parse \/ OpenFails \/ ReadFails \/ FetchFails

Spec == Init /\ [][Next]_vars

\* The parser's goroutine runs on.
FairSpec == Spec /\ WF_vars(Parse)

-----------------------------------------------------------------------------
(* Properties.                                                             *)

\* What was sent and what is at hand of the counts of a severity.
Accounted(sums, counts, s) == IF s \in pgSeverities THEN sums[s] + counts[s] ELSE counts[s]

\* Nothing parsed is stored twice or forgotten: of each of pgSeverities, what was
\* sent and the counts at hand make up what was parsed, of the database and in
\* all; of any other word, the counts at hand do, for they are never sent.
CountsConserved ==
  \A s \in Severity :
    LET of == {l \in Line : SeverityOf[l] = s}
    IN /\ Accounted(stored[1], eventCounts, s) = MapThenSumSet(LAMBDA l : counted[l], {l \in of : Own(l)})
       /\ Accounted(stored[2], eventCountsTotal, s) = MapThenSumSet(LAMBDA l : counted[l], of)

\* As long as no read fails, the lines of a file that are parsed are parsed one
\* after the other from where its reading began, none between two of them left
\* out and none twice but one that a chunk ended in: over the boundaries of
\* chunks, and also when the server comes back to a file that was read from its
\* beginning before.  Behind the last of them there may be lines that nobody
\* reads (see LeftAtItsEnd).
EachLineOnce ==
  faults = 0 /\ Cardinality(Exists) <= maxTrackedFiles /\ ~(reused /\ truncate) =>
    \A f \in Exists :
      origin[f] # None /\ (reused /\ local => origin[f] = 0) =>
        LET parsed == {i \in DOMAIN content[f] : counted[content[f][i]] > 0}
        IN /\ \A i \in parsed : (origin[f] + 1)..i \subseteq parsed /\ i > origin[f]
           /\ \A i \in parsed : counted[content[f][i]] = 1 \/ content[f][i] \in cut

\* The files that were opened follow one another in the order of their last
\* writes, although the place where the parser looks for the next one may be out
\* of date, whichever reads and queries fail: none between two of them is left
\* out, unless the server uses a file again or two files had the same time.
NoFilePassedOver ==
  ~reused /\ ~tied =>
    \A f, g, h \in Exists :
      origin[f] # None /\ modified[f] < modified[g] /\ modified[g] < modified[h] /\ origin[h] # None
        => origin[g] # None

\* Every new file is opened: whatever file the server turns to while the
\* parser runs is opened in the end, however many more rotations happen before
\* the parser looks and although reads fail, unless the server uses a file again
\* or two files had the same time.
EveryFileOpened ==
  \A f \in File : (~firstRun /\ f = active) ~> (origin[f] # None \/ reused \/ tied)

-----------------------------------------------------------------------------
(* What comments of the code say and the code does not do.                 *)

\* linesRead is there "to skip over already parsed lines": no line is parsed
\* twice.
NeverTwice == \A l \in Line : counted[l] <= 1

\* "EOF reached, wait for new files to be added": a file is left for the next one
\* only at its end, if nothing failed.
LeftAtItsEnd ==
  [][local /\ faults' = 0 /\ latest # None /\ latest' # latest => position >= Len(content[latest])]_vars

\* The counts are "zeroed on storage send": of what was counted nothing is at
\* hand after a send.
ZeroedOnSend ==
  [][stored' # stored => \A s \in Severity : eventCounts'[s] = 0]_vars
=============================================================================
