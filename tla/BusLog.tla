-------------------------------- MODULE BusLog --------------------------------
(***************************************************************************)
(* The two files a bus writes: the log of its events and the table of its  *)
(* tags.  The functions that set the bus up leave both streams open, the   *)
(* functions that write open them again.                                   *)
(*                                                                         *)
(* std::ofstream is external: opening an open stream fails, a stream that  *)
(* failed swallows what is written until an open succeeds, and what is     *)
(* buffered is in the file once the stream is closed.  A line is a member  *)
(* of a small set, and so is the table.                                    *)
(***************************************************************************)
EXTENDS Naturals, Sequences, SequencesExt

CONSTANTS
  VISUALIZES,   \* node_id % 10 = 1: this cluster has a table
  Records,      \* what log_to_data may write
  HEADER,       \* the line with the titles
  Tables,       \* what the tags may look like
  MaxStarts,    \* bound: how often the simulation is loaded
  MaxRecords    \* bound: records of one start

ASSUME LogAssumption ==
  /\ VISUALIZES \in BOOLEAN /\ HEADER \notin Records
  /\ MaxStarts \in Nat /\ MaxRecords \in Nat

VARIABLES
  writable,     \* the directory exists and may be written to
  datafile, logFile,            \* stream and content of the log
  myfile, visFile, visualizing, \* stream and content of the table
  tags,         \* what the tags look like
  running,
  starts,
  archive,      \* the log when the simulation was loaded (history)
  logged,       \* the records since (history)
  drawn         \* the tables since (history): two at least, or fewer

logVars  == <<datafile, logFile>>
visVars  == <<myfile, visFile, visualizing>>
fileVars == <<writable, logVars, visVars, tags, running, starts, archive, logged, drawn>>

Streams(buffers) == [file : {"open", "closed"}, state : {"good", "fail"}, buffer : buffers]
Stream(file, state, buffer) == [file |-> file, state |-> state, buffer |-> buffer]
Closed == Stream("closed", "good", <<>>)

LogTypeOK ==
  /\ writable \in BOOLEAN /\ visualizing \in BOOLEAN /\ running \in BOOLEAN
  /\ datafile \in Streams({<<>>, <<HEADER>>})
  /\ myfile \in Streams({<<>>})
  /\ logFile \in Seq(Records \cup {HEADER}) /\ archive \in Seq(Records \cup {HEADER})
  /\ logged \in Seq(Records) /\ drawn \in Seq(Tables)
  /\ visFile \in {<<>>} \cup {<<t>> : t \in Tables} /\ tags \in Tables
  /\ starts \in 0 .. MaxStarts

LogInit ==
  /\ writable \in BOOLEAN
  /\ datafile = Closed /\ myfile = Closed
  /\ logFile = <<>> /\ visFile = <<>> /\ visualizing = FALSE
  /\ tags \in Tables
  /\ running = FALSE /\ starts = 0
  /\ archive = <<>> /\ logged = <<>> /\ drawn = <<>>

-----------------------------------------------------------------------------
(* std::ofstream.                                                           *)

Opens(stream) == writable /\ stream.file = "closed"
Open(stream) ==
  IF Opens(stream) THEN Stream("open", "good", <<>>) ELSE [stream EXCEPT !.state = "fail"]

Takes(stream) == stream.file = "open" /\ stream.state = "good"
Write(stream, line) ==
  IF Takes(stream) THEN [stream EXCEPT !.buffer = Append(@, line)]
  ELSE [stream EXCEPT !.state = "fail"]

Close(stream) == Stream("closed", stream.state, <<>>)

-----------------------------------------------------------------------------
(* The bus.                                                                 *)

(* Seeded fault: a line too many. *)
OpenLoggingFile_twice == Write(Write(Open(Closed), HEADER), HEADER)

(* openLoggingFile: the titles stay in the stream's buffer. *)
OpenLoggingFile == Write(Open(Closed), HEADER)

(* Seeded fault: the stream is left open. *)
LogToData_open(record) ==
  LET stream == Write(Open(datafile), record)
  IN  datafile' = stream /\ UNCHANGED logFile

(* log_to_data: open to append, write, close. *)
LogToData(record) ==
  LET stream == Write(Open(datafile), record)
  IN  /\ datafile' = Close(stream)
      /\ logFile' = logFile \o stream.buffer

(* updateVisualization: open, which empties the file, write all of it, close. *)
(* That the file was opened is judged by whether the stream is open.          *)
Redraw(file, content) ==
  LET opened == Open(file)
      stream == Write(opened, tags)
  IN  /\ myfile' = IF opened.file = "open" THEN Close(stream) ELSE opened
      /\ visFile' = IF Takes(opened) THEN stream.buffer ELSE content

(* Seeded fault: the table is drawn into the stream as it is. *)
UpdateVisualization_unopened ==
  IF visualizing
  THEN myfile' = Close(Write(myfile, tags)) /\ visFile' = visFile \o Write(myfile, tags).buffer
  ELSE UNCHANGED <<myfile, visFile>>

UpdateVisualization ==
  IF visualizing THEN Redraw(myfile, visFile) ELSE UNCHANGED <<myfile, visFile>>

(* init_can_bus, in a process of its own: openVisualizationFile, which        *)
(* empties the table and leaves the stream open, openLoggingFile and a first  *)
(* updateVisualization.                                                       *)
Start ==
  /\ ~running
  /\ starts < MaxStarts
  /\ LET visible == VISUALIZES /\ writable
     IN  /\ visualizing' = visible
         /\ IF visible THEN Redraw(Open(Closed), <<>>)
            ELSE myfile' = (IF VISUALIZES THEN Open(Closed) ELSE Closed) /\ UNCHANGED visFile
  /\ datafile' = OpenLoggingFile
  /\ running' = TRUE
  /\ starts' = starts + 1
  /\ archive' = logFile /\ logged' = <<>> /\ drawn' = <<tags>>
  /\ UNCHANGED <<writable, logFile, tags>>

(* A frame was processed that is logged. *)
Event(record) ==
  /\ running
  /\ Len(logged) < MaxRecords
  /\ LogToData(record)
  /\ logged' = Append(logged, record)
  /\ UNCHANGED <<writable, visVars, tags, running, starts, archive, drawn>>

(* The mote's timer expired. *)
Draw ==
  /\ running
  /\ UpdateVisualization
  /\ drawn' = <<Last(drawn), tags>>
  /\ UNCHANGED <<writable, logVars, visualizing, tags, running, starts, archive, logged>>

TagsChange ==
  /\ running
  /\ tags' \in Tables
  /\ UNCHANGED <<writable, logVars, visVars, running, starts, archive, logged, drawn>>

(* The simulation is stopped, to be loaded again or not; what a stream held *)
(* may reach the file or not.                                               *)
Stop ==
  /\ running
  /\ running' = FALSE
  /\ logFile' \in {logFile, logFile \o datafile.buffer}
  /\ datafile' = Closed /\ myfile' = Closed
  /\ visualizing' = FALSE
  /\ UNCHANGED <<writable, visFile, tags, starts, archive, logged, drawn>>

LogNext ==
  \/ Start
  \/ \E record \in Records : Event(record)
  \/ Draw
  \/ TagsChange
  \/ Stop

LogSpec == LogInit /\ [][LogNext]_fileVars

-----------------------------------------------------------------------------
(* Properties.                                                              *)

(* log_to_data finds its stream left open by openLoggingFile and repairs it   *)
(* by closing it: in a directory that may be written to, of the records since *)
(* the simulation was loaded the log lacks the first, always, and none of the *)
(* others; it has them in order, below titles of their own and behind all     *)
(* that earlier starts wrote.                                                 *)
OnlyFirstIsLost ==
  running /\ writable =>
    logFile = archive \o (IF logged = <<>> THEN <<>> ELSE <<HEADER>> \o Tail(logged))

(* The same with the table: it is empty until it is drawn a second time, and  *)
(* from then on it shows the tags as they were when it was drawn last.        *)
TableFollows ==
  running /\ visualizing => visFile = IF Len(drawn) < 2 THEN <<>> ELSE <<Last(drawn)>>
=============================================================================
