----------------------------- MODULE BusLogProofs -----------------------------
(***************************************************************************)
(* The log and the table, for any number of starts and records.            *)
(***************************************************************************)
EXTENDS BusLog, SequenceTheorems, TLAPS

Lines == Records \cup {HEADER}

(* Between two steps the stream of the log is open with the titles in it until *)
(* a record has been swallowed, and closed and empty from then on.             *)
StreamInv ==
  running /\ writable =>
    IF logged = <<>>
    THEN datafile = Stream("open", "good", <<HEADER>>) /\ logFile = archive
    ELSE /\ datafile.file = "closed" /\ datafile.buffer = <<>>
         /\ logFile = archive \o (<<HEADER>> \o Tail(logged))

(* The stream of the table is closed, whether or not it failed. *)
TableInv ==
  /\ running => drawn # <<>>
  /\ running /\ visualizing => writable /\ myfile.file = "closed"

LogInv == LogTypeOK /\ StreamInv /\ TableInv /\ TableFollows

(* What the operations on a stream return, field by field. *)
LEMMA Opened ==
  ASSUME NEW s, writable, s.file = "closed"
  PROVE  Open(s) = Stream("open", "good", <<>>)
BY DEF Open, Opens

(* A stream that cannot be opened fails, and keeps its buffer. *)
LEMMA NotOpened ==
  ASSUME NEW B, NEW s \in Streams(B), ~Opens(s)
  PROVE  Open(s) = Stream(s.file, "fail", s.buffer)
<1>1. Open(s) = [s EXCEPT !.state = "fail"]
  BY DEF Open
<1>. QED  BY <1>1 DEF Streams, Stream

(* A line goes to the buffer of a stream that takes it, ... *)
LEMMA Written ==
  ASSUME NEW B, NEW s \in Streams(B), NEW line, Takes(s)
  PROVE  Write(s, line) = Stream("open", "good", Append(s.buffer, line))
<1>1. Write(s, line) = [s EXCEPT !.buffer = Append(@, line)]
  BY DEF Write
<1>. QED  BY <1>1 DEF Streams, Stream, Takes

(* ... and a stream that does not take it fails and drops the line. *)
LEMMA Swallowed ==
  ASSUME NEW B, NEW s \in Streams(B), NEW line, ~Takes(s)
  PROVE  Write(s, line) = Stream(s.file, "fail", s.buffer)
<1>1. Write(s, line) = [s EXCEPT !.state = "fail"]
  BY DEF Write
<1>. QED  BY <1>1 DEF Streams, Stream

(* Writing to a stream that was just opened, whatever became of it. *)
LEMMA OpenAndWrite ==
  ASSUME NEW B, NEW s \in Streams(B), NEW line
  PROVE  /\ Open(s) \in Streams(B \cup {<<>>})
         /\ Write(Open(s), line) \in Streams(B \cup {<<line>>})
<1>1. CASE Opens(s)
  <2>1. Open(s) = Stream("open", "good", <<>>)
    BY <1>1 DEF Open
  <2>2. Open(s) \in Streams({<<>>}) /\ Takes(Open(s)) /\ Open(s).buffer = <<>>
    BY <2>1 DEF Streams, Stream, Takes
  <2>3. Write(Open(s), line) = Stream("open", "good", <<line>>)
    <3>1. Write(Open(s), line) = Stream("open", "good", Append(<<>>, line))
      BY <2>2, Written
    <3>. QED  BY <3>1
  <2>. QED  BY <2>1, <2>3 DEF Streams, Stream
<1>2. CASE ~Opens(s)
  <2>1. Open(s) = Stream(s.file, "fail", s.buffer)
    BY <1>2, NotOpened
  <2>2. Open(s) \in Streams(B) /\ ~Takes(Open(s))
    BY <2>1 DEF Streams, Stream, Takes
  <2>3. Write(Open(s), line) = Stream(Open(s).file, "fail", Open(s).buffer)
    BY <2>2, Swallowed
  <2>. QED  BY <2>2, <2>3 DEF Streams, Stream
<1>. QED  BY <1>1, <1>2

(* What is behind the first element, after an append. *)
LEMMA TailAppend ==
  ASSUME NEW S, NEW s \in Seq(S), s # <<>>, NEW x \in S
  PROVE  Tail(Append(s, x)) = Append(Tail(s), x)
OBVIOUS

(* A record behind those that are in the file already. *)
LEMMA RecordBehind ==
  ASSUME NEW a \in Seq(Lines), NEW s \in Seq(Records), s # <<>>, NEW x \in Records
  PROVE  (a \o (<<HEADER>> \o Tail(s))) \o <<x>> = a \o (<<HEADER>> \o Tail(Append(s, x)))
<1>1. Tail(s) \in Seq(Lines) /\ <<HEADER>> \in Seq(Lines) /\ <<x>> \in Seq(Lines)
      /\ <<HEADER>> \o Tail(s) \in Seq(Lines)
  BY DEF Lines
<1>2. Tail(Append(s, x)) = Tail(s) \o <<x>>
  BY TailAppend
<1>3. (a \o (<<HEADER>> \o Tail(s))) \o <<x>> = a \o ((<<HEADER>> \o Tail(s)) \o <<x>>)
  BY <1>1, ConcatAssociative
<1>4. (<<HEADER>> \o Tail(s)) \o <<x>> = <<HEADER>> \o (Tail(s) \o <<x>>)
  BY <1>1, ConcatAssociative
<1>. QED  BY <1>2, <1>3, <1>4

(* The streams of a bus that is set up: the log's open with the titles in it, *)
(* the table's closed by the updateVisualization that could not open it.      *)
LEMMA StartStreams ==
  ASSUME writable
  PROVE  /\ OpenLoggingFile = Stream("open", "good", <<HEADER>>)
         /\ Open(Closed) = Stream("open", "good", <<>>)
         /\ Open(Open(Closed)) = Stream("open", "fail", <<>>)
         /\ Takes(Open(Open(Closed))) = FALSE
<1>1. Closed.file = "closed"
  BY DEF Closed, Stream
<1>2. Open(Closed) = Stream("open", "good", <<>>)
  BY <1>1, Opened
<1>3. Open(Closed) \in Streams({<<>>}) /\ Takes(Open(Closed)) /\ ~Opens(Open(Closed))
      /\ Open(Closed).file = "open" /\ Open(Closed).buffer = <<>>
  BY <1>2 DEF Streams, Stream, Takes, Opens
<1>4. Open(Open(Closed)) = Stream("open", "fail", <<>>)
  BY <1>3, NotOpened
<1>5. Write(Open(Closed), HEADER) = Stream("open", "good", Append(<<>>, HEADER))
  BY <1>3, Written
<1>6. Append(<<>>, HEADER) = <<HEADER>>
  OBVIOUS
<1>7. ~Takes(Open(Open(Closed)))
  BY <1>4 DEF Takes, Stream
<1>. QED  BY <1>2, <1>4, <1>5, <1>6, <1>7 DEF OpenLoggingFile

(* A start opens the log anew and adds the titles to its buffer. *)
LEMMA StartKeeps ==
  ASSUME LogInv, Start
  PROVE  LogInv'
<1>1. /\ running' = TRUE /\ writable' = writable /\ logFile' = logFile /\ archive' = logFile
      /\ logged' = <<>> /\ drawn' = <<tags>> /\ tags' = tags /\ starts' = starts + 1
      /\ starts < MaxStarts /\ visualizing' = (VISUALIZES /\ writable)
      /\ datafile' = OpenLoggingFile
  BY DEF Start
<1>2. Closed \in Streams({<<>>}) /\ Open(Closed) \in Streams({<<>>})
  <2>1. Closed \in Streams({<<>>})
    BY DEF Closed, Streams, Stream
  <2>2. Open(Closed) \in Streams({<<>>} \cup {<<>>})
    BY <2>1, OpenAndWrite
  <2>. QED  BY <2>1, <2>2
<1>3. datafile' \in Streams({<<>>, <<HEADER>>})
  <2>1. Write(Open(Closed), HEADER) \in Streams({<<>>} \cup {<<HEADER>>})
    BY <1>2, OpenAndWrite
  <2>2. {<<>>} \cup {<<HEADER>>} = {<<>>, <<HEADER>>}
    OBVIOUS
  <2>. QED  BY <1>1, <2>1, <2>2 DEF OpenLoggingFile
<1>4. /\ myfile' \in Streams({<<>>})
      /\ visFile' \in {<<>>} \cup {<<t>> : t \in Tables}
      /\ visualizing' => myfile'.file = "closed" /\ visFile' = <<>>
  <2>1. CASE VISUALIZES /\ writable
    <3>1. Redraw(Open(Closed), <<>>)
      BY <2>1 DEF Start
    <3>2. Open(Open(Closed)).file = "open" /\ Open(Open(Closed)) \in Streams({<<>>})
          /\ Open(Open(Closed)).buffer = <<>>
      BY <2>1, StartStreams DEF Stream, Streams
    <3>3. myfile' = Close(Write(Open(Open(Closed)), tags)) /\ visFile' = <<>>
      BY <2>1, <3>1, <3>2, StartStreams DEF Redraw
    <3>4. Write(Open(Open(Closed)), tags) = Stream("open", "fail", <<>>)
      BY <2>1, <3>2, StartStreams, Swallowed
    <3>5. myfile' = Stream("closed", "fail", <<>>)
      BY <3>3, <3>4 DEF Close, Stream
    <3>. QED  BY <3>3, <3>5 DEF Streams, Stream
  <2>2. CASE ~(VISUALIZES /\ writable)
    <3>1. myfile' \in {Open(Closed), Closed} /\ visFile' = visFile
      BY <2>2 DEF Start
    <3>. QED  BY <1>1, <1>2, <2>2, <3>1 DEF LogInv, LogTypeOK
  <2>. QED  BY <2>1, <2>2
<1>5. /\ drawn' \in Seq(Tables) /\ Len(drawn') < 2 /\ drawn' # <<>>
      /\ logged' \in Seq(Records)
  BY <1>1 DEF LogInv, LogTypeOK
<1>6. starts' \in 0 .. MaxStarts /\ visualizing' \in BOOLEAN /\ running' \in BOOLEAN
  BY <1>1, LogAssumption DEF LogInv, LogTypeOK
<1>7. LogTypeOK'
  BY <1>1, <1>3, <1>4, <1>5, <1>6 DEF LogInv, LogTypeOK
<1>8. StreamInv'
  BY <1>1, StartStreams DEF StreamInv
<1>9. TableInv' /\ TableFollows'
  BY <1>1, <1>4, <1>5 DEF TableInv, TableFollows
<1>. QED  BY <1>7, <1>8, <1>9 DEF LogInv

(* The first record is swallowed and pushes the titles out; a later one is *)
(* appended.                                                               *)
LEMMA EventKeeps ==
  ASSUME LogInv, NEW x \in Records, Event(x)
  PROVE  LogInv'
<1>. DEFINE stream == Write(Open(datafile), x)
<1>1. /\ running /\ running' = running /\ writable' = writable /\ archive' = archive
      /\ logged' = Append(logged, x) /\ drawn' = drawn /\ tags' = tags /\ starts' = starts
      /\ visualizing' = visualizing /\ myfile' = myfile /\ visFile' = visFile
  BY DEF Event, visVars
<1>2. datafile' = Close(stream) /\ logFile' = logFile \o stream.buffer
  BY DEF Event, LogToData
<1>3. datafile \in Streams({<<>>, <<HEADER>>})
  BY DEF LogInv, LogTypeOK
<1>4. stream \in Streams({<<>>, <<HEADER>>} \cup {<<x>>})
  BY <1>3, OpenAndWrite
<1>5. datafile' \in Streams({<<>>, <<HEADER>>})
      /\ datafile'.file = "closed" /\ datafile'.buffer = <<>>
  BY <1>2, <1>4 DEF Close, Streams, Stream
<1>6. logFile' \in Seq(Lines)
  <2>1. stream.buffer \in {<<>>, <<HEADER>>} \cup {<<x>>}
    BY <1>4 DEF Streams
  <2>2. {<<>>, <<HEADER>>} \cup {<<x>>} \subseteq Seq(Lines) /\ logFile \in Seq(Lines)
    BY DEF Lines, LogInv, LogTypeOK
  <2>3. stream.buffer \in Seq(Lines)
    BY <2>1, <2>2, Zenon
  <2>. HIDE DEF stream
  <2>. QED  BY <1>2, <2>2, <2>3
<1>7. logged' \in Seq(Records) /\ logged' # <<>>
  BY <1>1 DEF LogInv, LogTypeOK
<1>8. LogTypeOK'
  BY <1>1, <1>5, <1>6, <1>7 DEF LogInv, LogTypeOK, Lines
<1>9. ASSUME writable PROVE logFile' = archive \o (<<HEADER>> \o Tail(logged'))
  <2>1. CASE logged = <<>>
    <3>1. datafile = Stream("open", "good", <<HEADER>>) /\ logFile = archive
      BY <1>1, <1>9, <2>1 DEF LogInv, StreamInv
    <3>2. datafile.file = "open" /\ datafile.buffer = <<HEADER>> /\ ~Opens(datafile)
      BY <3>1 DEF Stream, Opens
    <3>3. Open(datafile) = Stream("open", "fail", <<HEADER>>)
      BY <1>3, <3>2, NotOpened
    <3>4. /\ Open(datafile) \in Streams({<<HEADER>>}) /\ ~Takes(Open(datafile))
          /\ Open(datafile).file = "open" /\ Open(datafile).buffer = <<HEADER>>
      BY <3>3 DEF Streams, Stream, Takes
    <3>5. stream = Stream("open", "fail", <<HEADER>>)
      BY <3>4, Swallowed
    <3>6. stream.buffer = <<HEADER>>
      BY <3>5 DEF Stream
    <3>7. Tail(logged') = <<>> /\ <<HEADER>> \o <<>> = <<HEADER>>
      BY <1>1, <2>1
    <3>. QED  BY <1>2, <3>1, <3>6, <3>7
  <2>2. CASE logged # <<>>
    <3>1. /\ datafile.file = "closed"
          /\ logFile = archive \o (<<HEADER>> \o Tail(logged))
      BY <1>1, <1>9, <2>2 DEF LogInv, StreamInv
    <3>2. Open(datafile) = Stream("open", "good", <<>>)
      BY <1>9, <3>1, Opened
    <3>3. Open(datafile) \in Streams({<<>>}) /\ Takes(Open(datafile))
          /\ Open(datafile).buffer = <<>>
      BY <3>2 DEF Streams, Stream, Takes
    <3>4. stream = Stream("open", "good", Append(<<>>, x))
      BY <3>3, Written
    <3>5. stream.buffer = <<x>>
      BY <3>4 DEF Stream
    <3>6. archive \in Seq(Lines) /\ logged \in Seq(Records)
      BY DEF LogInv, LogTypeOK, Lines
    <3>. QED  BY <1>1, <1>2, <2>2, <3>1, <3>5, <3>6, RecordBehind
  <2>. QED  BY <2>1, <2>2
<1>10. StreamInv'
  BY <1>1, <1>5, <1>7, <1>9 DEF StreamInv
<1>11. TableInv' /\ TableFollows'
  BY <1>1 DEF LogInv, TableInv, TableFollows
<1>. QED  BY <1>8, <1>10, <1>11 DEF LogInv

(* A drawing opens, writes and closes the table's stream. *)
LEMMA DrawKeeps ==
  ASSUME LogInv, Draw
  PROVE  LogInv'
<1>1. /\ running /\ running' = running /\ writable' = writable /\ archive' = archive
      /\ logged' = logged /\ drawn' = <<Last(drawn), tags>> /\ tags' = tags
      /\ starts' = starts /\ visualizing' = visualizing /\ datafile' = datafile
      /\ logFile' = logFile
  BY DEF Draw, logVars
<1>2. Last(drawn) \in Tables
  BY <1>1 DEF LogInv, LogTypeOK, TableInv, Last
<1>3. tags \in Tables
  BY DEF LogInv, LogTypeOK
<1>4. drawn' \in Seq(Tables) /\ Len(drawn') = 2 /\ Last(drawn') = tags /\ drawn' # <<>>
  BY <1>1, <1>2, <1>3 DEF Last
<1>5. myfile \in Streams({<<>>})
  BY DEF LogInv, LogTypeOK
<1>6. /\ myfile' \in Streams({<<>>})
      /\ visFile' \in {<<>>} \cup {<<t>> : t \in Tables}
      /\ visualizing => myfile'.file = "closed" /\ visFile' = <<tags>>
  <2>1. CASE visualizing
    <3>1. writable /\ myfile.file = "closed" /\ Redraw(myfile, visFile)
      BY <1>1, <2>1 DEF Draw, UpdateVisualization, LogInv, TableInv
    <3>2. Open(myfile) = Stream("open", "good", <<>>)
      BY <3>1, Opened
    <3>3. Open(myfile) \in Streams({<<>>}) /\ Takes(Open(myfile)) /\ Open(myfile).buffer = <<>>
          /\ Open(myfile).file = "open"
      BY <3>2 DEF Streams, Stream, Takes
    <3>4. Write(Open(myfile), tags) = Stream("open", "good", Append(<<>>, tags))
      BY <3>3, Written
    <3>5. Write(Open(myfile), tags).buffer = <<tags>>
          /\ Write(Open(myfile), tags).state = "good"
      BY <3>4 DEF Stream
    <3>6. myfile' = Stream("closed", "good", <<>>) /\ visFile' = <<tags>>
      BY <3>1, <3>3, <3>5 DEF Redraw, Close
    <3>. QED  BY <1>3, <3>6 DEF Streams, Stream
  <2>2. CASE ~visualizing
    <3>1. myfile' = myfile /\ visFile' = visFile
      BY <2>2 DEF Draw, UpdateVisualization
    <3>. QED  BY <2>2, <3>1 DEF LogInv, LogTypeOK
  <2>. QED  BY <2>1, <2>2
<1>7. LogTypeOK'
  BY <1>1, <1>4, <1>6 DEF LogInv, LogTypeOK
<1>8. StreamInv'
  BY <1>1 DEF LogInv, StreamInv
<1>9. TableInv' /\ TableFollows'
  BY <1>1, <1>4, <1>6 DEF LogInv, TableInv, TableFollows
<1>. QED  BY <1>7, <1>8, <1>9 DEF LogInv

(* Stopping closes both streams. *)
LEMMA StopKeeps ==
  ASSUME LogInv, Stop
  PROVE  LogInv'
<1>1. /\ running' = FALSE /\ visualizing' = FALSE /\ writable' = writable
      /\ archive' = archive /\ logged' = logged /\ drawn' = drawn /\ tags' = tags
      /\ starts' = starts /\ visFile' = visFile
      /\ datafile' = Closed /\ myfile' = Closed
  BY DEF Stop
<1>2. logFile' \in Seq(Lines)
  <2>1. datafile.buffer \in {<<>>, <<HEADER>>}
    BY DEF LogInv, LogTypeOK, Streams
  <2>2. {<<>>, <<HEADER>>} \subseteq Seq(Lines) /\ logFile \in Seq(Lines)
    BY DEF Lines, LogInv, LogTypeOK
  <2>3. logFile' \in {logFile, logFile \o datafile.buffer}
    BY DEF Stop
  <2>4. datafile.buffer \in Seq(Lines)
    BY <2>1, <2>2, Zenon
  <2>5. CASE logFile' = logFile
    BY <2>2, <2>5
  <2>6. CASE logFile' = logFile \o datafile.buffer
    <3>. DEFINE buffer == datafile.buffer
    <3>1. buffer \in Seq(Lines) /\ logFile \in Seq(Lines) /\ logFile' = logFile \o buffer
      BY <2>2, <2>4, <2>6
    <3>. HIDE DEF buffer
    <3>. QED  BY <3>1
  <2>. QED  BY <2>3, <2>5, <2>6
<1>3. datafile' \in Streams({<<>>, <<HEADER>>}) /\ myfile' \in Streams({<<>>})
  BY <1>1 DEF Closed, Streams, Stream
<1>4. LogTypeOK'
  BY <1>1, <1>2, <1>3 DEF LogInv, LogTypeOK, Lines
<1>. QED  BY <1>1, <1>4 DEF LogInv, StreamInv, TableInv, TableFollows

(* Every step of the library keeps the invariant, ... *)
LEMMA LogInductive ==
  ASSUME LogInv, [LogNext]_fileVars
  PROVE  LogInv'
<1>1. CASE TagsChange
  <2>1. /\ UNCHANGED <<writable, datafile, logFile, myfile, visFile, visualizing>>
        /\ UNCHANGED <<running, starts, archive, logged, drawn>> /\ tags' \in Tables
    BY <1>1 DEF TagsChange, visVars, logVars
  <2>. QED  BY <2>1 DEF LogInv, LogTypeOK, StreamInv, TableInv, TableFollows
<1>2. CASE UNCHANGED fileVars
  <2>1. /\ UNCHANGED <<writable, datafile, logFile, myfile, visFile, visualizing>>
        /\ UNCHANGED <<tags, running, starts, archive, logged, drawn>>
    BY <1>2 DEF fileVars, visVars, logVars
  <2>. QED  BY <2>1 DEF LogInv, LogTypeOK, StreamInv, TableInv, TableFollows
<1>. QED  BY <1>1, <1>2, StartKeeps, EventKeeps, DrawKeeps, StopKeeps DEF LogNext

(* ... so it holds throughout, for any number of starts, records and *)
(* drawings.                                                         *)
LEMMA LogInvariant == LogSpec => []LogInv
<1>1. LogInit => LogInv
  <2>. SUFFICES ASSUME LogInit PROVE LogInv
    OBVIOUS
  <2>1. Closed \in Streams({<<>>, <<HEADER>>}) /\ Closed \in Streams({<<>>})
    BY DEF Closed, Streams, Stream
  <2>2. 0 \in 0 .. MaxStarts
    BY LogAssumption
  <2>3. /\ logFile \in Seq(Lines) /\ archive \in Seq(Lines)
        /\ logged \in Seq(Records) /\ drawn \in Seq(Tables)
    BY DEF LogInit
  <2>4. datafile \in Streams({<<>>, <<HEADER>>}) /\ myfile \in Streams({<<>>})
    BY <2>1, Zenon DEF LogInit
  <2>5. /\ writable \in BOOLEAN /\ visualizing \in BOOLEAN /\ running \in BOOLEAN
        /\ visFile \in {<<>>} \cup {<<t>> : t \in Tables} /\ tags \in Tables
        /\ starts \in 0 .. MaxStarts
    BY <2>2 DEF LogInit
  <2>6. LogTypeOK
    BY <2>3, <2>4, <2>5 DEF LogTypeOK, Lines
  <2>. QED  BY <2>6 DEF LogInit, LogInv, StreamInv, TableInv, TableFollows
<1>2. LogInv /\ [LogNext]_fileVars => LogInv'
  BY LogInductive
<1>. QED  BY <1>1, <1>2, PTL DEF LogSpec

(* The log stream never holds anything but one line of titles, and that of the *)
(* table nothing, once the step that used them is over.                        *)
THEOREM LogTypeCorrect == LogSpec => []LogTypeOK
<1>1. LogInv => LogTypeOK
  BY DEF LogInv
<1>. QED  BY <1>1, LogInvariant, PTL

(* For any number of starts, records and tables: the log lacks the first       *)
(* record of each start and no other, in a directory that can be written to.   *)
THEOREM LogKept == LogSpec => []OnlyFirstIsLost
<1>1. LogInv => OnlyFirstIsLost
  <2>1. ASSUME LogInv, running, writable, logged = <<>>
        PROVE  logFile = archive \o <<>>
    <3>1. logFile = archive /\ archive \in Seq(Lines)
      BY <2>1 DEF LogInv, LogTypeOK, StreamInv, Lines
    <3>. QED  BY <3>1
  <2>. QED  BY <2>1 DEF LogInv, StreamInv, OnlyFirstIsLost
<1>. QED  BY <1>1, LogInvariant, PTL

(* The table is empty until it is drawn a second time and shows the tags as    *)
(* they were when it was drawn last from then on, whatever the stream that     *)
(* set-up left open does to the first drawing.                                 *)
THEOREM TableKept == LogSpec => []TableFollows
<1>1. LogInv => TableFollows
  BY DEF LogInv
<1>. QED  BY <1>1, LogInvariant, PTL
=============================================================================
