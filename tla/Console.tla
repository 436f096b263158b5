------------------------------ MODULE Console -------------------------------
(***************************************************************************)
(* The console channel (pkg/channels/console.go): what the agent streams   *)
(* is printed chunk by chunk, and the flag `streamed` keeps Send from      *)
(* printing the response again.  The flag does not say which response: it  *)
(* swallows whatever Send is given next.                                   *)
(***************************************************************************)
EXTENDS Naturals, Sequences, FiniteSets

CONSTANTS Lines,      \* what is typed, numbered from 1
          Extras,     \* what cron jobs and tools send meanwhile
          MaxLineChunks   \* bound: chunks of a round

ASSUME ConsoleAssumption ==
  /\ Cardinality(Lines) \in Nat /\ Lines = 1..Cardinality(Lines)
  /\ 0 \notin Extras /\ Lines \cap Extras = {}

VARIABLES running,      \* between Start and Stop
          scannedLines, \* lines the read loop has published
          begunLines,   \* lines the agent loop has taken
          line,         \* the line the agent loop works on, or 0
          chunked,      \* chunks of it so far
          outbound,     \* what the dispatcher is to send
          streamed,     \* the flag
          printed,      \* what the console shows
          consoleSent,  \* history: what Send was given while running
          mixed         \* history: rounds with something else sent in between

consoleVars == <<running, scannedLines, begunLines, line, chunked, outbound, streamed,
                 printed, consoleSent, mixed>>

Underway == ({line} \ {0}) \cup ({outbound[i] : i \in DOMAIN outbound} \cap Lines)

ConsoleInit ==
  /\ running = FALSE /\ scannedLines = 0 /\ begunLines = 0 /\ line = 0 /\ chunked = 0
  /\ outbound = <<>> /\ streamed = FALSE /\ printed = <<>>
  /\ consoleSent = {} /\ mixed = {}

Start == /\ ~running /\ scannedLines = 0 /\ running' = TRUE
         /\ UNCHANGED <<scannedLines, begunLines, line, chunked, outbound, streamed,
                        printed, consoleSent, mixed>>
Stop == /\ running /\ running' = FALSE
        /\ UNCHANGED <<scannedLines, begunLines, line, chunked, outbound, streamed,
                       printed, consoleSent, mixed>>

(* readLoop: a line is published, an empty one is not. *)
readLoop ==
  /\ running /\ scannedLines < Cardinality(Lines)
  /\ scannedLines' = scannedLines + 1
  /\ UNCHANGED <<running, begunLines, line, chunked, outbound, streamed, printed,
                 consoleSent, mixed>>

(* The agent loop takes the next line. *)
BeginLine ==
  /\ line = 0
  /\ begunLines < scannedLines /\ begunLines' = begunLines + 1
  /\ line' = begunLines'
  /\ mixed' = IF outbound = <<>> THEN mixed ELSE mixed \cup {line'} \cup Underway
  /\ chunked' = 0
  /\ UNCHANGED <<running, scannedLines, outbound, streamed, printed, consoleSent>>

ConsoleChunk ==
  /\ line # 0 /\ chunked < MaxLineChunks
  /\ chunked' = chunked + 1
  /\ streamed' = (streamed \/ running)
  /\ printed' = IF running THEN Append(printed, <<"chunk", line>>) ELSE printed
  /\ UNCHANGED <<running, scannedLines, begunLines, line, outbound, consoleSent, mixed>>

(* FlushStream, and the response or the error is handed to the bus. *)
EndLine ==
  /\ line # 0
  /\ outbound' = Append(outbound, line) /\ line' = 0
  /\ UNCHANGED <<running, scannedLines, begunLines, chunked, streamed, printed,
                 consoleSent, mixed>>

Extra(x) ==
  /\ x \notin consoleSent /\ \A i \in DOMAIN outbound : outbound[i] # x
  /\ outbound' = Append(outbound, x)
  /\ mixed' = mixed \cup Underway
  /\ UNCHANGED <<running, scannedLines, begunLines, line, chunked, streamed, printed,
                 consoleSent>>

(* Send: LoadAndDelete.  (Faulty form: the flag is only loaded.) *)
LoadFlag == streamed' = streamed
LoadAndDeleteFlag == streamed' = FALSE
ConsoleSend ==
  /\ outbound # <<>>
  /\ outbound' = Tail(outbound)
  /\ IF running
     THEN /\ LoadAndDeleteFlag
          /\ printed' = IF streamed THEN printed ELSE Append(printed, <<"full", Head(outbound)>>)
          /\ consoleSent' = consoleSent \cup {Head(outbound)}
     ELSE UNCHANGED <<streamed, printed, consoleSent>>
  /\ UNCHANGED <<running, scannedLines, begunLines, line, chunked, mixed>>

ConsoleNext ==
  \/ Start \/ Stop \/ readLoop \/ BeginLine \/ ConsoleChunk \/ EndLine \/ ConsoleSend
  \/ \E x \in Extras : Extra(x)

ConsoleSpec == ConsoleInit /\ [][ConsoleNext]_consoleVars

-----------------------------------------------------------------------------
Printed(x) == \E i \in DOMAIN printed : printed[i] = x

(* A response that nothing came between is printed once: as the chunks it  *)
(* was streamed in, or else as a whole.  An error that ends a round after  *)
(* its first chunk is not printed, nor what another goroutine sends while  *)
(* the flag is set (console.go:80-119).                                    *)
PrintedOnce ==
  \A l \in Lines : l \in consoleSent \ mixed =>
    /\ Printed(<<"full", l>>) <=> ~Printed(<<"chunk", l>>)
=============================================================================
