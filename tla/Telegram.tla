------------------------------ MODULE Telegram ------------------------------
(***************************************************************************)
(* One chat of the Telegram channel (pkg/channels/telegram.go): the        *)
(* handlers of its messages, the agent loop that streams into it, the edit *)
(* loops of its streams and the dispatcher that sends what is final.       *)
(*                                                                         *)
(* A message of the chat is shown "Thinking..." at first, may be edited to *)
(* the part of the answer streamed so far, and is edited to the answer at  *)
(* last.  placeholders and streams are sync.Maps: each call is atomic, two *)
(* calls are not.  What the bot's API does is external: an edit lands when *)
(* its request is served.                                                  *)
(***************************************************************************)
EXTENDS Naturals, Sequences

CONSTANTS TelegramRounds,  \* the user's messages, numbered from 1
          TelegramNotes,   \* what cron jobs and tools send to the chat meanwhile
          TelegramChunks,  \* bound: chunks streamed in a round
          MaxFails         \* bound: calls of the API that fail

ASSUME TelegramAssumption ==
  /\ TelegramRounds \subseteq Nat \ {0} /\ TelegramNotes \cap TelegramRounds = {}
  /\ TelegramChunks \in Nat /\ MaxFails \in Nat

VARIABLES placeholder,  \* placeholders[chat], or 0
          handler,      \* where the handler of each message is
          attached,     \* the attachments the handler has on disk
          inbox,        \* messages on their way to the agent
          current,      \* the round of the agent loop, or 0
          stream,       \* streams[chat]: the round it was opened in, or 0
          loops,        \* loops[r]: the stream opened in round r, and its loop
          outbox,       \* what the dispatcher is to send
          sending,      \* the placeholder its Send has loaded
          screen,       \* screen[id]: what the chat shows as message id
          delivered,    \* history: what was sent without an error
          unsent,       \* history: what could not be sent
          disturbed,    \* history: rounds that were not alone in the chat
          late,         \* history: streams that edited after the flush
          fails         \* number of API calls that have failed

telegramVars == <<placeholder, handler, attached, inbox, current, stream, loops,
                  outbox, sending, screen, delivered, unsent, disturbed, late, fails>>

Thinking == <<"thinking", 0, 0>>
Part(r, n) == <<"part", r, n>>
FinalText(x) == <<"final", x, 0>>

NoStream == [open |-> FALSE, msg |-> 0, buffer |-> 0, last |-> 0, edit |-> 0, done |-> FALSE]
Idle == [on |-> FALSE, id |-> 0]

(* The rounds that are under way. *)
TelegramPending == {r \in TelegramRounds : handler[r] # "none" /\ r \notin delivered \cup unsent}

TelegramInit ==
  /\ placeholder = 0
  /\ handler = [r \in TelegramRounds |-> "none"]
  /\ attached = [r \in TelegramRounds |-> {}]
  /\ inbox = <<>> /\ outbox = <<>>
  /\ current = 0 /\ stream = 0
  /\ loops = [r \in TelegramRounds |-> NoStream]
  /\ sending = Idle
  /\ screen = <<>>
  /\ delivered = {} /\ unsent = {} /\ disturbed = {} /\ late = {}
  /\ fails = 0

Fail == fails < MaxFails /\ fails' = fails + 1
Show(x) == screen' = Append(screen, x)
Edit(id, x) == screen' = [screen EXCEPT ![id] = x]

-----------------------------------------------------------------------------
(* handleMessage: the attachments are fetched, a failed download is left   *)
(* out.                                                                    *)
Receive(r) ==
  /\ handler[r] = "none" /\ \A q \in TelegramRounds : q < r => handler[q] # "none"
  /\ handler' = [handler EXCEPT ![r] = "thinking"]
  /\ \E F \in SUBSET {"photo"} : attached' = [attached EXCEPT ![r] = F]
  /\ disturbed' = IF TelegramPending = {} /\ outbox = <<>> THEN disturbed
                  ELSE disturbed \cup TelegramPending \cup {r}
  /\ UNCHANGED <<placeholder, inbox, current, stream, loops, outbox, sending, screen,
                 delivered, unsent, late, fails>>

(* The placeholder is posted and stored ... *)
Think(r) ==
  /\ handler[r] = "thinking"
  /\ handler' = [handler EXCEPT ![r] = "publishing"]
  /\ \/ Show(Thinking) /\ placeholder' = Len(screen) + 1 /\ UNCHANGED fails
     \/ Fail /\ UNCHANGED <<screen, placeholder>>
  /\ UNCHANGED <<attached, inbox, current, stream, loops, outbox, sending, delivered, unsent,
                 disturbed, late>>

(* ... and the message published; on return the files are removed. *)
PublishMessage(r) ==
  /\ handler[r] = "publishing"
  /\ inbox' = Append(inbox, r)
  /\ handler' = [handler EXCEPT ![r] = "returned"]
  /\ attached' = [attached EXCEPT ![r] = {}]
  /\ UNCHANGED <<placeholder, current, stream, loops, outbox, sending, screen, delivered,
                 unsent, disturbed, late, fails>>

-----------------------------------------------------------------------------
(* The agent loop. *)
TelegramConsume ==
  /\ current = 0 /\ inbox # <<>>
  /\ current' = Head(inbox) /\ inbox' = Tail(inbox)
  /\ UNCHANGED <<placeholder, handler, attached, stream, loops, outbox, sending, screen,
                 delivered, unsent, disturbed, late, fails>>

(* newStream takes the placeholder of this moment; a ticker is started. *)
newStream(r) == [NoStream EXCEPT !.open = TRUE, !.msg = placeholder, !.buffer = 1]

TelegramChunk ==
  /\ current # 0
  /\ \/ /\ stream = 0
        /\ stream' = current
        /\ loops' = [loops EXCEPT ![current] = newStream(current)]
     \/ /\ stream # 0
        /\ loops[stream].buffer < TelegramChunks
        /\ loops' = [loops EXCEPT ![stream].buffer = @ + 1]
        /\ UNCHANGED stream
  /\ UNCHANGED <<placeholder, handler, attached, inbox, current, outbox, sending, screen,
                 delivered, unsent, disturbed, late, fails>>

(* FlushStream, and the answer is handed to the bus. *)
FlushStream ==
  /\ loops' = IF stream = 0 THEN loops ELSE [loops EXCEPT ![stream].done = TRUE]
  /\ stream' = 0
TelegramAnswer ==
  /\ current # 0
  /\ FlushStream
  /\ outbox' = Append(outbox, current)
  /\ current' = 0
  /\ UNCHANGED <<placeholder, handler, attached, inbox, sending, screen, delivered, unsent,
                 disturbed, late, fails>>

(* Another goroutine sends to the chat. *)
Note(n) ==
  /\ n \notin delivered \cup unsent /\ \A i \in DOMAIN outbox : outbox[i] # n
  /\ outbox' = Append(outbox, n)
  /\ disturbed' = disturbed \cup TelegramPending
  /\ UNCHANGED <<placeholder, handler, attached, inbox, current, stream, loops, sending,
                 screen, delivered, unsent, late, fails>>

-----------------------------------------------------------------------------
(* streamEditLoop of the stream of round r.  The ticker goes on until the  *)
(* loop has seen `done`.                                                   *)
EditTick(r) ==
  LET s == loops[r] IN
  /\ s.open /\ s.edit = 0
  /\ s.buffer # s.last /\ s.msg # 0
  /\ loops' = [loops EXCEPT ![r].last = s.buffer, ![r].edit = s.buffer]
  /\ UNCHANGED <<placeholder, handler, attached, inbox, current, stream, outbox, sending,
                 screen, delivered, unsent, disturbed, late, fails>>

EditLands(r) ==
  LET s == loops[r] IN
  /\ s.edit # 0
  /\ \/ /\ Edit(s.msg, Part(r, s.edit))
        /\ late' = IF s.done THEN late \cup {r} ELSE late
        /\ UNCHANGED fails
     \/ Fail /\ UNCHANGED <<screen, late>>
  /\ loops' = [loops EXCEPT ![r].edit = 0]
  /\ UNCHANGED <<placeholder, handler, attached, inbox, current, stream, outbox, sending,
                 delivered, unsent, disturbed>>

LoopEnds(r) ==
  /\ loops[r].open /\ loops[r].done /\ loops[r].edit = 0
  /\ loops' = [loops EXCEPT ![r].open = FALSE]
  /\ UNCHANGED <<placeholder, handler, attached, inbox, current, stream, outbox, sending,
                 screen, delivered, unsent, disturbed, late, fails>>

-----------------------------------------------------------------------------
(* Send: the placeholder is loaded ... *)
SendLoad ==
  /\ ~sending.on /\ outbox # <<>>
  /\ sending' = [on |-> TRUE, id |-> placeholder]
  /\ UNCHANGED <<placeholder, handler, attached, inbox, current, stream, loops, outbox,
                 screen, delivered, unsent, disturbed, late, fails>>

(* ... deleted, and edited; without one, or if the edit fails, a message   *)
(* is posted, as HTML or else as plain text.  (Faulty form: it is kept.)   *)
Keep == UNCHANGED placeholder
DropPlaceholder == placeholder' = IF sending.id = 0 THEN placeholder ELSE 0
TelegramSend ==
  /\ sending.on
  /\ DropPlaceholder
  /\ LET x == Head(outbox) IN
     \/ /\ IF sending.id # 0 THEN Edit(sending.id, FinalText(x)) ELSE Show(FinalText(x))
        /\ delivered' = delivered \cup {x}
        /\ UNCHANGED <<unsent, fails>>
     \/ /\ Fail
        /\ Show(FinalText(x))
        /\ delivered' = delivered \cup {x}
        /\ UNCHANGED unsent
     \/ /\ fails' = fails + (IF sending.id # 0 THEN 3 ELSE 2) /\ fails' <= MaxFails
        /\ unsent' = unsent \cup {x}
        /\ UNCHANGED <<screen, delivered>>
  /\ outbox' = Tail(outbox)
  /\ sending' = Idle
  /\ UNCHANGED <<handler, attached, inbox, current, stream, loops, disturbed, late>>

TelegramNext ==
  \/ \E r \in TelegramRounds : Receive(r) \/ Think(r) \/ PublishMessage(r)
                       \/ EditTick(r) \/ EditLands(r) \/ LoopEnds(r)
  \/ TelegramConsume \/ TelegramChunk \/ TelegramAnswer
  \/ \E n \in TelegramNotes : Note(n)
  \/ SendLoad \/ TelegramSend

TelegramSpec == TelegramInit /\ [][TelegramNext]_telegramVars

-----------------------------------------------------------------------------
Shown == {screen[i] : i \in DOMAIN screen}

(* The answer to a message that was alone in the chat stays on the screen  *)
(* as it was sent, and neither a "Thinking..." nor a part of the answer    *)
(* remains of its round if the API serves every call.  The exception is an *)
(* edit loop that edits after the flush, when `done` and the ticker are    *)
(* both ready or the edit is under way (telegram.go:180-203, 241-285).     *)
AnswersStand ==
  /\ \A r \in TelegramRounds : r \in delivered /\ r \notin disturbed \cup late =>
       /\ FinalText(r) \in Shown
       /\ fails = 0 => \A n \in 1..TelegramChunks : Part(r, n) \notin Shown
  /\ disturbed = {} /\ fails = 0 /\ TelegramPending = {} => Thinking \notin Shown
=============================================================================
