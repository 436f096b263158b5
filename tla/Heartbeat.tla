----------------------------- MODULE Heartbeat ------------------------------
(***************************************************************************)
(* The last active channel (pkg/state/state.go) and who uses it: the agent *)
(* records it in every round, the heartbeat (pkg/heartbeat/service.go)     *)
(* sends to it.  Each has a Manager of its own, which reads the file when  *)
(* it is made and never again.  So has the device service, which only      *)
(* reads.                                                                  *)
(*                                                                         *)
(* SetLastChannel holds its Manager's lock; it writes a temporary file and *)
(* renames it.  A crash keeps the files.                                   *)
(***************************************************************************)
EXTENDS Naturals, FiniteSets

CONSTANTS Chats,        \* "platform:user" keys of external channels
          NoChannel,    \* no channel, or one that cannot be parsed
          MaxUser,      \* bound: rounds of users
          MaxBeats,     \* bound: heartbeats
          MaxFailures,  \* bound: crashes and failing saves
          MaxDay        \* bound: days

ASSUME NoChannelAssumption == NoChannel \notin Chats

VARIABLES stateFile,   \* state/state.json
          tempFile,    \* state/state.json.tmp
          oldFile,     \* state.json of an earlier version
          mem,         \* LastChannel in each Manager
          saving,      \* the round that is in SetLastChannel, or "nobody"
          up,          \* the process runs
          prompt,      \* HEARTBEAT.md: "missing", "empty" or "tasks"
          beats,       \* executeHeartbeat: the first one's timer, the ticker's
          day, stamp,  \* today, and the day in .last_rebuild
          counts,      \* rounds, heartbeats, troubles so far
          user,        \* history: the channel of the last round of a user
          outdated     \* history: a heartbeat, or a failing save, since then

stateVars == <<stateFile, tempFile, oldFile, mem, saving>>
beatVars == <<prompt, beats, day, stamp>>
heartbeatVars == <<stateVars, beatVars, up, counts, user, outdated>>

Managers == {"agent", "heartbeat"}
Timers == {"first", "ticker"}
Quiet == [pc |-> "idle", day |-> 0]

(* NewManager: the file, or the one of an earlier version, which is then   *)
(* saved to the new place.  The managers are made one after another.       *)
Loaded(f, old) == IF f # NoChannel THEN f ELSE old

HeartbeatInit ==
  /\ stateFile \in {NoChannel} \cup Chats /\ oldFile \in {NoChannel} \cup Chats
  /\ tempFile = NoChannel /\ saving = "nobody"
  /\ mem = [m \in Managers |-> NoChannel]
  /\ up = FALSE
  /\ prompt \in {"missing", "empty", "tasks"}
  /\ beats = [t \in Timers |-> Quiet]
  /\ day = 1 /\ stamp = 0
  /\ counts = [user |-> 0, beats |-> 0, troubles |-> 0]
  /\ user = Loaded(stateFile, oldFile) /\ outdated = FALSE

Boot ==
  /\ ~up /\ up' = TRUE
  /\ mem' = [m \in Managers |-> Loaded(stateFile, oldFile)]
  /\ stateFile' = Loaded(stateFile, oldFile)
  /\ beats' = [t \in Timers |-> Quiet]
  /\ UNCHANGED <<tempFile, oldFile, saving, prompt, day, stamp, counts, user, outdated>>

Fails == counts.troubles < MaxFailures
           /\ counts' = [counts EXCEPT !.troubles = @ + 1]

ProcessDies ==
  /\ up /\ Fails /\ up' = FALSE
  /\ saving' = "nobody"
  /\ outdated' = (outdated \/ saving # "nobody")
  /\ UNCHANGED <<stateFile, tempFile, oldFile, mem, beatVars, user>>

-----------------------------------------------------------------------------
(* runAgentLoop records the channel of its round: SetLastChannel, ...      *)
SetLastChannel(who, c) ==
  /\ saving = "nobody"
  /\ mem' = [mem EXCEPT !["agent"] = c]
  /\ saving' = who

UserRound(c) ==
  /\ up /\ counts.user < MaxUser
  /\ counts' = [counts EXCEPT !.user = @ + 1]
  /\ SetLastChannel("user", c)
  /\ user' = c /\ outdated' = FALSE
  /\ UNCHANGED <<stateFile, tempFile, oldFile, beatVars, up>>

(* ... saveAtomic: the temporary file, then the rename.  (Faulty form: the *)
(* file itself is written, and is empty meanwhile.)                        *)
WriteInPlace == stateFile' = NoChannel /\ tempFile' = mem["agent"]
WriteStateTemp == tempFile' = mem["agent"] /\ UNCHANGED stateFile

WriteState ==
  /\ up /\ saving \in {"user", "beat"}
  /\ WriteStateTemp
  /\ saving' = IF saving = "user" THEN "user renames" ELSE "beat renames"
  /\ UNCHANGED <<oldFile, mem, beatVars, up, counts, user, outdated>>

RenameState ==
  /\ up /\ saving \in {"user renames", "beat renames"}
  /\ stateFile' = tempFile /\ tempFile' = NoChannel
  /\ saving' = "nobody"
  /\ UNCHANGED <<oldFile, mem, beatVars, up, counts, user, outdated>>

(* The error is logged, and memory is ahead of the file. *)
StateSaveFails ==
  /\ up /\ saving # "nobody" /\ Fails
  /\ saving' = "nobody" /\ outdated' = TRUE
  /\ UNCHANGED <<stateFile, tempFile, oldFile, mem, beatVars, up, user>>

-----------------------------------------------------------------------------
(* executeHeartbeat of timer t.  First the nightly rebuild: on a day that  *)
(* has no stamp, in the small hours.                                       *)
BeatAt(t, pc) == up /\ beats[t].pc = pc
BeatGoes(t, pc) == beats' = [beats EXCEPT ![t].pc = pc]

BeginBeat(t) ==
  /\ BeatAt(t, "idle") /\ counts.beats < MaxBeats
  /\ counts' = [counts EXCEPT !.beats = @ + 1]
  /\ \/ stamp # day /\ beats' = [beats EXCEPT ![t] = [pc |-> "rebuilding", day |-> day]]
     \/ BeatGoes(t, "prompting")
  /\ UNCHANGED <<stateVars, prompt, day, stamp, up, user, outdated>>

RebuildAtNight(t) ==
  /\ BeatAt(t, "rebuilding") /\ BeatGoes(t, "stamping")
  /\ UNCHANGED <<stateVars, prompt, day, stamp, up, counts, user, outdated>>

Stamped(t) ==
  /\ BeatAt(t, "stamping") /\ BeatGoes(t, "prompting")
  /\ stamp' = beats[t].day
  /\ UNCHANGED <<stateVars, prompt, day, up, counts, user, outdated>>

(* buildPrompt: without HEARTBEAT.md the template is written, and the beat *)
(* is over.  Otherwise the handler gets the channel of the heartbeat's own *)
(* Manager, and ProcessHeartbeat records it as the last one; with none it  *)
(* is cli:direct, which is not recorded.                                   *)
NoPrompt(t) ==
  /\ BeatAt(t, "prompting") /\ prompt # "tasks"
  /\ prompt' = IF prompt = "missing" THEN "tasks" ELSE prompt
  /\ BeatGoes(t, "idle")
  /\ UNCHANGED <<stateVars, day, stamp, up, counts, user, outdated>>

Beat(t) ==
  /\ BeatAt(t, "prompting") /\ prompt = "tasks"
  /\ IF mem["heartbeat"] = NoChannel
     THEN BeatGoes(t, "idle") /\ UNCHANGED <<mem, saving, outdated>>
     ELSE SetLastChannel("beat", mem["heartbeat"]) /\ BeatGoes(t, "saving") /\ outdated' = TRUE
  /\ UNCHANGED <<stateFile, tempFile, oldFile, prompt, day, stamp, up, counts, user>>

EndBeat(t) ==
  /\ BeatAt(t, "saving") /\ saving \notin {"beat", "beat renames"}
  /\ BeatGoes(t, "idle")
  /\ UNCHANGED <<stateVars, prompt, day, stamp, up, counts, user, outdated>>

DayEnds ==
  /\ day < MaxDay /\ day' = day + 1
  /\ UNCHANGED <<stateVars, prompt, beats, stamp, up, counts, user, outdated>>

HeartbeatNext ==
  \/ Boot \/ ProcessDies \/ WriteState \/ RenameState \/ StateSaveFails \/ DayEnds
  \/ \E c \in Chats : UserRound(c)
  \/ \E t \in Timers : \/ BeginBeat(t) \/ RebuildAtNight(t) \/ Stamped(t)
                       \/ NoPrompt(t) \/ Beat(t) \/ EndBeat(t)

HeartbeatSpec == HeartbeatInit /\ [][HeartbeatNext]_heartbeatVars

-----------------------------------------------------------------------------
ChannelStays ==
  /\ stateFile # NoChannel => stateFile' # NoChannel
  /\ up' /\ saving' = "nobody" /\ ~outdated' => stateFile' = user'

(* Whatever crashes, the next process finds the user's last channel, or    *)
(* the one before it if the crash came before the rename, and never none.  *)
(* The exceptions are a failing save, and a heartbeat since, which records *)
(* the channel it knows (state.go:75-90, 131-155, loop.go:441-450).        *)
LastChannelSurvives == [][ChannelStays]_heartbeatVars
=============================================================================
