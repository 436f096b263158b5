---------------------------- MODULE MemoryVault -----------------------------
(***************************************************************************)
(* The agent's memory (pkg/memory/vault.go): notes in files, and an index  *)
(* of them that goes into every prompt (agent/memory.go).  The memory      *)
(* tools (tools/memory.go) run in whatever round calls them; a round of a  *)
(* user, one of a cron job and the heartbeat's nightly rebuild may overlap,*)
(* and the vault has no lock.                                              *)
(***************************************************************************)
EXTENDS Naturals, FiniteSets

CONSTANTS NotePaths,    \* notes; "MEMORY.md" is the legacy one
          Tags,
          NoteSavers,   \* rounds that use memory_save
          Rebuilder,    \* the heartbeat
          NoNote,       \* no file, no row, no index
          MaxNoteSaves, \* bound: saves and edits
          LastDay       \* bound: days

VARIABLES notes,      \* path -> what the file holds, or NoNote
          noteIndex,  \* _index.md: path -> the row of it, or NoNote; or NoNote
          writing, job, \* what each writer is doing, and with which note
          scanned,    \* what it has scanned
          noteSaves, today,
          overlapped, \* history: writers overlapped, or died, since a rebuild
          handEdited, \* history: a file changed under the vault since then
          firstDay    \* history: the day each note came from, if known

vaultVars == <<notes, noteIndex, writing, job, scanned, noteSaves, today, overlapped,
               handEdited, firstDay>>
Writers == NoteSavers \cup {Rebuilder}

(* What a note says, its row in the index, and an index; NoNote is none.   *)
Notes == [created : Nat, updated : Nat, tags : SUBSET Tags, text : BOOLEAN]
Rows == [updated : Nat, tags : SUBSET Tags]
Indexes == [NotePaths -> Rows \cup {NoNote}]
ASSUME NoNoteAssumption == NoNote \notin Notes \cup Rows \cup Indexes

(* A file without frontmatter: its title is its name, nothing else is known. *)
Plain == [created |-> 0, updated |-> 0, tags |-> {}, text |-> TRUE]
Cut == [Plain EXCEPT !.text = FALSE]

VaultInit ==
  /\ notes = [p \in NotePaths |-> NoNote] /\ noteIndex = NoNote
  /\ writing = [w \in Writers |-> "idle"] /\ job = [w \in Writers |-> [path |-> NoNote]]
  /\ scanned = [w \in Writers |-> NoNote]
  /\ noteSaves = 0 /\ today = 1 /\ overlapped = FALSE /\ handEdited = FALSE
  /\ firstDay = [p \in NotePaths |-> 0]

NowAt(w, to) == writing' = [writing EXCEPT ![w] = to]
OnlyWriter(w) == \A v \in Writers \ {w} : writing[v] = "idle"

(* ScanAll: every readable note with its metadata. *)
ScanAll == [p \in NotePaths |-> IF notes[p] = NoNote THEN NoNote
                            ELSE [updated |-> notes[p].updated, tags |-> notes[p].tags]]

(* memory_save and SaveNote up to the write: the created day of a note     *)
(* that is there is kept.  (Faulty form: it is today.)                     *)
CreatedToday(p) == today
Created(p) == IF notes[p] = NoNote \/ notes[p].created = 0 THEN today ELSE notes[p].created
SaveNote(w, p, ts) ==
  /\ w \in NoteSavers /\ writing[w] = "idle"
  /\ noteSaves < MaxNoteSaves /\ noteSaves' = noteSaves + 1
  /\ job' = [job EXCEPT ![w] = [path |-> p, created |-> Created(p), updated |-> today,
                                tags |-> ts, text |-> TRUE]]
  /\ NowAt(w, "write")
  /\ overlapped' = (overlapped \/ ~OnlyWriter(w))
  /\ UNCHANGED <<notes, noteIndex, scanned, today, handEdited, firstDay>>

(* os.WriteFile: the note is empty before it is whole. *)
TruncateNote(w) ==
  /\ writing[w] = "write" /\ NowAt(w, "fill")
  /\ notes' = [notes EXCEPT ![job[w].path] = Cut]
  /\ UNCHANGED <<noteIndex, job, scanned, noteSaves, today, overlapped, handEdited, firstDay>>
FillNote(w) ==
  /\ writing[w] = "fill" /\ NowAt(w, "scan")
  /\ LET n == job[w] IN
     /\ notes' = [notes EXCEPT ![n.path] = [created |-> n.created, updated |-> n.updated,
                                            tags |-> n.tags, text |-> TRUE]]
     /\ firstDay' = [firstDay EXCEPT ![n.path] =
          IF overlapped THEN 0 ELSE IF @ = 0 THEN n.created ELSE @]
  /\ UNCHANGED <<noteIndex, job, scanned, noteSaves, today, overlapped, handEdited>>

(* RebuildIndex after a save, and the nightly one. *)
NightlyRebuild ==
  /\ writing[Rebuilder] = "idle" /\ NowAt(Rebuilder, "scan")
  /\ overlapped' = ~OnlyWriter(Rebuilder) /\ handEdited' = FALSE
  /\ UNCHANGED <<notes, noteIndex, job, scanned, noteSaves, today, firstDay>>
ScanNotes(w) ==
  /\ writing[w] = "scan" /\ NowAt(w, "index")
  /\ scanned' = [scanned EXCEPT ![w] = ScanAll]
  /\ UNCHANGED <<notes, noteIndex, job, noteSaves, today, overlapped, handEdited, firstDay>>
WriteIndex(w) ==
  /\ writing[w] = "index" /\ NowAt(w, "idle")
  /\ noteIndex' = scanned[w]
  /\ scanned' = [scanned EXCEPT ![w] = NoNote] /\ job' = [job EXCEPT ![w] = [path |-> NoNote]]
  /\ UNCHANGED <<notes, noteSaves, today, overlapped, handEdited, firstDay>>

(* The agent's file tools, or the user, write a note under the vault.      *)
EditNote(p) ==
  /\ noteSaves < MaxNoteSaves /\ noteSaves' = noteSaves + 1
  /\ notes' = [notes EXCEPT ![p] = Plain]
  /\ firstDay' = [firstDay EXCEPT ![p] = 0] /\ handEdited' = TRUE
  /\ overlapped' = (overlapped \/ \E w \in Writers : writing[w] # "idle")
  /\ UNCHANGED <<noteIndex, writing, job, scanned, today>>

(* The process dies, and every writer with it. *)
VaultDies ==
  /\ \E w \in Writers : writing[w] # "idle"
  /\ writing' = [w \in Writers |-> "idle"] /\ job' = [w \in Writers |-> [path |-> NoNote]]
  /\ scanned' = [w \in Writers |-> NoNote] /\ overlapped' = TRUE
  /\ firstDay' = [p \in NotePaths |-> IF notes[p] = Cut THEN 0 ELSE firstDay[p]]
  /\ UNCHANGED <<notes, noteIndex, noteSaves, today, handEdited>>

NextDay ==
  /\ today < LastDay /\ (\A w \in Writers : writing[w] = "idle") /\ today' = today + 1
  /\ UNCHANGED <<notes, noteIndex, writing, job, scanned, noteSaves, overlapped, handEdited,
                 firstDay>>

VaultNext ==
  \/ \E w \in Writers : \/ TruncateNote(w) \/ FillNote(w) \/ ScanNotes(w) \/ WriteIndex(w)
                        \/ \E p \in NotePaths, ts \in SUBSET Tags : SaveNote(w, p, ts)
  \/ NightlyRebuild \/ VaultDies \/ NextDay
  \/ \E p \in NotePaths : EditNote(p)

VaultSpec == VaultInit /\ [][VaultNext]_vaultVars

-----------------------------------------------------------------------------
(* What the index says of a note is what memory_search finds on the disk,  *)
(* and memory_recall reads it.                                             *)
Search(ts) == {p \in NotePaths : notes[p] # NoNote /\ ts \subseteq notes[p].tags}
ReadNote(p) == notes[p] # NoNote /\ notes[p].text

(* GetMemoryContext: the index, or without one the legacy note. *)
MemoryContext == IF noteIndex # NoNote THEN {p \in NotePaths : noteIndex[p] # NoNote}
                 ELSE {p \in NotePaths \cap {"MEMORY.md"} : notes[p] # NoNote}

(* Between saves, the prompt shows exactly the notes there are, with the   *)
(* tags a search finds them by, each of them whole and with the day it was *)
(* first saved; unless a save overlapped another writer or a crash since   *)
(* the last rebuild of the night, or a file was changed by hand            *)
(* (vault.go:14, 247-285).                                                 *)
PromptShowsNotes ==
  ~overlapped /\ ~handEdited /\ (\A w \in Writers : writing[w] = "idle") =>
    /\ MemoryContext = Search({})
    /\ \A p \in MemoryContext, t \in Tags :
         noteIndex # NoNote => (t \in noteIndex[p].tags <=> p \in Search({t}))
    /\ \A p \in NotePaths : firstDay[p] # 0 => ReadNote(p) /\ notes[p].created = firstDay[p]
=============================================================================
