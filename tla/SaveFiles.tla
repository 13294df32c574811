----------------------------- MODULE SaveFiles -----------------------------
(***************************************************************************)
(* The files of the world save across crashes and restarts: CWorld saves   *)
(* into four files (SaveTry, OpenScriptBackup, r_Write and the last stage  *)
(* of SaveStage) after renaming the files of the save before to an archive *)
(* named by the save count (GetBackupName); at the start LoadWorld reads   *)
(* them and goes back from archive to archive while what it finds is not   *)
(* whole (src/src/game/CWorld.cpp).                                        *)
(*                                                                         *)
(* A save is a number, never reused; the content of a file is the save it  *)
(* belongs to, the save count its header carries and how far it was        *)
(* written.  Every write is flushed (CSFileText::_Write), so a crash finds *)
(* on the disk what was written before it.  WorldSave models what goes     *)
(* into the files between the headers and the end marks; here that is one  *)
(* step.  Abstracted: the statics, and files that do not open.  Names that *)
(* WorldSave has too are told apart, so that one module may extend both.   *)
(***************************************************************************)
EXTENDS Integers, FiniteSets, FiniteSetsExt, SequencesExt

CONSTANTS
  BackupLevels,  \* m_iSaveBackupLevels
  CrashAt,       \* the steps the process may be killed at
  MaxStarted,    \* bound: number of saves started by the running server
  MaxCrashes,    \* bound: number of crashes
  MaxStops       \* bound: number of orderly shutdowns before the last save

Steps == {"load", "run", "remove", "rename", "open", "head", "write", "end"}

ASSUME LevelsAssumption == BackupLevels \in Nat
ASSUME CrashAssumption == CrashAt \subseteq Steps
ASSUME BoundsAssumption == MaxStarted \in Nat /\ MaxCrashes \in Nat /\ MaxStops \in Nat

VARIABLES
  doing,      \* what the server is about to do
  at,         \* the file it is about to do it to, an index of Order
  saveCount,  \* m_iSaveCountID
  names,      \* sDataName, sWorldName, ...: the files LoadWorld tries
  memory,     \* for each file, the save whose content is in the world
  disk,       \* for each file and name, the content
  started,    \* number of saves started so far
  latest,     \* the last save that was written to the end marks
  cut,        \* saves that a crash cut short since then
  crashes, stops

fileVars == <<doing, at, saveCount, names, memory, disk, started, latest, cut, crashes, stops>>

-----------------------------------------------------------------------------
(* Files and their content.                                                *)

Order == <<"data", "world", "chars", "multis">>
Kinds == ToSet(Order)

(* The weight of an octal digit.                                           *)
Octal[g \in Nat] == IF g = 0 THEN 1 ELSE 8 * Octal[g - 1]

(* The archive of a save count: its trailing octal zeros, at most          *)
(* BackupLevels of them, and the octal digit before them.                  *)
Group(c) == IF c = 0 THEN BackupLevels
            ELSE CHOOSE g \in 0 .. BackupLevels :
                   /\ c % Octal[g] = 0
                   /\ g = BackupLevels \/ c % Octal[g + 1] # 0
\* Mutant of BackupName: the digit loses a bit.
BackupNameOfTwoBits(c) == <<Group(c), (c \div Octal[Group(c)]) % 4>>
BackupName(c) == <<Group(c), (c \div Octal[Group(c)]) % 8>>

Main  == <<-1, 0>>   \* the name without "b" and digits
Names == {Main} \cup ((0 .. BackupLevels) \X (0 .. 7))

None      == [save |-> 0, count |-> 0, state |-> "none"]
Opened(s) == [save |-> s, count |-> 0, state |-> "empty"]
Contents  == [save : Nat, count : Nat, state : {"none", "empty", "headed", "whole"}]

Content(k) == disk[k][names[k]]
HasHeader(f) == f.state \in {"headed", "whole"}
IsWhole(f)   == f.state = "whole"

(* The four files of one save under one name.                              *)
WholeSet(n, s) == \A k \in Kinds : IsWhole(disk[k][n]) /\ disk[k][n].save = s

-----------------------------------------------------------------------------
(* LoadWorld.                                                              *)

(* LoadFile: chars is read only after a whole world, multis only after     *)
(* whole chars; the end mark of data is not asked for.                     *)
ReadKinds ==
  {k \in Kinds : /\ k \in {"chars", "multis"} => IsWhole(Content("world"))
                 /\ k = "multis" => IsWhole(Content("chars"))}
LoadSucceeds == \A k \in {"world", "chars", "multis"} : IsWhole(Content(k))

\* Mutant of CountRead: the constructor starts the count at -1.
CountReadOrUnset ==
  LET headed == {i \in DOMAIN Order : Order[i] \in ReadKinds /\ HasHeader(Content(Order[i]))}
  IN  IF headed = {} THEN saveCount - 1 ELSE Content(Order[Max(headed)]).count

(* m_iSaveCountID is the one of the last header that was read.             *)
CountRead ==
  LET headed == {i \in DOMAIN Order : Order[i] \in ReadKinds /\ HasHeader(Content(Order[i]))}
  IN  IF headed = {} THEN saveCount ELSE Content(Order[Max(headed)]).count

LoadedMemory ==
  [k \in Kinds |-> IF k \in ReadKinds /\ IsWhole(Content(k)) THEN Content(k).save ELSE 0]
NoMemory == [k \in Kinds |-> 0]

LoadDone ==
  /\ doing = "load" /\ LoadSucceeds
  /\ doing' = "run" /\ memory' = LoadedMemory /\ saveCount' = CountRead
  /\ UNCHANGED <<at, names, disk, started, latest, cut, crashes, stops>>

\* Mutant of LoadPrevious: sCharsName keeps its value.
LoadPreviousForgetsChars ==
  /\ doing = "load" /\ ~LoadSucceeds /\ CountRead # 0
  /\ names["world"] # BackupName(CountRead)
  /\ names' = [k \in Kinds |-> IF k = "chars" THEN Main ELSE BackupName(CountRead)]
  /\ saveCount' = CountRead
  /\ memory' = NoMemory
  /\ UNCHANGED <<doing, at, disk, started, latest, cut, crashes, stops>>

(* Reset everything that has been loaded, and try the archive of the count *)
(* that was read.                                                          *)
LoadPrevious ==
  /\ doing = "load" /\ ~LoadSucceeds /\ CountRead # 0
  /\ \A k \in Kinds : names[k] # BackupName(CountRead)
  /\ names' = [k \in Kinds |-> BackupName(CountRead)]
  /\ saveCount' = CountRead
  /\ memory' = NoMemory
  /\ UNCHANGED <<doing, at, disk, started, latest, cut, crashes, stops>>

(* No count beyond the one the server started with was read (what is       *)
(* loaded stays), or the archive is the one tried just now: a new save.    *)
LoadGivesUp ==
  /\ doing = "load" /\ ~LoadSucceeds
  /\ CountRead = 0 \/ \E k \in Kinds : names[k] = BackupName(CountRead)
  /\ memory' = IF CountRead = 0 THEN LoadedMemory ELSE NoMemory
  /\ saveCount' = CountRead
  /\ doing' = "remove" /\ at' = 1 /\ started' = started + 1
  /\ UNCHANGED <<names, disk, latest, cut, crashes, stops>>

\* Mutant of LoadWorld: nobody asks whether the archive was tried just now.
LoadWorldAgain ==
  \/ LoadDone
  \/ /\ doing = "load" /\ ~LoadSucceeds /\ CountRead # 0
     /\ names' = [k \in Kinds |-> BackupName(CountRead)]
     /\ saveCount' = CountRead
     /\ memory' = NoMemory
     /\ UNCHANGED <<doing, at, disk, started, latest, cut, crashes, stops>>
  \/ LoadGivesUp /\ CountRead = 0

LoadWorld == LoadDone \/ LoadPrevious \/ LoadGivesUp

-----------------------------------------------------------------------------
(* A save: OpenScriptBackup for each file, r_Write for each, the stages of *)
(* the save, the end mark of each.                                         *)

BeginSave ==
  /\ doing = "run" /\ started < MaxStarted
  /\ doing' = "remove" /\ at' = 1 /\ started' = started + 1
  /\ UNCHANGED <<saveCount, names, memory, disk, latest, cut, crashes, stops>>

Unmoved == UNCHANGED <<saveCount, names, memory, started, latest, cut, crashes, stops>>

RemoveArchive ==
  /\ doing = "remove"
  /\ disk' = [disk EXCEPT ![Order[at]][BackupName(saveCount)] = None]
  /\ doing' = IF saveCount > 0 THEN "rename" ELSE "open"
  /\ at' = at /\ Unmoved

\* Mutant of RenameMain: the archive gets the number of the next save.
RenameMainLate ==
  /\ doing = "rename"
  /\ disk' = [disk EXCEPT ![Order[at]][BackupName(saveCount + 1)] = disk[Order[at]][Main],
                          ![Order[at]][Main] = None]
  /\ doing' = "open" /\ at' = at /\ Unmoved

\* A rename that fails, since there is no file, is logged and that is all.
RenameMain ==
  /\ doing = "rename"
  /\ disk' = [disk EXCEPT ![Order[at]][BackupName(saveCount)] = disk[Order[at]][Main],
                          ![Order[at]][Main] = None]
  /\ doing' = "open" /\ at' = at /\ Unmoved

OpenMain ==
  /\ doing = "open"
  /\ disk' = [disk EXCEPT ![Order[at]][Main] = Opened(started)]
  /\ IF at < Len(Order) THEN doing' = "remove" /\ at' = at + 1
                        ELSE doing' = "head" /\ at' = 1
  /\ Unmoved

WriteHeader ==
  /\ doing = "head"
  /\ disk' = [disk EXCEPT ![Order[at]][Main] =
                [@ EXCEPT !.count = saveCount, !.state = "headed"]]
  /\ IF at < Len(Order) THEN doing' = "head" /\ at' = at + 1
                        ELSE doing' = "write" /\ at' = 1
  /\ Unmoved

(* The stages between the headers and the end marks.                       *)
WriteWorld ==
  /\ doing = "write"
  /\ doing' = "end"
  /\ UNCHANGED <<at, disk>> /\ Unmoved

(* WriteSection("EOF"); after the last one ++m_iSaveCountID.               *)
WriteEof ==
  /\ doing = "end"
  /\ disk' = [disk EXCEPT ![Order[at]][Main].state = "whole"]
  /\ IF at < Len(Order)
     THEN doing' = "end" /\ at' = at + 1 /\ Unmoved
     ELSE /\ doing' = "run" /\ at' = 1 /\ saveCount' = saveCount + 1
          /\ latest' = started /\ cut' = 0
          /\ memory' = [k \in Kinds |-> started]
          /\ UNCHANGED <<names, started, crashes, stops>>

SaveStep == RemoveArchive \/ RenameMain \/ OpenMain \/ WriteHeader \/ WriteWorld \/ WriteEof

-----------------------------------------------------------------------------
(* The end of a process and the start of the next one.                     *)

StartServer ==
  /\ doing' = "load" /\ at' = 1 /\ saveCount' = 0
  /\ names' = [k \in Kinds |-> Main]
  /\ memory' = NoMemory
  /\ UNCHANGED <<disk, started, latest>>

(* Killed: a save under way is cut short.                                  *)
Crash ==
  /\ doing \in CrashAt /\ crashes < MaxCrashes
  /\ crashes' = crashes + 1
  /\ cut' = IF doing \in {"load", "run"} THEN cut ELSE cut + 1
  /\ stops' = stops
  /\ StartServer

(* An orderly shutdown: CWorld::Close finishes a save under way first.     *)
(* When the last save the bound allows is done, restarts are all there is. *)
Stop ==
  /\ doing = "run"
  /\ \/ stops < MaxStops /\ stops' = stops + 1
     \/ started >= MaxStarted /\ stops' = stops
  /\ UNCHANGED <<cut, crashes>>
  /\ StartServer

(* A new shard: no file.                                                   *)
FilesInit ==
  /\ doing = "load" /\ at = 1 /\ saveCount = 0
  /\ names = [k \in Kinds |-> Main]
  /\ memory = NoMemory
  /\ disk = [k \in Kinds |-> [n \in Names |-> None]]
  /\ started = 0 /\ latest = 0 /\ cut = 0 /\ crashes = 0 /\ stops = 0

FilesNext == LoadWorld \/ BeginSave \/ SaveStep \/ Crash \/ Stop

FilesSpec == FilesInit /\ [][FilesNext]_fileVars

(* The loops of LoadWorld and of a forced save run without a wait.         *)
FilesFairSpec == FilesSpec /\ WF_fileVars(LoadWorld \/ SaveStep)

-----------------------------------------------------------------------------
(* Properties.                                                             *)

FilesTypeOK ==
  /\ doing \in Steps /\ at \in DOMAIN Order
  /\ saveCount \in Nat /\ names \in [Kinds -> Names]
  /\ memory \in [Kinds -> Nat]
  /\ disk \in [Kinds -> [Names -> Contents]]
  /\ started \in Nat /\ latest \in 0 .. started /\ cut \in Nat
  /\ crashes \in 0 .. MaxCrashes /\ stops \in 0 .. MaxStops

(* World, characters and multis are loaded from one and the same save, to  *)
(* whichever archive LoadWorld had to go back ("WE MUST Sync these files ! *)
(* CHAR and WORLD !!!", CWorld.cpp:1371).                                  *)
LoadedInSync ==
  memory["world"] = memory["chars"] /\ memory["chars"] = memory["multis"]
FilesInSync == [][doing = "load" /\ doing' = "run" => LoadedInSync']_fileVars

(* As long as not two saves in a row are cut short, a restart finds the    *)
(* last whole save.  Left out is the case that LoadWorld reads no count to *)
(* go back by: the world file is renamed or emptied and no header written  *)
(* yet, or the save cut short was numbered 0.                              *)
Dated == \E k \in {"data", "world"} : HasHeader(disk[k][Main]) /\ disk[k][Main].count > 0
Whole == \A k \in {"world", "chars", "multis"} : IsWhole(disk[k][Main])
RecoversLatest ==
  [][doing = "load" /\ doing' # "load" /\ latest # 0 /\ cut <= 1 /\ (Whole \/ Dated) =>
       \A k \in {"world", "chars", "multis"} : memory'[k] = latest]_fileVars

(* While the process is never killed in the middle of a save, each level   *)
(* of the archives holds its seven newest backups, whole and of the right  *)
(* count: GetBackupName gives no name again before eight times the         *)
(* distance of the level's backups, also when restarts set back the count  *)
(* ("Each level means 7 backups done for it", sphere.ini:173).             *)
Backup(c) ==
  /\ \E s \in 1 .. started : WholeSet(BackupName(c), s)
  /\ \A k \in Kinds : disk[k][BackupName(c)].count \in {c - 1, c}
KeptUpTo(h) == \A c \in 1 .. h : h - c < 8 * Octal[Group(c)] => Backup(c)
Uncut == crashes = 0 \/ CrashAt \subseteq {"load", "run"}
BackupsKept ==
  Uncut /\ doing = "run" => KeptUpTo(disk["world"][Main].count)

(* Whatever saves and crashes leave on the disk, LoadWorld does not go from *)
(* archive to archive for ever ("break endless loop", CWorld.cpp:1422): the server comes up.  *)
ServerComesUp == doing = "load" ~> doing = "run"

(* It goes back twice at most: from an archive only to one that is whole.  *)
AtMostTwoBack ==
  [][LoadPrevious /\ names["world"] # Main => LoadSucceeds']_fileVars

(* When LoadWorld has come to an archive that names itself and gives up,   *)
(* there is no whole save under any name ("Auto change to the most recent  *)
(* previous backup !", CWorld.cpp:1369; "No previous backup available?",   *)
(* CWorld.cpp:1442).                                                       *)
NoWholeSet == \A n \in Names, s \in 1 .. started : ~WholeSet(n, s)
GivesUpOnlyWithoutBackup ==
  [][doing = "load" /\ doing' = "remove" /\ CountRead # 0 => NoWholeSet]_fileVars

=============================================================================
