---------------------------- MODULE DesktopStores ----------------------------
(***************************************************************************)
(* What the desktop host keeps on disk (desktop/src-tauri/src): agent         *)
(* sessions (session_store.rs), project memory (project_memory.rs), the       *)
(* registry of plugins with their packages (extensions.rs) and the log of     *)
(* errors (diagnostics.rs).  A command is the list of the file operations it  *)
(* has still to do; one may fail, and the host may end, before any of them.   *)
(* A value is a number, so that an old one can be told from a new one.        *)
(***************************************************************************)
EXTENDS Naturals, Sequences

CONSTANTS MaxValues,    \* values written: sessions, memories, package versions
          MaxRecords,   \* errors recorded
          LogLimit      \* records a log holds before it is rotated

ASSUME StoresAssumption == MaxValues \in Nat /\ MaxRecords \in Nat /\ LogLimit \in Nat

VARIABLES windows,      \* renaming over a file needs its removal first
          disk,         \* contents of each file
          todo,         \* file operations left of the command that runs
          next,         \* the next new value
          may,          \* for session, memory, registry: what the file may hold
          cut,          \* an installation or removal began and has not ended well
          written       \* the errors written, in order (0 in a log: end of line)

dsVars == <<windows, disk, todo, next, may, cut, written>>

Whole(n) == [version |-> n, enabled |-> FALSE, quarantined |-> FALSE]
NoFile == Whole(0)                      \* for the registry: no plugin
Torn == Whole(MaxValues + 1)
Stored == {"session", "memory", "registry"}
Temporary(f) == [session |-> "session.tmp", memory |-> "memory.tmp",
                 registry |-> "registry.tmp"][f]
Files == Stored \cup {Temporary(f) : f \in Stored} \cup {"manifest", "package"}
Logs == {"log", "log.1"}

DsInit ==
  /\ windows \in BOOLEAN
  /\ disk = [f \in Files \cup Logs |-> IF f \in Logs THEN <<>> ELSE NoFile]
  /\ todo = <<>> /\ next = 1 /\ cut = FALSE /\ written = <<>>
  /\ may = [f \in Stored |-> {NoFile}]

(* Operations on files.                                                       *)
Op(op, f, v) == [op |-> op, file |-> f, value |-> v]
Create(f) == Op("put", f, Torn)                 \* File::create empties it
Put(f, v) == <<Create(f), Op("put", f, v)>>
Remove(f) == Op("put", f, NoFile)
Rename(f, g) == Op("rename", f, g)

\* A whole value replaces the file by way of a temporary one.
ReplaceInPlace(f, v) == Put(f, v)   \* mutant: the file itself is rewritten
Replace(f, v) ==
  Put(Temporary(f), v)
  \o (IF windows /\ f # "registry" /\ disk[f] # NoFile THEN <<Remove(f)>> ELSE <<>>)
  \o <<Rename(Temporary(f), f)>>

\* Until the command is over the file may hold the old value or the new one;
\* on Windows there is a moment when it is not there.
Allowing(f, v) ==
  may' = [may EXCEPT ![f] = @ \cup {v} \cup (IF windows /\ f # "registry" THEN {NoFile} ELSE {})]
\* The command is over, without an error; "settle": so are the package's files.
Finish(f, v) == Op("finish", f, v)
Settle == Op("settle", "package", NoFile)

Begins(f, v, before, after) ==
  /\ todo = <<>>
  /\ todo' = before \o Replace(f, v) \o <<Finish(f, v)>> \o after
  /\ Allowing(f, v)
  /\ UNCHANGED <<windows, disk, written>>

SaveSession == /\ next <= MaxValues /\ Begins("session", Whole(next), <<>>, <<>>)
               /\ next' = next + 1 /\ UNCHANGED cut
SaveMemory  == /\ next <= MaxValues /\ Begins("memory", Whole(next), <<>>, <<>>)
               /\ next' = next + 1 /\ UNCHANGED cut
ClearMemory ==
  /\ todo = <<>> /\ disk["memory"] # NoFile
  /\ todo' = <<Remove("memory"), Finish("memory", NoFile)>>
  /\ Allowing("memory", NoFile)
  /\ UNCHANGED <<windows, disk, next, cut, written>>

\* The registry, read again by every command; one plugin.
Entry == disk["registry"]
Installed == Entry # NoFile

\* install_plugin writes the package over what is there, then the entry.
InstallPlugin ==
  /\ next <= MaxValues
  /\ Begins("registry", Whole(next),
            Put("manifest", Whole(next)) \o Put("package", Whole(next)), <<Settle>>)
  /\ next' = next + 1 /\ cut' = TRUE
\* uninstall_plugin removes the package, then the entry.
UninstallPlugin ==
  /\ Installed
  /\ Begins("registry", NoFile,
            IF disk["manifest"] = NoFile /\ disk["package"] = NoFile THEN <<>>
            ELSE <<Remove("manifest"), Remove("package")>>, <<Settle>>)
  /\ cut' = TRUE /\ UNCHANGED next
\* A quarantined plugin cannot be enabled.
EnableAnything(on) ==   \* mutant: quarantine is not looked at
  /\ Installed
  /\ Begins("registry", [Entry EXCEPT !.enabled = on], <<>>, <<>>)
  /\ UNCHANGED <<next, cut>>
SetPluginEnabled(on) ==
  /\ Installed /\ ~(on /\ Entry.quarantined)
  /\ Begins("registry", [Entry EXCEPT !.enabled = on], <<>>, <<>>)
  /\ UNCHANGED <<next, cut>>
QuarantinePlugin ==
  /\ Installed
  /\ Begins("registry", [Entry EXCEPT !.enabled = FALSE, !.quarantined = TRUE], <<>>, <<>>)
  /\ UNCHANGED <<next, cut>>

\* record_error: a long log is moved aside, over the one moved aside before.
RotateDropsCurrent ==   \* mutant: the current log is removed, not the old one
  <<Op("put", "log", <<>>)>>
Rotate == <<Op("put", "log.1", <<>>), Rename("log", "log.1")>>
RecordError ==
  /\ todo = <<>> /\ Len(written) < MaxRecords
  /\ todo' = (IF Len(disk["log"]) > LogLimit THEN Rotate ELSE <<>>) \o <<Op("record", "log", NoFile), Op("newline", "log", NoFile)>>
  /\ UNCHANGED <<windows, disk, next, may, cut, written>>

(* One operation is carried out ...                                           *)
Performs(o) ==
  /\ disk' = CASE o.op = "put"     -> [disk EXCEPT ![o.file] = o.value]
               [] o.op = "rename"  -> [disk EXCEPT ![o.value] = disk[o.file],
                                        ![o.file] = IF o.file \in Logs THEN <<>> ELSE NoFile]
               [] o.op = "record"  -> [disk EXCEPT ![o.file] = Append(@, Len(written) + 1)]
               [] o.op = "newline" -> [disk EXCEPT ![o.file] = Append(@, 0)]
               [] OTHER            -> disk
  /\ written' = IF o.op = "record" THEN Append(written, Len(written) + 1) ELSE written
  /\ may' = IF o.op = "finish" THEN [may EXCEPT ![o.file] = {o.value}] ELSE may
  /\ cut' = (cut /\ o.op # "settle")
FileStep ==
  /\ todo # <<>> /\ Performs(Head(todo)) /\ todo' = Tail(todo)
  /\ UNCHANGED <<windows, next>>

\* ... or fails, or the host ends: the rest of the command is not done.
CutShort ==
  /\ todo # <<>> /\ todo' = <<>>
  /\ UNCHANGED <<windows, disk, next, may, cut, written>>

TextCommand == SaveSession \/ SaveMemory \/ ClearMemory
PluginCommand == InstallPlugin \/ UninstallPlugin \/ QuarantinePlugin
                 \/ \E on \in BOOLEAN : SetPluginEnabled(on)
=============================================================================
