---------------------------- MODULE SettingsStore ----------------------------
(***************************************************************************)
(* SettingsStore (core/settings.py): settings.json, read whole, and written *)
(* by way of settings.json.tmp and a rename.  All writers share the name of *)
(* the temporary file.  The JSON text is one chunk, written when the file   *)
(* is closed; until then the file is empty.                                 *)
(***************************************************************************)
EXTENDS FileStore

CONSTANTS SettingsFile, \* the one path of this store: Paths = {SettingsFile}
          Handlers,     \* threads that may call update
          Keys,         \* the fields of Settings
          Vals, Legal,  \* their values, and those _validate lets pass
          Defaults,     \* default_settings
          Unreadable    \* what json.loads makes of a file cut short

ASSUME SettingsAssumption ==
    /\ Paths = {SettingsFile}
    /\ Legal \subseteq Vals
    /\ Keys # {} /\ Defaults \in [Keys -> Legal]
    /\ Unreadable \notin [Keys -> Vals]
    /\ NoFile \notin Seq([Keys -> Vals]) /\ Detached \notin FileNames

VARIABLES disk,  \* settings.json and settings.json.tmp
          fd,    \* the file each handler has open for writing
          put    \* each handler's update: where it is and what it will save

SettingsPath == FinalOf(SettingsFile)
TmpPath      == PartOf(SettingsFile)

AnyKey   == CHOOSE k \in Keys : TRUE
Settings == [Keys -> Vals]
Valid(s) == \A k \in Keys : s[k] \in Legal

NoPut == [pc |-> "none", new |-> Defaults, key |-> AnyKey]
Put   == [pc : {"none", "open", "write", "replace", "saved", "failed"},
          new : Settings, key : Keys]

\* load
Loaded == IF ~Exists(disk, SettingsPath) THEN Defaults
          ELSE IF Len(disk[SettingsPath]) = 1 THEN disk[SettingsPath][1]
          ELSE Unreadable

StoreInit ==
    /\ disk = [n \in FileNames |-> NoFile]
    /\ fd = [h \in Handlers |-> Detached]
    /\ put = [h \in Handlers |-> NoPut]

At(h, pc) == put' = [put EXCEPT ![h].pc = pc]

\* update up to the first call that changes a file: load, set the field that was
\* sent, validate.
Merge(h, k, v) ==
    /\ put[h].pc = "none"
    /\ LET new == IF Loaded = Unreadable THEN Defaults ELSE [Loaded EXCEPT ![k] = v]
       IN  put' = [put EXCEPT ![h] =
               [pc  |-> IF Loaded # Unreadable /\ Valid(new) THEN "open" ELSE "failed",
                new |-> new, key |-> k]]
    /\ UNCHANGED <<disk, fd>>

\* Mutant: settings.json itself is opened for writing.
OpenInPlace(h) ==
    /\ put[h].pc = "open"
    /\ disk' = Opened(disk, SettingsPath, FALSE)
    /\ fd' = [fd EXCEPT ![h] = SettingsPath]
    /\ At(h, "write")

OpenTmp(h) ==
    /\ put[h].pc = "open"
    /\ disk' = Opened(disk, TmpPath, FALSE)
    /\ fd' = [fd EXCEPT ![h] = TmpPath]
    /\ At(h, "write")

WriteTmp(h) ==
    /\ put[h].pc = "write"
    /\ disk' = Written(disk, fd[h], FALSE, 0, put[h].new)
    /\ fd' = [fd EXCEPT ![h] = Detached]
    /\ At(h, "replace")

\* The disk is full: what was opened stays, empty.
WriteFail(h) ==
    /\ put[h].pc = "write"
    /\ fd' = [fd EXCEPT ![h] = Detached]
    /\ At(h, "failed")
    /\ UNCHANGED disk

ReplaceTmp(h) ==
    /\ put[h].pc = "replace"
    /\ Exists(disk, TmpPath)
    /\ disk' = Renamed(disk, TmpPath, SettingsPath)
    /\ fd' = AfterRename(fd, TmpPath, SettingsPath)
    /\ At(h, "saved")

\* Another writer has renamed the temporary file.
ReplaceFail(h) ==
    /\ put[h].pc = "replace"
    /\ ~Exists(disk, TmpPath)
    /\ At(h, "failed")
    /\ UNCHANGED <<disk, fd>>

Saving(h) == OpenTmp(h) \/ WriteTmp(h) \/ WriteFail(h) \/ ReplaceTmp(h) \/ ReplaceFail(h)

StoreTypeOK ==
    /\ disk \in [FileNames -> Seq(Settings \cup {Hole}) \cup {NoFile}]
    /\ fd \in [Handlers -> FileNames \cup {Detached}]
    /\ put \in [Handlers -> Put]
==============================================================================
