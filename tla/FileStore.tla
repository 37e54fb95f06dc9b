------------------------------ MODULE FileStore ------------------------------
(***************************************************************************)
(* The part of the file system that the native daemon relies on: two names *)
(* per download path (the .part file and the final file), what each file   *)
(* holds, and file descriptors that keep following a file when its name is *)
(* renamed and keep writing to nothing visible when its name is unlinked.  *)
(*                                                                         *)
(* Everything here is a pure operator.  A store is a function from names   *)
(* to contents; a descriptor table is a function from threads to the name  *)
(* of the file the thread has open, or Detached when that file lost its    *)
(* name.  A file holds a sequence of chunks; Hole is a chunk nobody wrote. *)
(***************************************************************************)
EXTENDS Naturals, Sequences

CONSTANTS Paths,      \* the values download_item_t.path can take
          NoPath,     \* the empty string in that field
          NoFile,     \* the content of a name that does not exist
          Detached,   \* a descriptor whose file has no name, or no descriptor
          Hole        \* a chunk that was skipped over by a write past the end

ASSUME NoPathAssumption == NoPath \notin Paths

PathValues == Paths \cup {NoPath}

PartOf(p)  == <<"part", p>>
FinalOf(p) == <<"final", p>>
FileNames  == {"part", "final"} \X PathValues

ASSUME DetachedAssumption == Detached \notin FileNames

Exists(store, n) == store[n] # NoFile

(***************************************************************************)
(* local_file_size: the number of chunks, or -1 for a missing file, which  *)
(* every caller treats as "not this many".                                 *)
(***************************************************************************)
SizeIs(store, n, size) == Exists(store, n) /\ Len(store[n]) = size

SizeOrZero(store, n) == IF Exists(store, n) THEN Len(store[n]) ELSE 0

(***************************************************************************)
(* unlink(n): the name goes; descriptors on the file are detached.         *)
(***************************************************************************)
Unlinked(store, n) == [store EXCEPT ![n] = NoFile]

AfterUnlink(fds, n) ==
    [t \in DOMAIN fds |-> IF fds[t] = n THEN Detached ELSE fds[t]]

(***************************************************************************)
(* open(n, O_CREAT | O_APPEND) keeps what is there; with O_TRUNC the file  *)
(* starts empty.                                                           *)
(***************************************************************************)
Opened(store, n, append) ==
    [store EXCEPT ![n] = IF append /\ Exists(store, n) THEN @ ELSE <<>>]

(***************************************************************************)
(* rename(from, to): needs from to exist, replaces to, and carries the     *)
(* descriptors of from along.                                              *)
(***************************************************************************)
Renamed(store, from, to) ==
    [store EXCEPT ![to] = store[from], ![from] = NoFile]

AfterRename(fds, from, to) ==
    [t \in DOMAIN fds |-> CASE fds[t] = from -> to
                            [] fds[t] = to   -> Detached
                            [] OTHER         -> fds[t]]

(***************************************************************************)
(* A write of one chunk: at the end of the file with O_APPEND, otherwise   *)
(* at the descriptor's own position, leaving holes if the file is shorter. *)
(***************************************************************************)
WriteAt(content, pos, chunk) ==
    [i \in 1 .. (IF pos < Len(content) THEN Len(content) ELSE pos + 1) |->
        CASE i = pos + 1 -> chunk
          [] i # pos + 1 /\ i <= Len(content) -> content[i]
          [] i # pos + 1 /\ i > Len(content)  -> Hole]

Written(store, fd, append, pos, chunk) ==
    IF fd = Detached THEN store
    ELSE [store EXCEPT ![fd] = WriteAt(@, IF append THEN Len(@) ELSE pos, chunk)]
==============================================================================
