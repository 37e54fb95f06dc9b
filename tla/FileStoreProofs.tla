---------------------------- MODULE FileStoreProofs ----------------------------
(***************************************************************************)
(* What the operators of FileStore do to a store and its descriptors, for  *)
(* any set T of threads and C of chunks: the store keeps its type, and a    *)
(* descriptor never follows a name that is gone.                           *)
(***************************************************************************)
EXTENDS FileStore, SequenceTheorems, TLAPS

StoreInv(T, C, fds, store) ==
    /\ store \in [FileNames -> Seq(C) \cup {NoFile}]
    /\ fds \in [T -> FileNames \cup {Detached}]
    /\ \A t \in T : fds[t] # Detached => Exists(store, fds[t])

LEMMA NamesLemma ==
    ASSUME NEW p \in PathValues
    PROVE  /\ PartOf(p) \in FileNames /\ FinalOf(p) \in FileNames
           /\ \A q \in PathValues : /\ PartOf(p) # FinalOf(q)
                                    /\ PartOf(p) = PartOf(q) => p = q
                                    /\ FinalOf(p) = FinalOf(q) => p = q
<1> QED
  BY DEF PartOf, FinalOf, FileNames

LEMMA UnlinkLemma ==
    ASSUME NEW T, NEW C, NEW store, NEW fds, StoreInv(T, C, fds, store), NEW n \in FileNames
    PROVE  /\ StoreInv(T, C, AfterUnlink(fds, n), Unlinked(store, n))
           /\ Unlinked(store, n)[n] = NoFile
           /\ \A m \in FileNames \ {n} : Unlinked(store, n)[m] = store[m]
           /\ \A t \in T : fds[t] # n => AfterUnlink(fds, n)[t] = fds[t]
<1>1. Unlinked(store, n) \in [FileNames -> Seq(C) \cup {NoFile}]
  BY DEF Unlinked, StoreInv
<1>2. AfterUnlink(fds, n) \in [T -> FileNames \cup {Detached}]
  BY DEF AfterUnlink, StoreInv
<1>3. \A t \in T : AfterUnlink(fds, n)[t] # Detached => Exists(Unlinked(store, n), AfterUnlink(fds, n)[t])
  BY DEF AfterUnlink, Unlinked, StoreInv, Exists
<1>4. /\ Unlinked(store, n)[n] = NoFile
      /\ \A m \in FileNames \ {n} : Unlinked(store, n)[m] = store[m]
      /\ \A t \in T : fds[t] # n => AfterUnlink(fds, n)[t] = fds[t]
  BY DEF AfterUnlink, Unlinked, StoreInv
<1> QED
  BY <1>1, <1>2, <1>3, <1>4 DEF StoreInv

LEMMA CloseLemma ==
    ASSUME NEW T, NEW C, NEW store, NEW fds, StoreInv(T, C, fds, store), NEW t \in T
    PROVE  StoreInv(T, C, [fds EXCEPT ![t] = Detached], store)
<1> QED
  BY DEF StoreInv

LEMMA OpenLemma ==
    ASSUME NEW T, NEW C, NoFile \notin Seq(C), NEW store, NEW fds, StoreInv(T, C, fds, store),
           NEW n \in FileNames, NEW append \in BOOLEAN, NEW t \in T
    PROVE  /\ StoreInv(T, C, [fds EXCEPT ![t] = n], Opened(store, n, append))
           /\ Opened(store, n, append)[n] = IF append /\ Exists(store, n) THEN store[n] ELSE <<>>
           /\ \A m \in FileNames \ {n} : Opened(store, n, append)[m] = store[m]
<1>1. <<>> \in Seq(C)
  OBVIOUS
<1>2. <<>> # NoFile
  BY <1>1, Zenon
<1>3. Opened(store, n, append) \in [FileNames -> Seq(C) \cup {NoFile}]
  BY <1>1 DEF Opened, StoreInv
<1>4. /\ Opened(store, n, append)[n] = IF append /\ Exists(store, n) THEN store[n] ELSE <<>>
      /\ \A m \in FileNames \ {n} : Opened(store, n, append)[m] = store[m]
  BY DEF Opened, StoreInv
<1>5. \A m \in FileNames : m = n \/ Exists(store, m) => Exists(Opened(store, n, append), m)
  BY <1>2, <1>4 DEF Exists
<1> QED
  BY <1>3, <1>4, <1>5 DEF StoreInv

LEMMA RenameLemma ==
    ASSUME NEW T, NEW C, NEW store, NEW fds, StoreInv(T, C, fds, store),
           NEW from \in FileNames, NEW to \in FileNames, from # to, Exists(store, from)
    PROVE  /\ StoreInv(T, C, AfterRename(fds, from, to), Renamed(store, from, to))
           /\ Renamed(store, from, to)[to] = store[from]
           /\ Renamed(store, from, to)[from] = NoFile
           /\ \A m \in FileNames \ {from, to} : Renamed(store, from, to)[m] = store[m]
           /\ \A t \in T : fds[t] \notin {from, to} => AfterRename(fds, from, to)[t] = fds[t]
<1>1. Renamed(store, from, to) \in [FileNames -> Seq(C) \cup {NoFile}]
  BY DEF Renamed, StoreInv
<1>2. AfterRename(fds, from, to) \in [T -> FileNames \cup {Detached}]
  BY DEF AfterRename, StoreInv
<1>3. \A t \in T : AfterRename(fds, from, to)[t] # Detached
                      => Exists(Renamed(store, from, to), AfterRename(fds, from, to)[t])
  BY DEF AfterRename, Renamed, StoreInv, Exists
<1>4. /\ Renamed(store, from, to)[to] = store[from]
      /\ Renamed(store, from, to)[from] = NoFile
      /\ \A m \in FileNames \ {from, to} : Renamed(store, from, to)[m] = store[m]
      /\ \A t \in T : fds[t] \notin {from, to} => AfterRename(fds, from, to)[t] = fds[t]
  BY DEF AfterRename, Renamed, StoreInv
<1> QED
  BY <1>1, <1>2, <1>3, <1>4 DEF StoreInv

\* Wherever the write lands the result is a sequence of chunks; at the end of the
\* file it is one chunk longer.
LEMMA WriteAtLemma ==
    ASSUME NEW C, Hole \in C, NEW content \in Seq(C), NEW pos \in Nat, NEW chunk \in C
    PROVE  /\ WriteAt(content, pos, chunk) \in Seq(C)
           /\ pos = Len(content) => WriteAt(content, pos, chunk) = Append(content, chunk)
<1> DEFINE n == IF pos < Len(content) THEN Len(content) ELSE pos + 1
           f == [i \in 1 .. n |-> CASE i = pos + 1 -> chunk
                                    [] i # pos + 1 /\ i <= Len(content) -> content[i]
                                    [] i # pos + 1 /\ i > Len(content)  -> Hole]
<1>0. n \in Nat /\ WriteAt(content, pos, chunk) = f
  BY DEF WriteAt
<1>1. \A i \in 1 .. n : f[i] \in C
  OBVIOUS
<1>2. f \in Seq(C)
  <2>1. f \in [1 .. n -> C]
    BY <1>1
  <2> HIDE DEF n, f
  <2> QED
    BY <1>0, <2>1
<1>3. ASSUME pos = Len(content) PROVE f = Append(content, chunk)
  <2>1. Append(content, chunk) \in Seq(C) /\ Len(Append(content, chunk)) = pos + 1 /\ n = pos + 1
    BY <1>3
  <2>2. \A i \in 1 .. pos + 1 : f[i] = Append(content, chunk)[i]
    BY <1>3, <2>1
  <2>3. Append(content, chunk) \in [1 .. pos + 1 -> C]
    BY <2>1, LenProperties
  <2>4. f \in [1 .. pos + 1 -> C]
    BY <1>1, <2>1
  <2> HIDE DEF f, n
  <2> QED
    BY <2>2, <2>3, <2>4
<1> HIDE DEF f, n
<1> QED
  BY <1>0, <1>2, <1>3

LEMMA WriteLemma ==
    ASSUME NEW T, NEW C, NoFile \notin Seq(C), Hole \in C,
           NEW store, NEW fds, StoreInv(T, C, fds, store), NEW t \in T,
           NEW append \in BOOLEAN, NEW pos \in Nat, NEW chunk \in C
    PROVE  /\ StoreInv(T, C, fds, Written(store, fds[t], append, pos, chunk))
           /\ \A m \in FileNames \ {fds[t]} : Written(store, fds[t], append, pos, chunk)[m] = store[m]
           /\ fds[t] # Detached /\ Len(store[fds[t]]) = pos
                => /\ store[fds[t]] \in Seq(C)
                   /\ Written(store, fds[t], append, pos, chunk)[fds[t]] = Append(store[fds[t]], chunk)
<1>1. CASE fds[t] = Detached
  BY <1>1 DEF Written
<1>2. CASE fds[t] # Detached
  <2>1. fds[t] \in FileNames /\ store[fds[t]] \in Seq(C)
    BY <1>2 DEF StoreInv, Exists
  <2> DEFINE at0 == IF append THEN Len(store[fds[t]]) ELSE pos
             new == WriteAt(store[fds[t]], at0, chunk)
  <2>2. at0 \in Nat
    BY <2>1
  <2>3. /\ new \in Seq(C) /\ new # NoFile
        /\ Len(store[fds[t]]) = pos => new = Append(store[fds[t]], chunk)
    BY <2>1, <2>2, WriteAtLemma
  <2>4. Written(store, fds[t], append, pos, chunk) = [store EXCEPT ![fds[t]] = new]
    BY <1>2, <2>1 DEF Written, StoreInv
  <2> HIDE DEF new, at0
  <2> QED
    BY <2>1, <2>3, <2>4 DEF StoreInv, Exists
<1> QED
  BY <1>1, <1>2
==============================================================================
