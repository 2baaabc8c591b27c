---------------------------- MODULE GeoUpdateProofs ----------------------------
(***************************************************************************)
(* Proofs about the country database: for any contents, number of lookups  *)
(* and interval, an answer is the active index's, the file always loads,   *)
(* nothing stays mapped, and no download begins before it is due.          *)
(***************************************************************************)
EXTENDS GeoUpdate, FiniteSetTheorems, TLAPS

-----------------------------------------------------------------------------
(* The inductive invariant.                                                *)

\* The file and what a power failure may bring back are valid and on disk; the
\* download is on disk before it is validated, and valid before it is renamed.
FilesGood ==
  /\ file # None => file.data \in Valid /\ file.synced
  /\ before # None => before.data \in Valid /\ before.synced
  /\ upd \in {"load", "stamp", "rename"} => temp.synced
  /\ upd \in {"stamp", "rename"} => temp.data \in Valid

\* The index just built, the active one and the retired one are distinct; each
\* holds the contents of its file.
IndexesGood ==
  /\ fresh # None => fresh # local
  /\ upd \in {"stamp", "rename"} => index[fresh] = temp.data
  /\ upd = "locking" => file # None /\ index[fresh] = file.data
  /\ old # None => upd = "closeOld" /\ old # local
  /\ life \in {"up", "stopping", "locking"} /\ upd # "locking" =>
       DataOf(local) = IF file = None THEN None ELSE file.data

\* Only the three are mapped, and none once the process has closed or ended.
MappedGood ==
  /\ Mmap => \A i \in Ids : index[i] # Closed => i \in {local, fresh, old}
  /\ Mmap /\ life = "closed" => \A i \in Ids : index[i] = Closed
  /\ life \in {"locking", "closed", "down"} => upd = "done"
  /\ life = "down" => local = None /\ \A i \in Ids : index[i] = Closed

\* A reader holds the active index, whose contents it counts among those seen;
\* no other lookup holds one.
ReadersGood ==
  \A l \in Lookups :
    /\ lpc[l] \in {"held", "search"} => held[l] = local /\ DataOf(local) \in seen[l]
    /\ lpc[l] \in {"idle", "done"} => held[l] = None
    /\ lpc[l] = "done" => answer[l] \in seen[l]
    /\ life = "down" => lpc[l] = "idle"

\* While the loop waits, the timer does not fire before the file is due.
TimerGood ==
  upd = "wait" /\ file # None => Interval <= timer + file.age

\* IndexFollowsFile and AnswerOfActive need to know that no step unmaps or
\* reuses the index in the hands of readers; AlwaysStarts, that what is renamed
\* was validated and synchronised.
IInv == TypeOK /\ FilesGood /\ IndexesGood /\ MappedGood /\ ReadersGood /\ TimerGood

\* An index is built with a number nothing refers to: the active index and
\* those in the hands of lookups do not use up the numbers.
LEMMA NewIdUnused ==
  ASSUME TypeOK, fresh = None, old = None
  PROVE  /\ NewId \in Ids /\ NewId # local
         /\ \A l \in Lookups : held[l] # NewId
<1> USE GeoUpdateAssumption
<1> DEFINE inHand == {held[l] : l \in Lookups}
           used == inHand \cup {local}
<1>1. held \in Surjection(Lookups, inHand)
  BY DEF TypeOK, Surjection
<1>2. IsFiniteSet(inHand) /\ Cardinality(inHand) <= Cardinality(Lookups)
  BY <1>1, FS_Surjection
<1>3. /\ Cardinality(Lookups) \in Nat /\ Cardinality(Ids) \in Nat
      /\ Cardinality(inHand) \in Nat
  BY <1>2, FS_CardinalityType
<1> HIDE DEF inHand
<1>4. IsFiniteSet(used) /\ Cardinality(used) <= Cardinality(Lookups) + 1
  <2>1. /\ IsFiniteSet(used)
        /\ Cardinality(used) = IF local \in inHand THEN Cardinality(inHand)
                               ELSE Cardinality(inHand) + 1
    BY <1>2, FS_AddElement, Zenon
  <2> QED BY <1>2, <1>3, <2>1
<1>5. ~(Ids \subseteq used)
  <2>1. Cardinality(used) \in Nat
    BY <1>4, FS_CardinalityType
  <2> QED BY <1>3, <1>4, <2>1, FS_Subset
<1>6. Unused # {}
  BY <1>5 DEF Unused, inHand
<1>7. NewId \in Unused
  BY <1>6 DEF NewId
<1> QED BY <1>7 DEF Unused
-----------------------------------------------------------------------------
(* Each action keeps the invariant.                                        *)

\* The index of the file, if there is one, is the active one; the timer follows its age.
LEMMA StartIInv ==
  ASSUME IInv, Start
  PROVE  IInv'
<1> USE GeoUpdateAssumption, NewIdUnused DEF IInv, TypeOK, Files, disk, memory, updater, lookup,
        Start, Loadable, NextDelay
<1>0. /\ NextDelay(file) \in 0 .. Interval
      /\ index' \in [Ids -> Valid \cup {Closed}] /\ local' \in Ids \cup {None}
      /\ fresh = None /\ old = None
  BY DEF MappedGood, IndexesGood, Attempts
<1>1. TypeOK' BY <1>0 DEF MappedGood, Attempts
<1>2. FilesGood' BY DEF FilesGood
<1>3. IndexesGood' BY DEF IndexesGood, DataOf, FilesGood, MappedGood
<1>4. MappedGood' BY DEF MappedGood, IndexesGood
<1>5. ReadersGood' BY DEF ReadersGood, DataOf, IndexesGood, MappedGood
<1>6. TimerGood' BY DEF TimerGood, NextDelay
<1> QED BY <1>1, <1>2, <1>3, <1>4, <1>5, <1>6

\* Memory is lost, the file and what the directory says stay.
LEMMA KillIInv ==
  ASSUME IInv, Kill
  PROVE  IInv'
<1> USE GeoUpdateAssumption DEF IInv, TypeOK, Files, disk, memory, updater, lookup, Kill, Dead
<1>1. TypeOK' BY DEF Attempts
<1>2. FilesGood' BY DEF FilesGood
<1>3. IndexesGood' BY DEF IndexesGood, DataOf, FilesGood, MappedGood
<1>4. MappedGood' BY DEF MappedGood, IndexesGood
<1>5. ReadersGood' BY DEF ReadersGood, DataOf, IndexesGood, MappedGood
<1>6. TimerGood' BY DEF TimerGood, NextDelay
<1> QED BY <1>1, <1>2, <1>3, <1>4, <1>5, <1>6

\* What comes back was synchronised before it was renamed.
LEMMA PowerFailureIInv ==
  ASSUME IInv, PowerFailure
  PROVE  IInv'
<1> USE GeoUpdateAssumption DEF IInv, TypeOK, Files, disk, memory, updater, lookup, PowerFailure,
        Dead
<1>0. litter' \in BOOLEAN
  BY Zenon
<1>a. file' \in Files /\ before' \in Files
  BY DEF Files
<1>1. TypeOK' BY <1>0, <1>a DEF Attempts
<1>2. FilesGood' BY DEF FilesGood
<1>3. IndexesGood' BY DEF IndexesGood, DataOf, FilesGood, MappedGood
<1>4. MappedGood' BY DEF MappedGood, IndexesGood
<1>5. ReadersGood' BY DEF ReadersGood, DataOf, IndexesGood, MappedGood
<1>6. TimerGood' BY DEF TimerGood, NextDelay
<1> QED BY <1>1, <1>2, <1>3, <1>4, <1>5, <1>6

\* The directory now says what the file is.
LEMMA FlushIInv ==
  ASSUME IInv, Flush
  PROVE  IInv'
<1> USE GeoUpdateAssumption DEF IInv, TypeOK, Files, disk, memory, updater, lookup, Flush
<1>1. TypeOK' BY DEF Attempts
<1>2. FilesGood' BY DEF FilesGood
<1>3. IndexesGood' BY DEF IndexesGood, DataOf, FilesGood, MappedGood
<1>4. MappedGood' BY DEF MappedGood, IndexesGood
<1>5. ReadersGood' BY DEF ReadersGood, DataOf, IndexesGood, MappedGood
<1>6. TimerGood' BY DEF TimerGood, NextDelay
<1> QED BY <1>1, <1>2, <1>3, <1>4, <1>5, <1>6

\* An age grows as the timer runs down.
LEMMA TickIInv ==
  ASSUME IInv, Tick
  PROVE  IInv'
<1> USE GeoUpdateAssumption DEF IInv, TypeOK, Files, disk, memory, updater, lookup, Tick, Min
<1>1. TypeOK' BY DEF Attempts
<1>2. FilesGood' BY DEF FilesGood
<1>3. IndexesGood' BY DEF IndexesGood, DataOf, FilesGood, MappedGood
<1>4. MappedGood' BY DEF MappedGood, IndexesGood
<1>5. ReadersGood' BY DEF ReadersGood, DataOf, IndexesGood, MappedGood
<1>6. TimerGood' BY DEF TimerGood, NextDelay
<1> QED BY <1>1, <1>2, <1>3, <1>4, <1>5, <1>6

\* The loop has nothing in hand when its timer fires.
LEMMA FireIInv ==
  ASSUME IInv, Fire
  PROVE  IInv'
<1> USE GeoUpdateAssumption DEF IInv, TypeOK, Files, disk, memory, updater, lookup, Fire, Goto
<1>1. TypeOK' BY DEF Attempts
<1>2. FilesGood' BY DEF FilesGood
<1>3. IndexesGood' BY DEF IndexesGood, DataOf, FilesGood, MappedGood
<1>4. MappedGood' BY DEF MappedGood, IndexesGood
<1>5. ReadersGood' BY DEF ReadersGood, DataOf, IndexesGood, MappedGood
<1>6. TimerGood' BY DEF TimerGood, NextDelay
<1> QED BY <1>1, <1>2, <1>3, <1>4, <1>5, <1>6

\* The timer is set from the age of the file again.
LEMMA RetryFiresIInv ==
  ASSUME IInv, RetryFires
  PROVE  IInv'
<1> USE GeoUpdateAssumption DEF IInv, TypeOK, Files, disk, memory, updater, lookup, RetryFires,
        Goto, NextDelay
<1>1. TypeOK' BY DEF Attempts
<1>2. FilesGood' BY DEF FilesGood
<1>3. IndexesGood' BY DEF IndexesGood, DataOf, FilesGood, MappedGood
<1>4. MappedGood' BY DEF MappedGood, IndexesGood
<1>5. ReadersGood' BY DEF ReadersGood, DataOf, IndexesGood, MappedGood
<1>6. TimerGood' BY DEF TimerGood, NextDelay
<1> QED BY <1>1, <1>2, <1>3, <1>4, <1>5, <1>6

\* The loop has nothing in hand when it ends.
LEMMA CancelledIInv ==
  ASSUME IInv, Cancelled
  PROVE  IInv'
<1> USE GeoUpdateAssumption DEF IInv, TypeOK, Files, disk, memory, updater, lookup, Cancelled, Goto
<1>1. TypeOK' BY DEF Attempts
<1>2. FilesGood' BY DEF FilesGood
<1>3. IndexesGood' BY DEF IndexesGood, DataOf, FilesGood, MappedGood
<1>4. MappedGood' BY DEF MappedGood, IndexesGood
<1>5. ReadersGood' BY DEF ReadersGood, DataOf, IndexesGood, MappedGood
<1>6. TimerGood' BY DEF TimerGood, NextDelay
<1> QED BY <1>1, <1>2, <1>3, <1>4, <1>5, <1>6

\* The index in hand is unmapped, and is not the active one.
LEMMA FailsIInv ==
  ASSUME IInv, Fails
  PROVE  IInv'
<1> USE GeoUpdateAssumption DEF IInv, TypeOK, Files, disk, memory, updater, lookup, Fails,
        Failed, Unmapped, Goto, Attempts
<1>1. TypeOK' BY DEF Attempts
<1>2. FilesGood' BY DEF FilesGood
<1>3. IndexesGood' BY DEF IndexesGood, DataOf, FilesGood, MappedGood
<1>4. MappedGood' BY DEF MappedGood, IndexesGood
<1>5. ReadersGood' BY DEF ReadersGood, DataOf, IndexesGood, MappedGood
<1>6. TimerGood' BY DEF TimerGood, NextDelay
<1> QED BY <1>1, <1>2, <1>3, <1>4, <1>5, <1>6

\* Nothing is in hand yet.
LEMMA RequestIInv ==
  ASSUME IInv, Request
  PROVE  IInv'
<1> USE GeoUpdateAssumption DEF IInv, TypeOK, Files, disk, memory, updater, lookup, Request, Goto
<1>1. TypeOK' BY DEF Attempts
<1>2. FilesGood' BY DEF FilesGood
<1>3. IndexesGood' BY DEF IndexesGood, DataOf, FilesGood, MappedGood
<1>4. MappedGood' BY DEF MappedGood, IndexesGood
<1>5. ReadersGood' BY DEF ReadersGood, DataOf, IndexesGood, MappedGood
<1>6. TimerGood' BY DEF TimerGood, NextDelay
<1> QED BY <1>1, <1>2, <1>3, <1>4, <1>5, <1>6

\* The download file is there, its contents not valid.
LEMMA CreateTempIInv ==
  ASSUME IInv, CreateTemp
  PROVE  IInv'
<1> USE GeoUpdateAssumption DEF IInv, TypeOK, Files, disk, memory, updater, lookup, CreateTemp, Goto
<1>0. temp' \in [data : Valid \cup {Bad}, age : 0..Interval, synced : BOOLEAN]
  OBVIOUS
<1>1. TypeOK' BY <1>0 DEF Attempts
<1>2. FilesGood' BY DEF FilesGood
<1>3. IndexesGood' BY DEF IndexesGood, DataOf, FilesGood, MappedGood
<1>4. MappedGood' BY DEF MappedGood, IndexesGood
<1>5. ReadersGood' BY DEF ReadersGood, DataOf, IndexesGood, MappedGood
<1>6. TimerGood' BY DEF TimerGood, NextDelay
<1> QED BY <1>1, <1>2, <1>3, <1>4, <1>5, <1>6

\* The contents are synchronised, valid or not.
LEMMA CopyIInv ==
  ASSUME IInv, NEW b \in Valid \cup {Bad}, Copy(b)
  PROVE  IInv'
<1> USE GeoUpdateAssumption DEF IInv, TypeOK, Files, disk, memory, updater, lookup, Copy, Goto
<1>0. temp' \in [data : Valid \cup {Bad}, age : 0..Interval, synced : BOOLEAN]
  OBVIOUS
<1>1. TypeOK' BY <1>0 DEF Attempts
<1>2. FilesGood' BY DEF FilesGood
<1>3. IndexesGood' BY DEF IndexesGood, DataOf, FilesGood, MappedGood
<1>4. MappedGood' BY DEF MappedGood, IndexesGood
<1>5. ReadersGood' BY DEF ReadersGood, DataOf, IndexesGood, MappedGood
<1>6. TimerGood' BY DEF TimerGood, NextDelay
<1> QED BY <1>1, <1>2, <1>3, <1>4, <1>5, <1>6

\* The index gets a number nothing refers to; the contents were valid.
LEMMA LoadDatIndexIInv ==
  ASSUME IInv, LoadDatIndex
  PROVE  IInv'
<1> USE GeoUpdateAssumption, NewIdUnused DEF IInv, TypeOK, Files, disk, memory, updater, lookup,
        LoadDatIndex, Loadable, Goto
<1>0. /\ fresh = None /\ old = None /\ temp.data \in Valid
      /\ index' \in [Ids -> Valid \cup {Closed}] /\ fresh' \in Ids
  BY DEF IndexesGood
<1>1. TypeOK' BY <1>0 DEF Attempts
<1>2. FilesGood' BY DEF FilesGood
<1>3. IndexesGood' BY DEF IndexesGood, DataOf, FilesGood, MappedGood
<1>4. MappedGood' BY DEF MappedGood, IndexesGood
<1>5. ReadersGood' BY DEF ReadersGood, DataOf, IndexesGood, MappedGood
<1>6. TimerGood' BY DEF TimerGood, NextDelay
<1> QED BY <1>1, <1>2, <1>3, <1>4, <1>5, <1>6

\* The contents stay as they were validated.
LEMMA ChtimesIInv ==
  ASSUME IInv, Chtimes
  PROVE  IInv'
<1> USE GeoUpdateAssumption DEF IInv, TypeOK, Files, disk, memory, updater, lookup, Chtimes, Goto
<1>1. TypeOK' BY DEF Attempts
<1>2. FilesGood' BY DEF FilesGood
<1>3. IndexesGood' BY DEF IndexesGood, DataOf, FilesGood, MappedGood
<1>4. MappedGood' BY DEF MappedGood, IndexesGood
<1>5. ReadersGood' BY DEF ReadersGood, DataOf, IndexesGood, MappedGood
<1>6. TimerGood' BY DEF TimerGood, NextDelay
<1> QED BY <1>1, <1>2, <1>3, <1>4, <1>5, <1>6

\* The file becomes the one that was synchronised and validated.
LEMMA RenameIInv ==
  ASSUME IInv, Rename
  PROVE  IInv'
<1> USE GeoUpdateAssumption DEF IInv, TypeOK, Files, disk, memory, updater, lookup, Rename, Goto
<1>1. TypeOK' BY DEF Attempts
<1>2. FilesGood' BY DEF FilesGood
<1>3. IndexesGood' BY DEF IndexesGood, DataOf, FilesGood, MappedGood
<1>4. MappedGood' BY DEF MappedGood, IndexesGood
<1>5. ReadersGood' BY DEF ReadersGood, DataOf, IndexesGood, MappedGood
<1>6. TimerGood' BY DEF TimerGood, NextDelay
<1> QED BY <1>1, <1>2, <1>3, <1>4, <1>5, <1>6

\* No reader holds the index retired; what becomes active is seen by all lookups.
LEMMA SwapIInv ==
  ASSUME IInv, Swap
  PROVE  IInv'
<1> USE GeoUpdateAssumption DEF IInv, TypeOK, Files, disk, memory, updater, lookup, Swap, Goto,
        Readers
<1>0. index[fresh] \in Valid \cup {Closed}
  OBVIOUS
<1>1. TypeOK' BY <1>0 DEF Attempts
<1>2. FilesGood' BY DEF FilesGood
<1>3. IndexesGood' BY DEF IndexesGood, DataOf, FilesGood, MappedGood
<1>4. MappedGood' BY DEF MappedGood, IndexesGood
<1>5. ReadersGood' BY DEF ReadersGood, DataOf, IndexesGood, MappedGood
<1>6. TimerGood' BY DEF TimerGood, NextDelay
<1> QED BY <1>1, <1>2, <1>3, <1>4, <1>5, <1>6

\* The index unmapped is not the active one.
LEMMA CloseOldIInv ==
  ASSUME IInv, CloseOld
  PROVE  IInv'
<1> USE GeoUpdateAssumption DEF IInv, TypeOK, Files, disk, memory, updater, lookup, CloseOld,
        Goto, Unmapped, NextDelay
<1>1. TypeOK' BY DEF Attempts
<1>2. FilesGood' BY DEF FilesGood
<1>3. IndexesGood' BY DEF IndexesGood, DataOf, FilesGood, MappedGood
<1>4. MappedGood' BY DEF MappedGood, IndexesGood
<1>5. ReadersGood' BY DEF ReadersGood, DataOf, IndexesGood, MappedGood
<1>6. TimerGood' BY DEF TimerGood, NextDelay
<1> QED BY <1>1, <1>2, <1>3, <1>4, <1>5, <1>6

\* A reader starts with the active index.
LEMMA RLockIInv ==
  ASSUME IInv, NEW l \in Lookups, RLock(l)
  PROVE  IInv'
<1> USE GeoUpdateAssumption DEF IInv, TypeOK, Files, disk, memory, updater, lookup, RLock
<1>0. DataOf(local) \in Valid \cup {None, Closed}
  BY DEF DataOf
<1>1. TypeOK' BY <1>0 DEF Attempts
<1>2. FilesGood' BY DEF FilesGood
<1>3. IndexesGood' BY DEF IndexesGood, DataOf, FilesGood, MappedGood
<1>4. MappedGood' BY DEF MappedGood, IndexesGood
<1>5. ReadersGood' BY DEF ReadersGood, DataOf, IndexesGood, MappedGood
<1>6. TimerGood' BY DEF TimerGood, NextDelay
<1> QED BY <1>1, <1>2, <1>3, <1>4, <1>5, <1>6

\* It keeps it.
LEMMA SearchIInv ==
  ASSUME IInv, NEW l \in Lookups, Search(l)
  PROVE  IInv'
<1> USE GeoUpdateAssumption DEF IInv, TypeOK, Files, disk, memory, updater, lookup, Search
<1>1. TypeOK' BY DEF Attempts
<1>2. FilesGood' BY DEF FilesGood
<1>3. IndexesGood' BY DEF IndexesGood, DataOf, FilesGood, MappedGood
<1>4. MappedGood' BY DEF MappedGood, IndexesGood
<1>5. ReadersGood' BY DEF ReadersGood, DataOf, IndexesGood, MappedGood
<1>6. TimerGood' BY DEF TimerGood, NextDelay
<1> QED BY <1>1, <1>2, <1>3, <1>4, <1>5, <1>6

\* The index held is the active one, whose contents are seen.
LEMMA ReturnIInv ==
  ASSUME IInv, NEW l \in Lookups, Return(l)
  PROVE  IInv'
<1> USE GeoUpdateAssumption DEF IInv, TypeOK, Files, disk, memory, updater, lookup, Return
<1>0. DataOf(held[l]) \in Valid \cup {None, Closed}
  BY DEF DataOf
<1>1. TypeOK' BY <1>0 DEF Attempts
<1>2. FilesGood' BY DEF FilesGood
<1>3. IndexesGood' BY DEF IndexesGood, DataOf, FilesGood, MappedGood
<1>4. MappedGood' BY DEF MappedGood, IndexesGood
<1>5. ReadersGood' BY DEF ReadersGood, DataOf, IndexesGood, MappedGood
<1>6. TimerGood' BY DEF TimerGood, NextDelay
<1> QED BY <1>1, <1>2, <1>3, <1>4, <1>5, <1>6

\* A lookup done holds no index.
LEMMA FinishIInv ==
  ASSUME IInv, NEW l \in Lookups, Finish(l)
  PROVE  IInv'
<1> USE GeoUpdateAssumption DEF IInv, TypeOK, Files, disk, memory, updater, lookup, Finish
<1>1. TypeOK' BY DEF Attempts
<1>2. FilesGood' BY DEF FilesGood
<1>3. IndexesGood' BY DEF IndexesGood, DataOf, FilesGood, MappedGood
<1>4. MappedGood' BY DEF MappedGood, IndexesGood
<1>5. ReadersGood' BY DEF ReadersGood, DataOf, IndexesGood, MappedGood
<1>6. TimerGood' BY DEF TimerGood, NextDelay
<1> QED BY <1>1, <1>2, <1>3, <1>4, <1>5, <1>6

\* Close only cancels the context.
LEMMA StopIInv ==
  ASSUME IInv, Stop
  PROVE  IInv'
<1> USE GeoUpdateAssumption DEF IInv, TypeOK, Files, disk, memory, updater, lookup, Stop
<1>1. TypeOK' BY DEF Attempts
<1>2. FilesGood' BY DEF FilesGood
<1>3. IndexesGood' BY DEF IndexesGood, DataOf, FilesGood, MappedGood
<1>4. MappedGood' BY DEF MappedGood, IndexesGood
<1>5. ReadersGood' BY DEF ReadersGood, DataOf, IndexesGood, MappedGood
<1>6. TimerGood' BY DEF TimerGood, NextDelay
<1> QED BY <1>1, <1>2, <1>3, <1>4, <1>5, <1>6

\* The loop has ended, with nothing in hand.
LEMMA WorkersDoneIInv ==
  ASSUME IInv, WorkersDone
  PROVE  IInv'
<1> USE GeoUpdateAssumption DEF IInv, TypeOK, Files, disk, memory, updater, lookup, WorkersDone
<1>1. TypeOK' BY DEF Attempts
<1>2. FilesGood' BY DEF FilesGood
<1>3. IndexesGood' BY DEF IndexesGood, DataOf, FilesGood, MappedGood
<1>4. MappedGood' BY DEF MappedGood, IndexesGood
<1>5. ReadersGood' BY DEF ReadersGood, DataOf, IndexesGood, MappedGood
<1>6. TimerGood' BY DEF TimerGood, NextDelay
<1> QED BY <1>1, <1>2, <1>3, <1>4, <1>5, <1>6

\* No reader holds the index unmapped, and there is no other.
LEMMA CloseIndexIInv ==
  ASSUME IInv, CloseIndex
  PROVE  IInv'
<1> USE GeoUpdateAssumption DEF IInv, TypeOK, Files, disk, memory, updater, lookup, CloseIndex,
        Unmapped, Readers
<1>1. TypeOK' BY DEF Attempts
<1>2. FilesGood' BY DEF FilesGood
<1>3. IndexesGood' BY DEF IndexesGood, DataOf, FilesGood, MappedGood
<1>4. MappedGood' BY DEF MappedGood, IndexesGood
<1>5. ReadersGood' BY DEF ReadersGood, DataOf, IndexesGood, MappedGood
<1>6. TimerGood' BY DEF TimerGood, NextDelay
<1> QED BY <1>1, <1>2, <1>3, <1>4, <1>5, <1>6

\* The process is down, the file old or missing.
LEMMA InitIInv == Init => IInv
<1> SUFFICES ASSUME Init PROVE IInv
  OBVIOUS
<1> USE GeoUpdateAssumption DEF Init
<1>1. TypeOK
  <2>1. \A f \in [data : Valid, age : {0, Interval}, synced : {TRUE}] : f \in Files
    <3> SUFFICES ASSUME NEW f \in [data : Valid, age : {0, Interval}, synced : {TRUE}]
                 PROVE  f \in Files
      OBVIOUS
    <3>1. f = [data |-> f.data, age |-> f.age, synced |-> f.synced]
      OBVIOUS
    <3>2. f.data \in Valid /\ f.age \in {0, Interval} /\ f.synced \in {TRUE}
      BY Zenon
    <3>3. f.age \in 0 .. Interval
      BY <3>2
    <3> QED BY <3>1, <3>2, <3>3 DEF Files
  <2>2. None \in Files
    BY DEF Files
  <2> HIDE DEF Files
  <2>3. file \in Files /\ before \in Files /\ temp \in Files
    BY <2>1, <2>2
  <2> QED BY <2>3 DEF TypeOK, Attempts
<1>2. FilesGood /\ TimerGood
  BY DEF FilesGood, TimerGood
<1>3. IndexesGood /\ MappedGood /\ ReadersGood
  BY DEF IndexesGood, MappedGood, ReadersGood
<1> QED BY <1>1, <1>2, <1>3 DEF IInv

\* A step that changes no variable.
LEMMA StutterIInv ==
  ASSUME IInv, UNCHANGED vars
  PROVE  IInv'
<1> USE DEF IInv, vars, disk, memory, updater, lookup
<1>1. TypeOK'
  BY DEF TypeOK
<1>2. FilesGood' /\ TimerGood'
  BY DEF FilesGood, TimerGood
<1>3. IndexesGood' /\ MappedGood' /\ ReadersGood'
  BY DEF IndexesGood, MappedGood, ReadersGood, DataOf
<1> QED BY <1>1, <1>2, <1>3

-----------------------------------------------------------------------------
(* The theorems.                                                           *)

\* The invariant holds in every reachable state.
THEOREM Inductive == Spec => []IInv
<1>1. IInv /\ [Next]_vars => IInv'
  <2>1. SUFFICES ASSUME IInv, [Next]_vars PROVE IInv'
    OBVIOUS
  <2>2. CASE Start \/ Kill \/ PowerFailure \/ Flush \/ Tick
    BY <2>1, <2>2, StartIInv, KillIInv, PowerFailureIInv, FlushIInv, TickIInv
  <2>3. CASE Update
    BY <2>1, <2>3, FireIInv, RetryFiresIInv, CancelledIInv, FailsIInv, RequestIInv,
       CreateTempIInv, CopyIInv, LoadDatIndexIInv, ChtimesIInv, RenameIInv, SwapIInv,
       CloseOldIInv DEF Update, UpdateDat
  <2>4. CASE \E l \in Lookups : Lookup(l)
    BY <2>1, <2>4, RLockIInv, SearchIInv, ReturnIInv, FinishIInv DEF Lookup
  <2>5. CASE Stop \/ WorkersDone \/ CloseIndex
    BY <2>1, <2>5, StopIInv, WorkersDoneIInv, CloseIndexIInv
  <2>6. CASE UNCHANGED vars
    BY <2>1, <2>6, StutterIInv
  <2> QED BY <2>1, <2>2, <2>3, <2>4, <2>5, <2>6 DEF Next
<1> QED BY InitIInv, <1>1, PTL DEF Spec

\* Every variable keeps its type, and updateDat has a file or an index in hand
\* at the program points TypeOK names only.
THEOREM TypeCorrect == Spec => []TypeOK
<1>1. IInv => TypeOK
  BY DEF IInv
<1> QED BY Inductive, <1>1, PTL

\* A lookup answers from an index that was active during the lookup
\* (lookupLocal under localMu, updateDat's swap).
THEOREM AnswersAreOfTheActive == Spec => []AnswerOfActive
<1>1. IInv => AnswerOfActive
  BY DEF IInv, ReadersGood, AnswerOfActive
<1> QED BY Inductive, <1>1, PTL

\* Whatever was killed or lost power when, NewLookuper can load the file.
THEOREM FileAlwaysLoads == Spec => []AlwaysStarts
<1>1. IInv => AlwaysStarts
  BY DEF IInv, FilesGood, AlwaysStarts, Loadable
<1> QED BY Inductive, <1>1, PTL

\* But between rename and swap, memory and disk hold the same database.
THEOREM MemoryFollowsFile == Spec => []IndexFollowsFile
<1>1. IInv => IndexFollowsFile
  BY DEF IInv, IndexesGood, IndexFollowsFile
<1> QED BY Inductive, <1>1, PTL

\* Every path of updateDat and Close unmaps what it mapped, and every path of
\* updateDat that the process lives to see removes its download file.
THEOREM NothingStaysMapped == Spec => []NothingLeaks
<1>1. IInv => NothingLeaks
  <2> SUFFICES ASSUME IInv PROVE NothingLeaks
    OBVIOUS
  <2>1. upd \in {"wait", "retry", "done"} => temp = None /\ fresh = None /\ old = None
    BY DEF IInv, TypeOK, IndexesGood
  <2> QED BY <2>1, GeoUpdateAssumption DEF IInv, MappedGood, NothingLeaks
<1> QED BY Inductive, <1>1, PTL

\* No download begins before the file is due (waitForGeoIPUpdate,
\* nextGeoIPUpdateDelay).
THEOREM DownloadsWhenDue == Spec => OnlyWhenDue
<1>1. IInv /\ [Next]_vars => [upd = "wait" /\ upd' = "request" => Due(file)]_vars
  <2>1. SUFFICES ASSUME IInv, Next, upd = "wait", upd' = "request" PROVE Due(file)
    OBVIOUS
  <2>2. timer = 0
    BY <2>1 DEF Next, Start, Kill, PowerFailure, Dead, Flush, Tick, Update, UpdateDat, Fire,
       RetryFires, Cancelled, Request, CreateTemp, Copy, LoadDatIndex, Chtimes, Rename, Swap,
       CloseOld, Fails, Failed, Attempts, Goto, Lookup, RLock, Search, Return, Finish, Stop,
       WorkersDone, CloseIndex, memory, updater
  <2>3. file # None => file.age \in 0 .. Interval /\ Interval <= file.age
    BY <2>1, <2>2, GeoUpdateAssumption DEF IInv, TypeOK, Files, TimerGood
  <2> QED BY <2>3, GeoUpdateAssumption DEF Due
<1> QED BY Inductive, <1>1, PTL DEF Spec, OnlyWhenDue
=============================================================================
