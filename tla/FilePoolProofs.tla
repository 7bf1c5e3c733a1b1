--------------------------- MODULE FilePoolProofs ---------------------------
(***************************************************************************)
(* Proofs about FilePool, for every set of files, voices and loaders: the  *)
(* inductive invariant IInv and the safety properties it implies.  One     *)
(* lemma per part of IInv, one step per action.                            *)
(***************************************************************************)
EXTENDS FilePool, FiniteSetTheorems, TLAPS

-----------------------------------------------------------------------------
(* Every action keeps every variable in its type.                          *)
LEMMA TypeStep == TypeOK /\ BusyInv /\ [Next]_vars => TypeOK'
<1> SUFFICES ASSUME TypeOK, BusyInv, [Next]_vars PROVE TypeOK'
  OBVIOUS
<1> USE FileAssumption, SizeAssumption DEF TypeOK, fileVars, holderVars,
   queueVars, loaderVars, passVars, binVars
<1>1. ASSUME NEW f \in File, PreloadFile(f) PROVE TypeOK'
  <2>1. status' \in [File -> Status]
    BY <1>1 DEF PreloadFile, Status
  <2> QED
    BY <1>1, <2>1 DEF PreloadFile
<1>2. ASSUME NEW f \in File, RemoveUnusedPreloadedData(f) PROVE TypeOK'
  <2>1. status' \in [File -> Status]
    BY <1>2 DEF RemoveUnusedPreloadedData, Status
  <2>2. availableFrames' \in [File -> Nat]
    BY <1>2 DEF RemoveUnusedPreloadedData
  <2>3. fileData' \in [File -> Int]
    BY <1>2 DEF RemoveUnusedPreloadedData
  <2> QED
    BY <1>2, <2>1, <2>2, <2>3 DEF RemoveUnusedPreloadedData
<1>3. ASSUME NEW h \in Holder, NEW f \in File, QueueRequest(h, f) PROVE TypeOK'
  <2>1. Append(filesToLoad, f) \in Seq(File)
    BY <1>3 DEF BusyInv, QueueRequest
  <2>2. hpc' \in [Holder -> HolderPc]
    BY <1>3, <2>1 DEF QueueRequest, HolderPc
  <2>3. hfile' \in [Holder -> File \cup {NoFile}]
    BY <1>3, <2>1 DEF QueueRequest
  <2> QED
    BY <1>3, <2>1, <2>2, <2>3 DEF QueueRequest
<1>4. ASSUME NEW h \in Holder, NEW f \in File, TakeLoadedPromise(h, f)
      PROVE TypeOK'
  <2>1. hpc' \in [Holder -> HolderPc]
    BY <1>4 DEF TakeLoadedPromise, Hold, HolderPc
  <2>2. hfile' \in [Holder -> File \cup {NoFile}]
    BY <1>4 DEF TakeLoadedPromise, Hold
  <2>3. hspan' \in [Holder -> Nat]
    BY <1>4 DEF TakeLoadedPromise, Hold
  <2>4. readerCount' \in [File -> Int]
    BY <1>4, SMTT(40) DEF TakeLoadedPromise, Hold
  <2> QED
    BY <1>4, <2>1, <2>2, <2>3, <2>4 DEF TakeLoadedPromise, Hold
<1>5. ASSUME NEW h \in Holder, GetDataStatus(h) PROVE TypeOK'
  <2>1. hspan' = hspan \/ hspan' = [hspan EXCEPT ![h] = 0]
    BY <1>5 DEF BusyInv, GetDataStatus, ReadPreloaded
  <2>2. hpc' \in [Holder -> HolderPc]
    BY <1>5, <2>1 DEF GetDataStatus, ReadPreloaded, HolderPc
  <2>3. hspan' \in [Holder -> Nat]
    BY <2>1
  <2> QED
    BY <1>5, <2>1, <2>2, <2>3 DEF GetDataStatus, ReadPreloaded
<1>6. ASSUME NEW h \in Holder, ResetHolder(h) PROVE TypeOK'
  <2>1. hfile[h] \in File
    BY <1>6 DEF BusyInv, ResetHolder
  <2>2. hpc' \in [Holder -> HolderPc]
    BY <1>6, <2>1 DEF ResetHolder, HolderPc
  <2>3. hfile' \in [Holder -> File \cup {NoFile}]
    BY <1>6, <2>1 DEF ResetHolder
  <2>4. hspan' \in [Holder -> Nat]
    BY <1>6, <2>1 DEF ResetHolder
  <2>5. readerCount' \in [File -> Int]
    BY <1>6, <2>1, SMTT(40) DEF ResetHolder
  <2> QED
    BY <1>6, <2>1, <2>2, <2>3, <2>4, <2>5 DEF ResetHolder
<1>7. ASSUME NEW h \in Holder, PostDispatcher(h) PROVE TypeOK'
  <2>1. hpc' \in [Holder -> HolderPc]
    BY <1>7 DEF PostDispatcher, HolderPc
  <2> QED
    BY <1>7, <2>1 DEF PostDispatcher
<1>8. ASSUME NEW h \in Holder, TakeQueuedPromise(h) PROVE TypeOK'
  <2>1. hfile[h] \in File
    BY <1>8 DEF BusyInv, TakeQueuedPromise, Hold
  <2>2. hpc' \in [Holder -> HolderPc]
    BY <1>8, <2>1 DEF TakeQueuedPromise, Hold, HolderPc
  <2>3. hfile' \in [Holder -> File \cup {NoFile}]
    BY <1>8, <2>1 DEF TakeQueuedPromise, Hold
  <2>4. hspan' \in [Holder -> Nat]
    BY <1>8, <2>1 DEF TakeQueuedPromise, Hold
  <2>5. readerCount' \in [File -> Int]
    BY <1>8, <2>1, SMTT(40) DEF TakeQueuedPromise, Hold
  <2> QED
    BY <1>8, <2>1, <2>2, <2>3, <2>4, <2>5 DEF TakeQueuedPromise, Hold
<1>9. ASSUME NEW h \in Holder, GetDataFrames(h) PROVE TypeOK'
  <2>1. hspan' = hspan \/ hspan' = [hspan EXCEPT ![h] = 0]
    BY <1>9 DEF BusyInv, GetDataFrames, ReadPreloaded
  <2>2. hpc' \in [Holder -> HolderPc]
    BY <1>9, <2>1 DEF GetDataFrames, ReadPreloaded, HolderPc
  <2>3. hspan' \in [Holder -> Nat]
    BY <2>1
  <2> QED
    BY <1>9, <2>1, <2>2, <2>3 DEF GetDataFrames, ReadPreloaded
<1>10. ASSUME NEW h \in Holder, GetDataSpan(h) PROVE TypeOK'
  <2>1. hfile[h] \in File
    BY <1>10 DEF BusyInv, GetDataSpan
  <2>2. hpc' \in [Holder -> HolderPc]
    BY <1>10, <2>1 DEF GetDataSpan, HolderPc
  <2>3. hspan' \in [Holder -> Nat]
    BY <1>10, <2>1 DEF GetDataSpan
  <2> QED
    BY <1>10, <2>1, <2>2, <2>3 DEF GetDataSpan
<1>11. ASSUME NEW h \in Holder, EndBlock(h) PROVE TypeOK'
  <2>1. hpc' \in [Holder -> HolderPc]
    BY <1>11 DEF EndBlock, HolderPc
  <2> QED
    BY <1>11, <2>1 DEF EndBlock
<1>12. CASE Dispatch
  <2>1. filesToLoad # <<>> => /\ Tail(filesToLoad) \in Seq(File)
                               /\ Append(jobs, Head(filesToLoad)) \in Seq(File)
    BY <1>12 DEF BusyInv, Dispatch
  <2>2. CASE filesToLoad = <<>>
    BY <1>12, <2>2 DEF Dispatch
  <2>3. CASE filesToLoad # <<>>
    <3>1. /\ filesToLoad' = Tail(filesToLoad)
          /\ jobs' = Append(jobs, Head(filesToLoad))
      BY <1>12, <2>3 DEF Dispatch
    <3>2. dispatchBarrier' \in Nat
      BY <1>12 DEF Dispatch
    <3> QED
      BY <1>12, <2>1, <2>3, <3>1, <3>2 DEF Dispatch
  <2> QED
    BY <2>2, <2>3
<1>13. ASSUME NEW l \in Loader, StartJob(l) PROVE TypeOK'
  <2>1. Head(jobs) \in File /\ Tail(jobs) \in Seq(File)
    BY <1>13 DEF BusyInv, StartJob, Goto
  <2>2. lpc' \in [Loader -> LoaderPc]
    BY <1>13, <2>1 DEF StartJob, Goto, LoaderPc
  <2>3. lfile' \in [Loader -> File \cup {NoFile}]
    BY <1>13, <2>1, ZenonT(60) DEF StartJob, Goto
  <2> QED
    BY <1>13, <2>1, <2>2, <2>3 DEF StartJob, Goto
<1>14. ASSUME NEW l \in Loader, LoaderStatus(l) PROVE TypeOK'
  <2>1. lpc' \in [Loader -> LoaderPc]
    BY <1>14 DEF LoaderStatus, Goto, EndJob, LoaderPc
  <2>2. lfile' \in [Loader -> File \cup {NoFile}]
    BY <1>14 DEF LoaderStatus, Goto, EndJob
  <2> QED
    BY <1>14, <2>1, <2>2 DEF LoaderStatus, Goto, EndJob
<1>15. ASSUME NEW l \in Loader, LoaderClaim(l) PROVE TypeOK'
  <2>1. lpc' \in [Loader -> LoaderPc]
    BY <1>15 DEF LoaderClaim, Goto, LoaderPc
  <2>2. status' \in [File -> Status]
    BY <1>15 DEF LoaderClaim, Goto, Status
  <2> QED
    BY <1>15, <2>1, <2>2 DEF LoaderClaim, Goto
<1>16. ASSUME NEW l \in Loader, LoaderPrepare(l) PROVE TypeOK'
  <2>1. lfile[l] \in File
    BY <1>16 DEF BusyInv, LoaderPrepare, Goto
  <2>2. lpc' \in [Loader -> LoaderPc]
    BY <1>16, <2>1 DEF LoaderPrepare, Goto, LoaderPc
  <2>3. fileData' \in [File -> Int]
    BY <1>16, <2>1 DEF LoaderPrepare, Goto
  <2> QED
    BY <1>16, <2>1, <2>2, <2>3 DEF LoaderPrepare, Goto
<1>17. ASSUME NEW l \in Loader, LoaderWrite(l) PROVE TypeOK'
  <2>1. lfile[l] \in File
    BY <1>17 DEF BusyInv, LoaderWrite, Goto
  <2>2. lpc' \in [Loader -> LoaderPc]
    BY <1>17, <2>1 DEF LoaderWrite, Goto, LoaderPc
  <2>3. fileData' \in [File -> Int]
    BY <1>17, <2>1 DEF LoaderWrite, Goto
  <2> QED
    BY <1>17, <2>1, <2>2, <2>3 DEF LoaderWrite, Goto
<1>18. ASSUME NEW l \in Loader, LoaderPublish(l) PROVE TypeOK'
  <2>1. lfile[l] \in File
    BY <1>18 DEF BusyInv, LoaderPublish, Goto
  <2>2. lpc' \in [Loader -> LoaderPc]
    BY <1>18, <2>1 DEF LoaderPublish, Goto, LoaderPc
  <2>3. availableFrames' \in [File -> Nat]
    BY <1>18, <2>1 DEF LoaderPublish, Goto
  <2> QED
    BY <1>18, <2>1, <2>2, <2>3 DEF LoaderPublish, Goto
<1>19. ASSUME NEW l \in Loader, LoaderDone(l) PROVE TypeOK'
  <2>1. lpc' \in [Loader -> LoaderPc]
    BY <1>19 DEF LoaderDone, Goto, LoaderPc
  <2>2. status' \in [File -> Status]
    BY <1>19 DEF LoaderDone, Goto, Status
  <2> QED
    BY <1>19, <2>1, <2>2 DEF LoaderDone, Goto
<1>20. ASSUME NEW l \in Loader, LoaderRegister(l) PROVE TypeOK'
  <2>1. lfile[l] \in File
    BY <1>20 DEF BusyInv, LoaderRegister, Goto, EndJob
  <2>2. lpc' \in [Loader -> LoaderPc]
    BY <1>20, <2>1 DEF LoaderRegister, Goto, EndJob, LoaderPc
  <2>3. lfile' \in [Loader -> File \cup {NoFile}]
    BY <1>20, <2>1 DEF LoaderRegister, Goto, EndJob
  <2> QED
    BY <1>20, <2>1, <2>2, <2>3 DEF LoaderRegister, Goto, EndJob
<1>21. CASE GcTryLock
  BY <1>21 DEF GcTryLock, PassPc, Status
<1>22. ASSUME NEW f \in File, GcExamine(f) PROVE TypeOK'
  BY <1>22 DEF GcExamine, Keep, Drop, PassPc, Status
<1>23. CASE GcStatus
  <2>1. gfile \in File
    BY <1>23 DEF BusyInv, GcStatus
  <2> QED
    BY <1>23, <2>1 DEF GcStatus, PassPc, Status
<1>24. CASE GcFrames
  BY <1>24 DEF GcFrames, Drop, PassPc, Status
<1>25. CASE GcClaim
  <2>1. status' \in [File -> Status]
    BY <1>25 DEF GcClaim, Keep, Status
  <2> QED
    BY <1>25, <2>1 DEF GcClaim, Keep, PassPc, Status
<1>26. CASE GcRecheck
  <2>1. status' \in [File -> Status]
    BY <1>26 DEF GcRecheck, Keep, Status
  <2> QED
    BY <1>26, <2>1 DEF GcRecheck, Keep, PassPc, Status
<1>27. CASE GcZero
  <2>1. availableFrames' \in [File -> Nat]
    BY <1>27 DEF GcZero
  <2> QED
    BY <1>27, <2>1 DEF GcZero, PassPc, Status
<1>28. CASE GcMove
  <2>1. gfile \in File
    BY <1>28 DEF BusyInv, GcMove
  <2>2. fileData' \in [File -> Int]
    BY <1>28, <2>1 DEF GcMove
  <2> QED
    BY <1>28, <2>1, <2>2 DEF GcMove, PassPc, Status
<1>29. CASE GcRestore
  <2>1. status' \in [File -> Status]
    BY <1>29 DEF GcRestore, Drop, Status
  <2> QED
    BY <1>29, <2>1 DEF GcRestore, Drop, PassPc, Status
<1>30. CASE GcReturn
  BY <1>30 DEF GcReturn, PassPc, Status
<1>31. CASE GarbageWake
  BY <1>31 DEF GarbageWake
<1>32. CASE GarbageClear
  BY <1>32 DEF GarbageClear
<1>33. CASE UNCHANGED vars
  BY <1>33 DEF vars
<1> QED
  BY <1>1, <1>2, <1>3, <1>4, <1>5, <1>6, <1>7, <1>8, <1>9, <1>10, <1>11, <1>12,
     <1>13, <1>14, <1>15, <1>16, <1>17, <1>18, <1>19, <1>20, <1>21, <1>22,
     <1>23, <1>24, <1>25, <1>26, <1>27, <1>28, <1>29, <1>30, <1>31, <1>32, <1>33
     DEF Next, Control, VoiceCall, InPromise, InBlock, LoaderStep, InPass

-----------------------------------------------------------------------------
(* A busy thread keeps the file it works on.                               *)
LEMMA BusyStep == TypeOK /\ BusyInv /\ [Next]_vars => BusyInv'
<1> SUFFICES ASSUME TypeOK, BusyInv, [Next]_vars PROVE BusyInv'
  OBVIOUS
<1> USE FileAssumption DEF TypeOK, BusyInv, fileVars, holderVars, queueVars,
   loaderVars, passVars, binVars
<1>1. ASSUME NEW f \in File, PreloadFile(f) PROVE BusyInv'
  BY <1>1 DEF PreloadFile, Unused
<1>2. ASSUME NEW f \in File, RemoveUnusedPreloadedData(f) PROVE BusyInv'
  BY <1>2 DEF RemoveUnusedPreloadedData, Unused
<1>3. ASSUME NEW h \in Holder, NEW f \in File, QueueRequest(h, f) PROVE BusyInv'
  BY <1>3 DEF QueueRequest
<1>4. ASSUME NEW h \in Holder, NEW f \in File, TakeLoadedPromise(h, f)
      PROVE BusyInv'
  BY <1>4 DEF TakeLoadedPromise, Hold
<1>5. ASSUME NEW h \in Holder, GetDataStatus(h) PROVE BusyInv'
  BY <1>5 DEF GetDataStatus, ReadPreloaded
<1>6. ASSUME NEW h \in Holder, ResetHolder(h) PROVE BusyInv'
  BY <1>6 DEF ResetHolder
<1>7. ASSUME NEW h \in Holder, PostDispatcher(h) PROVE BusyInv'
  BY <1>7 DEF PostDispatcher
<1>8. ASSUME NEW h \in Holder, TakeQueuedPromise(h) PROVE BusyInv'
  BY <1>8 DEF TakeQueuedPromise, Hold
<1>9. ASSUME NEW h \in Holder, GetDataFrames(h) PROVE BusyInv'
  BY <1>9 DEF GetDataFrames, ReadPreloaded
<1>10. ASSUME NEW h \in Holder, GetDataSpan(h) PROVE BusyInv'
  BY <1>10 DEF GetDataSpan
<1>11. ASSUME NEW h \in Holder, EndBlock(h) PROVE BusyInv'
  BY <1>11 DEF EndBlock
<1>12. CASE Dispatch
  BY <1>12 DEF Dispatch
<1>13. ASSUME NEW l \in Loader, StartJob(l) PROVE BusyInv'
  BY <1>13 DEF StartJob, Goto
<1>14. ASSUME NEW l \in Loader, LoaderStatus(l) PROVE BusyInv'
  BY <1>14 DEF LoaderStatus, Goto, EndJob
<1>15. ASSUME NEW l \in Loader, LoaderClaim(l) PROVE BusyInv'
  BY <1>15 DEF LoaderClaim, Goto
<1>16. ASSUME NEW l \in Loader, LoaderPrepare(l) PROVE BusyInv'
  BY <1>16 DEF LoaderPrepare, Goto
<1>17. ASSUME NEW l \in Loader, LoaderWrite(l) PROVE BusyInv'
  BY <1>17 DEF LoaderWrite, Goto
<1>18. ASSUME NEW l \in Loader, LoaderPublish(l) PROVE BusyInv'
  BY <1>18 DEF LoaderPublish, Goto
<1>19. ASSUME NEW l \in Loader, LoaderDone(l) PROVE BusyInv'
  BY <1>19 DEF LoaderDone, Goto
<1>20. ASSUME NEW l \in Loader, LoaderRegister(l) PROVE BusyInv'
  BY <1>20 DEF LoaderRegister, Goto, EndJob
<1>21. CASE GcTryLock
  BY <1>21 DEF GcTryLock
<1>22. ASSUME NEW f \in File, GcExamine(f) PROVE BusyInv'
  BY <1>22 DEF GcExamine, Keep, Drop
<1>23. CASE GcStatus
  BY <1>23 DEF GcStatus
<1>24. CASE GcFrames
  BY <1>24 DEF GcFrames, Drop
<1>25. CASE GcClaim
  BY <1>25 DEF GcClaim, Keep
<1>26. CASE GcRecheck
  BY <1>26 DEF GcRecheck, Keep
<1>27. CASE GcZero
  BY <1>27 DEF GcZero
<1>28. CASE GcMove
  BY <1>28 DEF GcMove
<1>29. CASE GcRestore
  BY <1>29 DEF GcRestore, Drop
<1>30. CASE GcReturn
  BY <1>30 DEF GcReturn
<1>31. CASE GarbageWake
  BY <1>31 DEF GarbageWake
<1>32. CASE GarbageClear
  BY <1>32 DEF GarbageClear
<1>33. CASE UNCHANGED vars
  BY <1>33 DEF vars
<1> QED
  BY <1>1, <1>2, <1>3, <1>4, <1>5, <1>6, <1>7, <1>8, <1>9, <1>10, <1>11, <1>12,
     <1>13, <1>14, <1>15, <1>16, <1>17, <1>18, <1>19, <1>20, <1>21, <1>22,
     <1>23, <1>24, <1>25, <1>26, <1>27, <1>28, <1>29, <1>30, <1>31, <1>32, <1>33
     DEF Next, Control, VoiceCall, InPromise, InBlock, LoaderStep, InPass

-----------------------------------------------------------------------------
(* Taking a promise adds one viewer and one to the count.                  *)
LEMMA HoldCount ==
  ASSUME TypeOK, CountInv, NEW h \in Holder, NEW f \in File, hpc[h] \notin Counted, Hold(h, f)
  PROVE  CountInv'
<1>1. h \in Viewers(f)' /\ Viewers(f)' = Viewers(f) \cup {h} /\ h \notin Viewers(f)
  BY DEF Hold, Viewers, TypeOK, Counted
<1>2. \A g \in File \ {f} : Viewers(g)' = Viewers(g)
  BY DEF Hold, Viewers, TypeOK, Counted
<1>3. IsFiniteSet(Viewers(f))
  BY HolderAssumption, FS_Subset DEF Viewers
<1>4. Cardinality(Viewers(f)') = Cardinality(Viewers(f)) + 1
  BY <1>1, <1>3, FS_AddElement
<1>5. readerCount' = [readerCount EXCEPT ![f] = @ + 1]
  BY DEF Hold
<1> QED
  BY <1>2, <1>4, <1>5 DEF CountInv, TypeOK

(* readerCount stays the number of voices that hold the file.              *)
LEMMA CountStep == TypeOK /\ BusyInv /\ CountInv /\ [Next]_vars => CountInv'
<1> SUFFICES ASSUME TypeOK, BusyInv, CountInv, [Next]_vars PROVE CountInv'
  OBVIOUS
<1> USE DEF CountInv, Viewers, Counted, fileVars, holderVars, queueVars,
   loaderVars, passVars, binVars
<1>1. ASSUME NEW f \in File, PreloadFile(f) PROVE CountInv'
  BY <1>1 DEF PreloadFile, Unused
<1>2. ASSUME NEW f \in File, RemoveUnusedPreloadedData(f) PROVE CountInv'
  BY <1>2 DEF RemoveUnusedPreloadedData, Unused
<1>3. ASSUME NEW h \in Holder, NEW f \in File, QueueRequest(h, f)
      PROVE CountInv'
  <2> HIDE DEF TypeOK, BusyInv, FramesInv, StreamInv, PassInv
  <2>1. \A g \in File : Viewers(g)' = Viewers(g)
    BY <1>3 DEF QueueRequest, Viewers, Counted, TypeOK
  <2>2. readerCount' = readerCount
    BY <1>3 DEF QueueRequest, fileVars
  <2> QED
    BY <2>1, <2>2 DEF CountInv
<1>4. ASSUME NEW h \in Holder, NEW f \in File, TakeLoadedPromise(h, f)
      PROVE CountInv'
  BY <1>4, HoldCount DEF TakeLoadedPromise, Counted
<1>5. ASSUME NEW h \in Holder, GetDataStatus(h) PROVE CountInv'
  <2> HIDE DEF TypeOK, BusyInv, FramesInv, StreamInv, PassInv
  <2>1. \A g \in File : Viewers(g)' = Viewers(g)
    BY <1>5 DEF GetDataStatus, ReadPreloaded, Viewers, Counted, TypeOK
  <2>2. readerCount' = readerCount
    BY <1>5 DEF GetDataStatus, ReadPreloaded, fileVars
  <2> QED
    BY <2>1, <2>2 DEF CountInv
<1>6. ASSUME NEW h \in Holder, ResetHolder(h) PROVE CountInv'
  <2> HIDE DEF TypeOK, BusyInv, FramesInv, StreamInv, PassInv
  <2> DEFINE f == hfile[h]
  <2>1. f \in File /\ IsFiniteSet(Viewers(f))
    BY <1>6, HolderAssumption, FS_Subset DEF BusyInv, ResetHolder, Viewers
  <2>2. h \in Viewers(f)
    BY <1>6 DEF ResetHolder, Viewers, Counted
  <2>3. \A g \in File : Viewers(g)' = IF g = f THEN Viewers(f) \ {h} ELSE Viewers(g)
    BY <1>6 DEF ResetHolder, Viewers, Counted, TypeOK
  <2>4. Cardinality(Viewers(f) \ {h}) = Cardinality(Viewers(f)) - 1
    BY <2>1, <2>2, FS_RemoveElement
  <2>5. readerCount' = [readerCount EXCEPT ![f] = @ - 1]
    BY <1>6 DEF ResetHolder
  <2> QED
    BY <2>1, <2>3, <2>4, <2>5 DEF CountInv, TypeOK
<1>7. ASSUME NEW h \in Holder, PostDispatcher(h) PROVE CountInv'
  BY <1>7 DEF PostDispatcher
<1>8. ASSUME NEW h \in Holder, TakeQueuedPromise(h) PROVE CountInv'
  BY <1>8, HoldCount DEF TakeQueuedPromise, Counted, BusyInv
<1>9. ASSUME NEW h \in Holder, GetDataFrames(h) PROVE CountInv'
  <2> HIDE DEF TypeOK, BusyInv, FramesInv, StreamInv, PassInv
  <2>1. \A g \in File : Viewers(g)' = Viewers(g)
    BY <1>9 DEF GetDataFrames, ReadPreloaded, Viewers, Counted, TypeOK
  <2>2. readerCount' = readerCount
    BY <1>9 DEF GetDataFrames, ReadPreloaded, fileVars
  <2> QED
    BY <2>1, <2>2 DEF CountInv
<1>10. ASSUME NEW h \in Holder, GetDataSpan(h) PROVE CountInv'
  BY <1>10 DEF GetDataSpan
<1>11. ASSUME NEW h \in Holder, EndBlock(h) PROVE CountInv'
  BY <1>11 DEF EndBlock
<1>12. CASE Dispatch
  BY <1>12 DEF Dispatch
<1>13. ASSUME NEW l \in Loader, StartJob(l) PROVE CountInv'
  BY <1>13 DEF StartJob, Goto
<1>14. ASSUME NEW l \in Loader, LoaderStatus(l) PROVE CountInv'
  BY <1>14 DEF LoaderStatus, Goto, EndJob
<1>15. ASSUME NEW l \in Loader, LoaderClaim(l) PROVE CountInv'
  BY <1>15 DEF LoaderClaim, Goto
<1>16. ASSUME NEW l \in Loader, LoaderPrepare(l) PROVE CountInv'
  BY <1>16 DEF LoaderPrepare, Goto
<1>17. ASSUME NEW l \in Loader, LoaderWrite(l) PROVE CountInv'
  BY <1>17 DEF LoaderWrite, Goto
<1>18. ASSUME NEW l \in Loader, LoaderPublish(l) PROVE CountInv'
  BY <1>18 DEF LoaderPublish, Goto
<1>19. ASSUME NEW l \in Loader, LoaderDone(l) PROVE CountInv'
  BY <1>19 DEF LoaderDone, Goto
<1>20. ASSUME NEW l \in Loader, LoaderRegister(l) PROVE CountInv'
  BY <1>20 DEF LoaderRegister, Goto, EndJob
<1>21. CASE GcTryLock
  BY <1>21 DEF GcTryLock
<1>22. ASSUME NEW f \in File, GcExamine(f) PROVE CountInv'
  BY <1>22 DEF GcExamine, Keep, Drop
<1>23. CASE GcStatus
  BY <1>23 DEF GcStatus
<1>24. CASE GcFrames
  BY <1>24 DEF GcFrames, Drop
<1>25. CASE GcClaim
  BY <1>25 DEF GcClaim, Keep
<1>26. CASE GcRecheck
  BY <1>26 DEF GcRecheck, Keep
<1>27. CASE GcZero
  BY <1>27 DEF GcZero
<1>28. CASE GcMove
  BY <1>28 DEF GcMove
<1>29. CASE GcRestore
  BY <1>29 DEF GcRestore, Drop
<1>30. CASE GcReturn
  BY <1>30 DEF GcReturn
<1>31. CASE GarbageWake
  BY <1>31 DEF GarbageWake
<1>32. CASE GarbageClear
  BY <1>32 DEF GarbageClear
<1>33. CASE UNCHANGED vars
  BY <1>33 DEF vars
<1> QED
  BY <1>1, <1>2, <1>3, <1>4, <1>5, <1>6, <1>7, <1>8, <1>9, <1>10, <1>11, <1>12,
     <1>13, <1>14, <1>15, <1>16, <1>17, <1>18, <1>19, <1>20, <1>21, <1>22,
     <1>23, <1>24, <1>25, <1>26, <1>27, <1>28, <1>29, <1>30, <1>31, <1>32, <1>33
     DEF Next, Control, VoiceCall, InPromise, InBlock, LoaderStep, InPass

-----------------------------------------------------------------------------
(* Published frames stay within the buffer, fresh files have none.         *)
LEMMA FramesStep ==
  TypeOK /\ BusyInv /\ FramesInv /\ StreamInv /\ PassInv
    /\ [Next]_vars => FramesInv'
<1> SUFFICES ASSUME TypeOK, BusyInv, FramesInv, StreamInv, PassInv, [Next]_vars
             PROVE FramesInv'
  OBVIOUS
<1> USE FileAssumption, SizeAssumption DEF TypeOK, BusyInv, FramesInv,
   StreamInv, Streams, PassInv, Claimed, Viewers, PastRecheck, Counted,
   fileVars, holderVars, queueVars, loaderVars, passVars, binVars
<1>1. ASSUME NEW f \in File, PreloadFile(f) PROVE FramesInv'
  BY <1>1, SMTT(40) DEF PreloadFile
<1>2. ASSUME NEW f \in File, RemoveUnusedPreloadedData(f) PROVE FramesInv'
  BY <1>2 DEF RemoveUnusedPreloadedData
<1>3. ASSUME NEW h \in Holder, NEW f \in File, QueueRequest(h, f)
      PROVE FramesInv'
  BY <1>3 DEF QueueRequest
<1>4. ASSUME NEW h \in Holder, NEW f \in File, TakeLoadedPromise(h, f)
      PROVE FramesInv'
  BY <1>4 DEF TakeLoadedPromise, Hold
<1>5. ASSUME NEW h \in Holder, GetDataStatus(h) PROVE FramesInv'
  BY <1>5 DEF GetDataStatus, ReadPreloaded
<1>6. ASSUME NEW h \in Holder, ResetHolder(h) PROVE FramesInv'
  BY <1>6 DEF ResetHolder
<1>7. ASSUME NEW h \in Holder, PostDispatcher(h) PROVE FramesInv'
  BY <1>7 DEF PostDispatcher
<1>8. ASSUME NEW h \in Holder, TakeQueuedPromise(h) PROVE FramesInv'
  BY <1>8 DEF TakeQueuedPromise, Hold
<1>9. ASSUME NEW h \in Holder, GetDataFrames(h) PROVE FramesInv'
  BY <1>9 DEF GetDataFrames, ReadPreloaded
<1>10. ASSUME NEW h \in Holder, GetDataSpan(h) PROVE FramesInv'
  BY <1>10 DEF GetDataSpan
<1>11. ASSUME NEW h \in Holder, EndBlock(h) PROVE FramesInv'
  BY <1>11 DEF EndBlock
<1>12. CASE Dispatch
  BY <1>12 DEF Dispatch
<1>13. ASSUME NEW l \in Loader, StartJob(l) PROVE FramesInv'
  BY <1>13 DEF StartJob, Goto
<1>14. ASSUME NEW l \in Loader, LoaderStatus(l) PROVE FramesInv'
  BY <1>14 DEF LoaderStatus, Goto, EndJob
<1>15. ASSUME NEW l \in Loader, LoaderClaim(l) PROVE FramesInv'
  BY <1>15, SMTT(40) DEF LoaderClaim, Goto
<1>16. ASSUME NEW l \in Loader, LoaderPrepare(l) PROVE FramesInv'
  BY <1>16, SMTT(40) DEF LoaderPrepare, Goto
<1>17. ASSUME NEW l \in Loader, LoaderWrite(l) PROVE FramesInv'
  BY <1>17, SMTT(40) DEF LoaderWrite, Goto
<1>18. ASSUME NEW l \in Loader, LoaderPublish(l) PROVE FramesInv'
  BY <1>18, SMTT(40) DEF LoaderPublish, Goto
<1>19. ASSUME NEW l \in Loader, LoaderDone(l) PROVE FramesInv'
  BY <1>19, SMTT(40) DEF LoaderDone, Goto
<1>20. ASSUME NEW l \in Loader, LoaderRegister(l) PROVE FramesInv'
  BY <1>20 DEF LoaderRegister, Goto, EndJob
<1>21. CASE GcTryLock
  BY <1>21 DEF GcTryLock
<1>22. ASSUME NEW f \in File, GcExamine(f) PROVE FramesInv'
  BY <1>22 DEF GcExamine, Keep, Drop
<1>23. CASE GcStatus
  BY <1>23 DEF GcStatus
<1>24. CASE GcFrames
  BY <1>24 DEF GcFrames, Drop
<1>25. CASE GcClaim
  BY <1>25 DEF GcClaim, Keep
<1>26. CASE GcRecheck
  BY <1>26, SMTT(40) DEF GcRecheck, Keep
<1>27. CASE GcZero
  BY <1>27 DEF GcZero
<1>28. CASE GcMove
  BY <1>28 DEF GcMove
<1>29. CASE GcRestore
  BY <1>29 DEF GcRestore, Drop
<1>30. CASE GcReturn
  BY <1>30 DEF GcReturn
<1>31. CASE GarbageWake
  BY <1>31 DEF GarbageWake
<1>32. CASE GarbageClear
  BY <1>32 DEF GarbageClear
<1>33. CASE UNCHANGED vars
  BY <1>33 DEF vars
<1> QED
  BY <1>1, <1>2, <1>3, <1>4, <1>5, <1>6, <1>7, <1>8, <1>9, <1>10, <1>11, <1>12,
     <1>13, <1>14, <1>15, <1>16, <1>17, <1>18, <1>19, <1>20, <1>21, <1>22,
     <1>23, <1>24, <1>25, <1>26, <1>27, <1>28, <1>29, <1>30, <1>31, <1>32, <1>33
     DEF Next, Control, VoiceCall, InPromise, InBlock, LoaderStep, InPass

-----------------------------------------------------------------------------
(* One loader streams a file, one chunk ahead of what it published.        *)
LEMMA StreamStep ==
  TypeOK /\ BusyInv /\ FramesInv /\ StreamInv /\ PassInv
    /\ [Next]_vars => StreamInv'
<1> SUFFICES ASSUME TypeOK, BusyInv, FramesInv, StreamInv, PassInv, [Next]_vars
             PROVE StreamInv'
  OBVIOUS
<1> USE FileAssumption, SizeAssumption DEF TypeOK, FramesInv, StreamInv,
   Streams, PassInv, Claimed, fileVars, holderVars, queueVars, loaderVars,
   passVars, binVars
<1>1. ASSUME NEW f \in File, PreloadFile(f) PROVE StreamInv'
  BY <1>1, SMTT(40) DEF PreloadFile, Unused
<1>2. ASSUME NEW f \in File, RemoveUnusedPreloadedData(f) PROVE StreamInv'
  BY <1>2, SMTT(40) DEF RemoveUnusedPreloadedData, Unused
<1>3. ASSUME NEW h \in Holder, NEW f \in File, QueueRequest(h, f)
      PROVE StreamInv'
  BY <1>3, SMTT(40) DEF QueueRequest
<1>4. ASSUME NEW h \in Holder, NEW f \in File, TakeLoadedPromise(h, f)
      PROVE StreamInv'
  BY <1>4, SMTT(40) DEF TakeLoadedPromise, Hold
<1>5. ASSUME NEW h \in Holder, GetDataStatus(h) PROVE StreamInv'
  BY <1>5, SMTT(40) DEF GetDataStatus, ReadPreloaded
<1>6. ASSUME NEW h \in Holder, ResetHolder(h) PROVE StreamInv'
  BY <1>6 DEF ResetHolder
<1>7. ASSUME NEW h \in Holder, PostDispatcher(h) PROVE StreamInv'
  BY <1>7 DEF PostDispatcher
<1>8. ASSUME NEW h \in Holder, TakeQueuedPromise(h) PROVE StreamInv'
  BY <1>8 DEF TakeQueuedPromise, Hold
<1>9. ASSUME NEW h \in Holder, GetDataFrames(h) PROVE StreamInv'
  BY <1>9, SMTT(40) DEF GetDataFrames, ReadPreloaded
<1>10. ASSUME NEW h \in Holder, GetDataSpan(h) PROVE StreamInv'
  BY <1>10, SMTT(40) DEF GetDataSpan
<1>11. ASSUME NEW h \in Holder, EndBlock(h) PROVE StreamInv'
  BY <1>11 DEF EndBlock
<1>12. CASE Dispatch
  <2> HIDE DEF TypeOK, BusyInv, FramesInv, StreamInv, PassInv
  <2>1. UNCHANGED <<fileVars, lpc, lfile>>
    BY <1>12 DEF Dispatch
  <2> QED
    BY <2>1 DEF StreamInv, Streams, fileVars
<1>13. ASSUME NEW l \in Loader, StartJob(l) PROVE StreamInv'
  <2> HIDE DEF TypeOK, BusyInv, FramesInv, StreamInv, PassInv
  <2>1. \A m \in Loader, f \in File : Streams(m, f)' => Streams(m, f) /\ lpc'[m] = lpc[m]
    BY <1>13 DEF TypeOK, StartJob, Goto, Streams
  <2>2. UNCHANGED <<status, availableFrames, fileData>>
    BY <1>13 DEF StartJob, Goto, fileVars
  <2> QED
    BY <2>1, <2>2 DEF StreamInv, Streams
<1>14. ASSUME NEW l \in Loader, LoaderStatus(l) PROVE StreamInv'
  <2> HIDE DEF TypeOK, BusyInv, FramesInv, StreamInv, PassInv
  <2>1. \A m \in Loader, f \in File : Streams(m, f)' => Streams(m, f) /\ lpc'[m] = lpc[m]
    BY <1>14, ZenonT(60) DEF TypeOK, LoaderStatus, Goto, EndJob, Streams
  <2>2. UNCHANGED <<status, availableFrames, fileData>>
    BY <1>14 DEF LoaderStatus, Goto, EndJob, fileVars
  <2> QED
    BY <2>1, <2>2 DEF StreamInv, Streams
<1>15. ASSUME NEW l \in Loader, LoaderClaim(l) PROVE StreamInv'
  <2> HIDE DEF TypeOK, BusyInv, FramesInv, StreamInv, PassInv
  <2>1. CASE status[lfile[l]] # "Preloaded"
    <3>1. \A m \in Loader, f \in File : Streams(m, f)' => Streams(m, f) /\ lpc'[m] = lpc[m]
      BY <1>15, <2>1 DEF TypeOK, LoaderClaim, Goto, Streams
    <3>2. UNCHANGED <<status, availableFrames, fileData>>
      BY <1>15, <2>1 DEF LoaderClaim, Goto
    <3> QED
      BY <3>1, <3>2 DEF StreamInv, Streams
  <2>2. CASE status[lfile[l]] = "Preloaded"
    <3>1. lfile[l] \in File
      BY <1>15 DEF BusyInv, LoaderClaim, Goto
    <3>2. /\ status' = [status EXCEPT ![lfile[l]] = "Streaming"]
          /\ lpc' = [lpc EXCEPT ![l] = "prepare"]
          /\ UNCHANGED <<availableFrames, fileData, lfile>>
      BY <1>15, <2>2 DEF LoaderClaim, Goto
    <3>3. \A m \in Loader : ~Streams(m, lfile[l])
      BY <2>2, <3>1 DEF StreamInv
    <3>4. ASSUME NEW m \in Loader, NEW f \in File, Streams(m, f)'
          PROVE  \/ f = lfile[l] /\ m = l
                 \/ f # lfile[l] /\ m # l /\ Streams(m, f) /\ lpc'[m] = lpc[m]
      BY <3>2, <3>3, <3>4 DEF Streams, TypeOK
    <3>5. availableFrames[lfile[l]] = 0
      BY <2>2, <3>1 DEF FramesInv
    <3> QED
      BY <3>1, <3>2, <3>4, <3>5 DEF StreamInv, TypeOK
  <2> QED
    BY <2>1, <2>2
<1>16. ASSUME NEW l \in Loader, LoaderPrepare(l) PROVE StreamInv'
  BY <1>16 DEF LoaderPrepare, Goto
<1>17. ASSUME NEW l \in Loader, LoaderWrite(l) PROVE StreamInv'
  BY <1>17 DEF LoaderWrite, Goto
<1>18. ASSUME NEW l \in Loader, LoaderPublish(l) PROVE StreamInv'
  BY <1>18 DEF LoaderPublish, Goto
<1>19. ASSUME NEW l \in Loader, LoaderDone(l) PROVE StreamInv'
  BY <1>19 DEF LoaderDone, Goto
<1>20. ASSUME NEW l \in Loader, LoaderRegister(l) PROVE StreamInv'
  BY <1>20 DEF LoaderRegister, Goto, EndJob
<1>21. CASE GcTryLock
  BY <1>21 DEF GcTryLock
<1>22. ASSUME NEW f \in File, GcExamine(f) PROVE StreamInv'
  BY <1>22, SMTT(40) DEF GcExamine, Keep, Drop
<1>23. CASE GcStatus
  BY <1>23 DEF GcStatus
<1>24. CASE GcFrames
  BY <1>24 DEF GcFrames, Drop
<1>25. CASE GcClaim
  BY <1>25, SMTT(40) DEF GcClaim, Keep
<1>26. CASE GcRecheck
  BY <1>26, SMTT(40) DEF GcRecheck, Keep
<1>27. CASE GcZero
  BY <1>27 DEF GcZero
<1>28. CASE GcMove
  <2> HIDE DEF TypeOK, BusyInv, FramesInv, StreamInv, PassInv
  <2>1. status[gfile] = "GarbageCollecting"
    BY <1>28 DEF GcMove, PassInv, Claimed
  <2>2. \A m \in Loader, f \in File : Streams(m, f) => f # gfile
    BY <2>1 DEF StreamInv
  <2>3. UNCHANGED <<status, availableFrames, lpc, lfile>>
        /\ \A f \in File : f # gfile => fileData'[f] = fileData[f]
    BY <1>28 DEF GcMove, TypeOK, loaderVars
  <2> QED
    BY <2>2, <2>3 DEF StreamInv, Streams
<1>29. CASE GcRestore
  BY <1>29, SMTT(40) DEF GcRestore, Drop
<1>30. CASE GcReturn
  BY <1>30 DEF GcReturn
<1>31. CASE GarbageWake
  BY <1>31 DEF GarbageWake
<1>32. CASE GarbageClear
  BY <1>32 DEF GarbageClear
<1>33. CASE UNCHANGED vars
  BY <1>33 DEF vars
<1> QED
  BY <1>1, <1>2, <1>3, <1>4, <1>5, <1>6, <1>7, <1>8, <1>9, <1>10, <1>11, <1>12,
     <1>13, <1>14, <1>15, <1>16, <1>17, <1>18, <1>19, <1>20, <1>21, <1>22,
     <1>23, <1>24, <1>25, <1>26, <1>27, <1>28, <1>29, <1>30, <1>31, <1>32, <1>33
     DEF Next, Control, VoiceCall, InPromise, InBlock, LoaderStep, InPass

-----------------------------------------------------------------------------
(* The collection owns what it claimed and finds no reader in its way.     *)
LEMMA PassStep ==
  TypeOK /\ BusyInv /\ CountInv /\ FramesInv /\ StreamInv /\ PassInv
    /\ [Next]_vars => PassInv'
<1> SUFFICES ASSUME TypeOK, BusyInv, CountInv, FramesInv, StreamInv, PassInv, [Next]_vars
             PROVE PassInv'
  OBVIOUS
<1> USE FileAssumption, SizeAssumption, BoundAssumption DEF TypeOK, BusyInv,
   FramesInv, StreamInv, Streams, PassInv, Claimed, Viewers, PastRecheck,
   Counted, fileVars, holderVars, queueVars, loaderVars, passVars, binVars
<1>1. ASSUME NEW f \in File, PreloadFile(f) PROVE PassInv'
  BY <1>1 DEF PreloadFile, Unused
<1>2. ASSUME NEW f \in File, RemoveUnusedPreloadedData(f) PROVE PassInv'
  BY <1>2 DEF RemoveUnusedPreloadedData, Unused
<1>3. ASSUME NEW h \in Holder, NEW f \in File, QueueRequest(h, f) PROVE PassInv'
  BY <1>3 DEF QueueRequest
<1>4. ASSUME NEW h \in Holder, NEW f \in File, TakeLoadedPromise(h, f)
      PROVE PassInv'
  BY <1>4 DEF TakeLoadedPromise, Hold
<1>5. ASSUME NEW h \in Holder, GetDataStatus(h) PROVE PassInv'
  <2> HIDE DEF TypeOK, BusyInv, FramesInv, StreamInv, PassInv
  <2>1. UNCHANGED <<gpc, gfile, gseen, status, availableFrames, fileData, garbageToCollect, hfile>>
    BY <1>5 DEF GetDataStatus, ReadPreloaded, fileVars, passVars, binVars
  <2>2. ASSUME gpc \in PastRecheck, NEW k \in Viewers(gfile)'
        PROVE  hpc'[k] = "held" \/ (hpc'[k] = "reading" /\ hspan'[k] = 0)
    <3>1. CASE k # h
      <4>1. k \in Viewers(gfile) /\ hpc'[k] = hpc[k] /\ hspan'[k] = hspan[k]
        BY <1>5, <2>1, <2>2, <3>1 DEF GetDataStatus, ReadPreloaded, Viewers,
           TypeOK
      <4> QED
        BY <2>2, <4>1 DEF PassInv
    <3>2. CASE k = h
      <4>1. h \in Viewers(gfile) /\ status[hfile[h]] = "GarbageCollecting"
        BY <1>5, <2>1, <2>2, <3>2 DEF GetDataStatus, ReadPreloaded, Viewers,
           Counted, PassInv, Claimed, PastRecheck
      <4>2. hpc[h] = "held"
        BY <1>5, <2>2, <4>1 DEF GetDataStatus, ReadPreloaded, PassInv
      <4> QED
        BY <1>5, <3>2, <4>1, <4>2 DEF GetDataStatus, ReadPreloaded, TypeOK
    <3> QED
      BY <3>1, <3>2
  <2> QED
    BY <2>1, <2>2 DEF PassInv, Claimed, PastRecheck
<1>6. ASSUME NEW h \in Holder, ResetHolder(h) PROVE PassInv'
  BY <1>6 DEF ResetHolder
<1>7. ASSUME NEW h \in Holder, PostDispatcher(h) PROVE PassInv'
  BY <1>7 DEF PostDispatcher
<1>8. ASSUME NEW h \in Holder, TakeQueuedPromise(h) PROVE PassInv'
  BY <1>8 DEF TakeQueuedPromise, Hold
<1>9. ASSUME NEW h \in Holder, GetDataFrames(h) PROVE PassInv'
  <2> HIDE DEF TypeOK, BusyInv, FramesInv, StreamInv, PassInv
  <2>1. UNCHANGED <<gpc, gfile, gseen, status, availableFrames, fileData, garbageToCollect, hfile>>
    BY <1>9 DEF GetDataFrames, ReadPreloaded, fileVars, passVars, binVars
  <2>2. ASSUME gpc \in PastRecheck, NEW k \in Viewers(gfile)'
        PROVE  hpc'[k] = "held" \/ (hpc'[k] = "reading" /\ hspan'[k] = 0)
    <3>1. CASE k # h
      <4>1. k \in Viewers(gfile) /\ hpc'[k] = hpc[k] /\ hspan'[k] = hspan[k]
        BY <1>9, <2>1, <2>2, <3>1 DEF GetDataFrames, ReadPreloaded, Viewers,
           TypeOK
      <4> QED
        BY <2>2, <4>1 DEF PassInv
    <3>2. CASE k = h
      <4>1. h \in Viewers(gfile) /\ status[hfile[h]] = "GarbageCollecting"
        BY <1>9, <2>1, <2>2, <3>2 DEF GetDataFrames, ReadPreloaded, Viewers,
           Counted, PassInv, Claimed, PastRecheck
      <4>2. hpc[h] = "held"
        BY <1>9, <2>2, <4>1 DEF GetDataFrames, ReadPreloaded, PassInv
      <4> QED
        BY <1>9, <3>2, <4>1, <4>2 DEF GetDataFrames, ReadPreloaded, TypeOK
    <3> QED
      BY <3>1, <3>2
  <2> QED
    BY <2>1, <2>2 DEF PassInv, Claimed, PastRecheck
<1>10. ASSUME NEW h \in Holder, GetDataSpan(h) PROVE PassInv'
  BY <1>10 DEF GetDataSpan
<1>11. ASSUME NEW h \in Holder, EndBlock(h) PROVE PassInv'
  BY <1>11 DEF EndBlock
<1>12. CASE Dispatch
  BY <1>12 DEF Dispatch
<1>13. ASSUME NEW l \in Loader, StartJob(l) PROVE PassInv'
  BY <1>13 DEF StartJob, Goto
<1>14. ASSUME NEW l \in Loader, LoaderStatus(l) PROVE PassInv'
  BY <1>14 DEF LoaderStatus, Goto, EndJob
<1>15. ASSUME NEW l \in Loader, LoaderClaim(l) PROVE PassInv'
  BY <1>15 DEF LoaderClaim, Goto
<1>16. ASSUME NEW l \in Loader, LoaderPrepare(l) PROVE PassInv'
  BY <1>16 DEF LoaderPrepare, Goto
<1>17. ASSUME NEW l \in Loader, LoaderWrite(l) PROVE PassInv'
  BY <1>17 DEF LoaderWrite, Goto
<1>18. ASSUME NEW l \in Loader, LoaderPublish(l) PROVE PassInv'
  BY <1>18 DEF LoaderPublish, Goto
<1>19. ASSUME NEW l \in Loader, LoaderDone(l) PROVE PassInv'
  BY <1>19 DEF LoaderDone, Goto
<1>20. ASSUME NEW l \in Loader, LoaderRegister(l) PROVE PassInv'
  BY <1>20 DEF LoaderRegister, Goto, EndJob
<1>21. CASE GcTryLock
  BY <1>21 DEF GcTryLock
<1>22. ASSUME NEW f \in File, GcExamine(f) PROVE PassInv'
  BY <1>22 DEF GcExamine, Keep, Drop
<1>23. CASE GcStatus
  BY <1>23 DEF GcStatus
<1>24. CASE GcFrames
  <2> HIDE DEF TypeOK, BusyInv, FramesInv, StreamInv, PassInv
  <2>1. CASE availableFrames[gfile] = 0
    BY <1>24, <2>1 DEF TypeOK, BusyInv, PassInv, Claimed, PastRecheck, GcFrames,
       Drop, fileVars, holderVars, queueVars, loaderVars, passVars, binVars
  <2>2. CASE availableFrames[gfile] # 0
    BY <1>24, <2>2 DEF TypeOK, BusyInv, PassInv, Claimed, PastRecheck, GcFrames,
       Drop, fileVars, holderVars, queueVars, loaderVars, passVars, binVars
  <2> QED
    BY <1>24, <2>1, <2>2 DEF GcFrames, Drop
<1>25. CASE GcClaim
  <2> HIDE DEF TypeOK, BusyInv, FramesInv, StreamInv, PassInv
  <2>1. CASE status[gfile] = gseen
    BY <1>25, <2>1 DEF TypeOK, BusyInv, FramesInv, PassInv, Claimed,
       PastRecheck, GcClaim, Keep, fileVars, holderVars, queueVars, loaderVars,
       passVars, binVars
  <2>2. CASE status[gfile] # gseen
    BY <1>25, <2>2 DEF TypeOK, BusyInv, FramesInv, PassInv, Claimed,
       PastRecheck, GcClaim, Keep, fileVars, holderVars, queueVars, loaderVars,
       passVars, binVars
  <2> QED
    BY <1>25, <2>1, <2>2 DEF GcClaim, Keep
<1>26. CASE GcRecheck
  <2> HIDE DEF TypeOK, BusyInv, FramesInv, StreamInv, PassInv
  <2>1. CASE readerCount[gfile] # 0
    BY <1>26, <2>1 DEF PassInv, GcRecheck, Keep, TypeOK, Claimed, PastRecheck,
       fileVars, holderVars, queueVars, loaderVars, passVars, binVars
  <2>2. CASE readerCount[gfile] = 0
    <3>1. gfile \in File /\ IsFiniteSet(Viewers(gfile))
      BY <1>26, HolderAssumption, FS_Subset DEF BusyInv, TypeOK, GcRecheck,
         Viewers
    <3>2. Viewers(gfile) = {}
      BY <2>2, <3>1, FS_EmptySet DEF CountInv
    <3>3. gpc' = "zero" /\ UNCHANGED <<status, gfile, gseen, hpc, hfile, hspan, garbageToCollect>>
      BY <1>26, <2>2 DEF GcRecheck, holderVars
    <3>4. Viewers(gfile)' = {}
      BY <3>2, <3>3 DEF Viewers
    <3> QED
      BY <1>26, <3>3, <3>4 DEF PassInv, GcRecheck, Claimed, PastRecheck
  <2> QED
    BY <2>1, <2>2 DEF TypeOK
<1>27. CASE GcZero
  BY <1>27 DEF GcZero
<1>28. CASE GcMove
  BY <1>28 DEF GcMove
<1>29. CASE GcRestore
  BY <1>29 DEF GcRestore, Drop
<1>30. CASE GcReturn
  BY <1>30 DEF GcReturn
<1>31. CASE GarbageWake
  BY <1>31 DEF GarbageWake
<1>32. CASE GarbageClear
  BY <1>32 DEF GarbageClear
<1>33. CASE UNCHANGED vars
  BY <1>33 DEF vars
<1> QED
  BY <1>1, <1>2, <1>3, <1>4, <1>5, <1>6, <1>7, <1>8, <1>9, <1>10, <1>11, <1>12,
     <1>13, <1>14, <1>15, <1>16, <1>17, <1>18, <1>19, <1>20, <1>21, <1>22,
     <1>23, <1>24, <1>25, <1>26, <1>27, <1>28, <1>29, <1>30, <1>31, <1>32, <1>33
     DEF Next, Control, VoiceCall, InPromise, InBlock, LoaderStep, InPass

-----------------------------------------------------------------------------
(* What a voice saw of a file stays published.                             *)
LEMMA SpanStep ==
  TypeOK /\ BusyInv /\ FramesInv /\ StreamInv /\ PassInv /\ SpanInv
    /\ [Next]_vars => SpanInv'
<1> SUFFICES ASSUME TypeOK, BusyInv, FramesInv, StreamInv, PassInv, SpanInv, [Next]_vars
             PROVE SpanInv'
  OBVIOUS
<1> USE FileAssumption, SizeAssumption DEF TypeOK, BusyInv, FramesInv,
   StreamInv, Streams, PassInv, Claimed, Viewers, PastRecheck, Counted, SpanInv,
   fileVars, holderVars, queueVars, loaderVars, passVars, binVars
<1>1. ASSUME NEW f \in File, PreloadFile(f) PROVE SpanInv'
  BY <1>1 DEF PreloadFile, Unused
<1>2. ASSUME NEW f \in File, RemoveUnusedPreloadedData(f) PROVE SpanInv'
  BY <1>2, ZenonT(60) DEF RemoveUnusedPreloadedData, Unused
<1>3. ASSUME NEW h \in Holder, NEW f \in File, QueueRequest(h, f) PROVE SpanInv'
  BY <1>3, SMTT(40) DEF QueueRequest
<1>4. ASSUME NEW h \in Holder, NEW f \in File, TakeLoadedPromise(h, f)
      PROVE SpanInv'
  BY <1>4 DEF TakeLoadedPromise, Hold
<1>5. ASSUME NEW h \in Holder, GetDataStatus(h) PROVE SpanInv'
  BY <1>5 DEF GetDataStatus, ReadPreloaded
<1>6. ASSUME NEW h \in Holder, ResetHolder(h) PROVE SpanInv'
  BY <1>6 DEF ResetHolder
<1>7. ASSUME NEW h \in Holder, PostDispatcher(h) PROVE SpanInv'
  BY <1>7 DEF PostDispatcher
<1>8. ASSUME NEW h \in Holder, TakeQueuedPromise(h) PROVE SpanInv'
  BY <1>8 DEF TakeQueuedPromise, Hold
<1>9. ASSUME NEW h \in Holder, GetDataFrames(h) PROVE SpanInv'
  BY <1>9, SMTT(40) DEF GetDataFrames, ReadPreloaded
<1>10. ASSUME NEW h \in Holder, GetDataSpan(h) PROVE SpanInv'
  <2> HIDE DEF TypeOK, BusyInv, FramesInv, StreamInv, PassInv
  <2>1. hfile[h] \in File /\ UNCHANGED <<hfile, availableFrames>>
    BY <1>10 DEF BusyInv, GetDataSpan, fileVars
  <2>2. /\ hpc' = [hpc EXCEPT ![h] = "reading"]
        /\ hspan' = [hspan EXCEPT ![h] = availableFrames[hfile[h]]]
    BY <1>10 DEF GetDataSpan
  <2> QED
    BY <2>1, <2>2, SMTT(40) DEF SpanInv, TypeOK
<1>11. ASSUME NEW h \in Holder, EndBlock(h) PROVE SpanInv'
  BY <1>11 DEF EndBlock
<1>12. CASE Dispatch
  BY <1>12 DEF Dispatch
<1>13. ASSUME NEW l \in Loader, StartJob(l) PROVE SpanInv'
  BY <1>13 DEF StartJob, Goto
<1>14. ASSUME NEW l \in Loader, LoaderStatus(l) PROVE SpanInv'
  BY <1>14 DEF LoaderStatus, Goto, EndJob
<1>15. ASSUME NEW l \in Loader, LoaderClaim(l) PROVE SpanInv'
  BY <1>15 DEF LoaderClaim, Goto
<1>16. ASSUME NEW l \in Loader, LoaderPrepare(l) PROVE SpanInv'
  BY <1>16 DEF LoaderPrepare, Goto
<1>17. ASSUME NEW l \in Loader, LoaderWrite(l) PROVE SpanInv'
  BY <1>17 DEF LoaderWrite, Goto
<1>18. ASSUME NEW l \in Loader, LoaderPublish(l) PROVE SpanInv'
  BY <1>18, SMTT(40) DEF LoaderPublish, Goto
<1>19. ASSUME NEW l \in Loader, LoaderDone(l) PROVE SpanInv'
  BY <1>19 DEF LoaderDone, Goto
<1>20. ASSUME NEW l \in Loader, LoaderRegister(l) PROVE SpanInv'
  BY <1>20 DEF LoaderRegister, Goto, EndJob
<1>21. CASE GcTryLock
  BY <1>21 DEF GcTryLock
<1>22. ASSUME NEW f \in File, GcExamine(f) PROVE SpanInv'
  BY <1>22 DEF GcExamine, Keep, Drop
<1>23. CASE GcStatus
  BY <1>23 DEF GcStatus
<1>24. CASE GcFrames
  BY <1>24 DEF GcFrames, Drop
<1>25. CASE GcClaim
  BY <1>25 DEF GcClaim, Keep
<1>26. CASE GcRecheck
  BY <1>26 DEF GcRecheck, Keep
<1>27. CASE GcZero
  BY <1>27 DEF GcZero
<1>28. CASE GcMove
  BY <1>28 DEF GcMove
<1>29. CASE GcRestore
  BY <1>29 DEF GcRestore, Drop
<1>30. CASE GcReturn
  BY <1>30 DEF GcReturn
<1>31. CASE GarbageWake
  BY <1>31 DEF GarbageWake
<1>32. CASE GarbageClear
  BY <1>32 DEF GarbageClear
<1>33. CASE UNCHANGED vars
  BY <1>33 DEF vars
<1> QED
  BY <1>1, <1>2, <1>3, <1>4, <1>5, <1>6, <1>7, <1>8, <1>9, <1>10, <1>11, <1>12,
     <1>13, <1>14, <1>15, <1>16, <1>17, <1>18, <1>19, <1>20, <1>21, <1>22,
     <1>23, <1>24, <1>25, <1>26, <1>27, <1>28, <1>29, <1>30, <1>31, <1>32, <1>33
     DEF Next, Control, VoiceCall, InPromise, InBlock, LoaderStep, InPass

-----------------------------------------------------------------------------
(* A streamed buffer stays registered or about to be.                      *)
LEMMA RegisterStep ==
  TypeOK /\ BusyInv /\ FramesInv /\ StreamInv /\ PassInv /\ RegisterInv
    /\ [Next]_vars => RegisterInv'
<1> SUFFICES ASSUME TypeOK, BusyInv, FramesInv, StreamInv, PassInv, RegisterInv, [Next]_vars
             PROVE RegisterInv'
  OBVIOUS
<1> USE FileAssumption DEF TypeOK, BusyInv, FramesInv, StreamInv, Streams,
   Fills, PassInv, Claimed, RegisterInv, MutexFree, fileVars, holderVars,
   queueVars, loaderVars, passVars, binVars
<1>1. ASSUME NEW f \in File, PreloadFile(f) PROVE RegisterInv'
  BY <1>1 DEF PreloadFile, Unused
<1>2. ASSUME NEW f \in File, RemoveUnusedPreloadedData(f) PROVE RegisterInv'
  BY <1>2 DEF RemoveUnusedPreloadedData, Unused
<1>3. ASSUME NEW h \in Holder, NEW f \in File, QueueRequest(h, f)
      PROVE RegisterInv'
  BY <1>3 DEF QueueRequest
<1>4. ASSUME NEW h \in Holder, NEW f \in File, TakeLoadedPromise(h, f)
      PROVE RegisterInv'
  BY <1>4 DEF TakeLoadedPromise, Hold
<1>5. ASSUME NEW h \in Holder, GetDataStatus(h) PROVE RegisterInv'
  BY <1>5 DEF GetDataStatus, ReadPreloaded
<1>6. ASSUME NEW h \in Holder, ResetHolder(h) PROVE RegisterInv'
  BY <1>6 DEF ResetHolder
<1>7. ASSUME NEW h \in Holder, PostDispatcher(h) PROVE RegisterInv'
  BY <1>7 DEF PostDispatcher
<1>8. ASSUME NEW h \in Holder, TakeQueuedPromise(h) PROVE RegisterInv'
  BY <1>8 DEF TakeQueuedPromise, Hold
<1>9. ASSUME NEW h \in Holder, GetDataFrames(h) PROVE RegisterInv'
  BY <1>9 DEF GetDataFrames, ReadPreloaded
<1>10. ASSUME NEW h \in Holder, GetDataSpan(h) PROVE RegisterInv'
  BY <1>10 DEF GetDataSpan
<1>11. ASSUME NEW h \in Holder, EndBlock(h) PROVE RegisterInv'
  BY <1>11 DEF EndBlock
<1>12. CASE Dispatch
  BY <1>12 DEF Dispatch
<1>13. ASSUME NEW l \in Loader, StartJob(l) PROVE RegisterInv'
  <2> HIDE DEF TypeOK, BusyInv, FramesInv, StreamInv, PassInv
  <2>1. \A m \in Loader, f \in File : Fills(m, f) => Fills(m, f)'
    BY <1>13, SMTT(40) DEF TypeOK, StartJob, Goto, Fills
  <2>2. UNCHANGED <<fileData, lastUsedFiles, gpc, gfile>>
    BY <1>13 DEF StartJob, Goto, fileVars, holderVars, queueVars, loaderVars,
       passVars, binVars
  <2>3. gpc = "frames" => gfile \in File
    BY DEF BusyInv, TypeOK
  <2> QED
    BY <2>1, <2>2, <2>3 DEF RegisterInv
<1>14. ASSUME NEW l \in Loader, LoaderStatus(l) PROVE RegisterInv'
  <2> HIDE DEF TypeOK, BusyInv, FramesInv, StreamInv, PassInv
  <2>1. \A m \in Loader, f \in File : Fills(m, f) => Fills(m, f)'
    BY <1>14 DEF TypeOK, LoaderStatus, Goto, EndJob, Fills
  <2>2. UNCHANGED <<fileData, lastUsedFiles, gpc, gfile>>
    BY <1>14 DEF LoaderStatus, Goto, EndJob, fileVars, holderVars, queueVars,
       loaderVars, passVars, binVars
  <2>3. gpc = "frames" => gfile \in File
    BY DEF BusyInv, TypeOK
  <2> QED
    BY <2>1, <2>2, <2>3 DEF RegisterInv
<1>15. ASSUME NEW l \in Loader, LoaderClaim(l) PROVE RegisterInv'
  <2> HIDE DEF TypeOK, BusyInv, FramesInv, StreamInv, PassInv
  <2>1. \A m \in Loader, f \in File : Fills(m, f) => Fills(m, f)'
    BY <1>15 DEF TypeOK, LoaderClaim, Goto, Fills
  <2>2. UNCHANGED <<fileData, lastUsedFiles, gpc, gfile>>
    BY <1>15 DEF LoaderClaim, Goto, fileVars, holderVars, queueVars, loaderVars,
       passVars, binVars
  <2>3. gpc = "frames" => gfile \in File
    BY DEF BusyInv, TypeOK
  <2> QED
    BY <2>1, <2>2, <2>3 DEF RegisterInv
<1>16. ASSUME NEW l \in Loader, LoaderPrepare(l) PROVE RegisterInv'
  BY <1>16 DEF LoaderPrepare, Goto
<1>17. ASSUME NEW l \in Loader, LoaderWrite(l) PROVE RegisterInv'
  BY <1>17 DEF LoaderWrite, Goto
<1>18. ASSUME NEW l \in Loader, LoaderPublish(l) PROVE RegisterInv'
  BY <1>18 DEF LoaderPublish, Goto
<1>19. ASSUME NEW l \in Loader, LoaderDone(l) PROVE RegisterInv'
  BY <1>19 DEF LoaderDone, Goto
<1>20. ASSUME NEW l \in Loader, LoaderRegister(l) PROVE RegisterInv'
  BY <1>20 DEF LoaderRegister, Goto, EndJob
<1>21. CASE GcTryLock
  BY <1>21 DEF GcTryLock
<1>22. ASSUME NEW f \in File, GcExamine(f) PROVE RegisterInv'
  <2> HIDE DEF TypeOK, BusyInv, FramesInv, StreamInv, PassInv
  <2>1. fileData[f] = -1 \/ f \in lastUsedFiles' \/ f \notin lastUsedFiles
    BY <1>22 DEF FramesInv, TypeOK, GcExamine, Keep, Drop
  <2>2. \A g \in File \ {f} : g \in lastUsedFiles => g \in lastUsedFiles'
    BY <1>22 DEF GcExamine, Keep, Drop
  <2>3. UNCHANGED <<fileData, lpc, lfile>> /\ gpc' # "frames"
    BY <1>22 DEF GcExamine, Keep, Drop, fileVars, loaderVars
  <2> QED
    BY <2>1, <2>2, <2>3 DEF RegisterInv, Fills
<1>23. CASE GcStatus
  BY <1>23 DEF GcStatus
<1>24. CASE GcFrames
  BY <1>24 DEF GcFrames, Drop
<1>25. CASE GcClaim
  BY <1>25 DEF GcClaim, Keep
<1>26. CASE GcRecheck
  BY <1>26 DEF GcRecheck, Keep
<1>27. CASE GcZero
  BY <1>27 DEF GcZero
<1>28. CASE GcMove
  BY <1>28 DEF GcMove
<1>29. CASE GcRestore
  BY <1>29 DEF GcRestore, Drop
<1>30. CASE GcReturn
  BY <1>30 DEF GcReturn
<1>31. CASE GarbageWake
  BY <1>31 DEF GarbageWake
<1>32. CASE GarbageClear
  BY <1>32 DEF GarbageClear
<1>33. CASE UNCHANGED vars
  BY <1>33 DEF vars
<1> QED
  BY <1>1, <1>2, <1>3, <1>4, <1>5, <1>6, <1>7, <1>8, <1>9, <1>10, <1>11, <1>12,
     <1>13, <1>14, <1>15, <1>16, <1>17, <1>18, <1>19, <1>20, <1>21, <1>22,
     <1>23, <1>24, <1>25, <1>26, <1>27, <1>28, <1>29, <1>30, <1>31, <1>32, <1>33
     DEF Next, Control, VoiceCall, InPromise, InBlock, LoaderStep, InPass

-----------------------------------------------------------------------------
(* The initial states satisfy the inductive invariant.                     *)
LEMMA InitInv == Init => IInv
<1> SUFFICES ASSUME Init PROVE IInv
  OBVIOUS
<1>1. TypeOK
  <2>1. /\ status \in [File -> Status] /\ fileData \in [File -> Int]
        /\ availableFrames \in [File -> Nat] /\ readerCount \in [File -> Int]
    BY DEF Init, Status
  <2>2. /\ hpc \in [Holder -> HolderPc] /\ hspan \in [Holder -> Nat]
        /\ hfile \in [Holder -> File \cup {NoFile}]
    BY DEF Init, HolderPc
  <2>3. /\ lpc \in [Loader -> LoaderPc]
        /\ lfile \in [Loader -> File \cup {NoFile}]
    BY DEF Init, LoaderPc
  <2>4. filesToLoad \in Seq(File) /\ jobs \in Seq(File)
    BY DEF Init
  <2>5. /\ gpc \in PassPc /\ gseen \in Status
        /\ gfile \in File \cup {NoFile} /\ gtodo \subseteq File
    BY DEF Init, PassPc, Status
  <2> QED
    BY <2>1, <2>2, <2>3, <2>4, <2>5 DEF Init, TypeOK
<1>2. BusyInv /\ FramesInv /\ StreamInv /\ SpanInv /\ RegisterInv
  BY DEF Init, BusyInv, FramesInv, StreamInv, Streams, SpanInv, RegisterInv
<1>3. PassInv
  BY BoundAssumption DEF Init, PassInv, Claimed, PastRecheck
<1>4. \A f \in File : Viewers(f) = {}
  BY DEF Init, Viewers, Counted
<1>5. CountInv
  BY <1>4, FS_EmptySet DEF Init, CountInv
<1> QED
  BY <1>1, <1>2, <1>3, <1>5 DEF IInv

(* IInv is an invariant of every behaviour.                                *)
THEOREM Invariance == Spec => []IInv
<1>1. IInv /\ [Next]_vars => IInv'
  BY TypeStep, BusyStep, CountStep, FramesStep, StreamStep, PassStep, SpanStep,
     RegisterStep DEF IInv
<1> QED
  BY <1>1, InitInv, PTL DEF Spec

-----------------------------------------------------------------------------
(* Every variable keeps its type.                                          *)
THEOREM TypeCorrect == Spec => []TypeOK
<1>1. IInv => TypeOK
  BY DEF IInv
<1> QED
  BY <1>1, Invariance, PTL

(* No voice ever renders from a span of a streamed buffer that is not      *)
(* written, or that the collector or another loader took away.             *)
THEOREM SpansAreBacked == Spec => []SpanBacked
<1>1. IInv => SpanBacked
  <2> SUFFICES ASSUME IInv, NEW h \in Holder, hpc[h] = "reading", hspan[h] > 0
               PROVE  hspan[h] <= fileData[hfile[h]]
    BY DEF SpanBacked
  <2>1. hfile[h] \in File
    BY DEF IInv, BusyInv
  <2>2. hspan[h] <= availableFrames[hfile[h]]
    BY DEF IInv, SpanInv
  <2>3. \/ availableFrames[hfile[h]] = 0
        \/ availableFrames[hfile[h]] <= fileData[hfile[h]]
    BY <2>1 DEF IInv, FramesInv
  <2> QED
    BY <2>1, <2>2, <2>3 DEF IInv, TypeOK
<1> QED
  BY <1>1, Invariance, PTL

(* Two loaders never stream into one buffer.                               *)
THEOREM StreamsAreExclusive == Spec => []ExclusiveStream
<1>1. IInv => ExclusiveStream
  BY DEF IInv, StreamInv, ExclusiveStream
<1> QED
  BY <1>1, Invariance, PTL

(* The collector never loses track of a streamed buffer.                   *)
THEOREM BuffersAreTracked == Spec => []NoBufferLeak
<1>1. IInv => NoBufferLeak
  BY DEF IInv, RegisterInv, NoBufferLeak, Fills
<1> QED
  BY <1>1, Invariance, PTL

(* The garbage list never outgrows its reserved memory.                    *)
THEOREM GarbageIsBounded == Spec => []GarbageWithinCapacity
<1>1. IInv => GarbageWithinCapacity
  BY DEF IInv, PassInv, GarbageWithinCapacity
<1> QED
  BY <1>1, Invariance, PTL

-----------------------------------------------------------------------------
(* What serialised calls of the host give beyond IInv: no voice is inside  *)
(* a call while the collection runs, the file it looks at has no viewer,   *)
(* and what a voice has seen of its file stays more than the preloaded     *)
(* part and is still there.                                                *)
Calm == gpc # "idle" => \A h \in Holder : hpc[h] \in {"free", "held"}
Unviewed == gpc \notin {"idle", "scan"} => Viewers(gfile) = {}
SeenFrames(h) ==
  /\ hpc[h] \notin Counted => hspan[h] = 0
  /\ hspan[h] > 0 => /\ hspan[h] <= availableFrames[hfile[h]]
                     /\ Preload[hfile[h]] < hspan[h]
  /\ hpc[h] = "sawFrames" => Preload[hfile[h]] < availableFrames[hfile[h]]
HostInv == Calm /\ Unviewed /\ \A h \in Holder : SeenFrames(h)

(* Steps of threads that neither voices nor the collection's file concern. *)
LEMMA HostKept ==
  ASSUME HostInv, UNCHANGED <<hpc, hfile, hspan, availableFrames, gfile>>,
         gpc' = "idle" => gpc \in {"idle", "scan"},
         gpc' = "scan" => gpc # "idle",
         gpc' \notin {"idle", "scan"} => gpc \notin {"idle", "scan"}
  PROVE  HostInv'
<1>1. gpc' # "idle" => gpc # "idle"
  OBVIOUS
<1>2. Calm'
  BY <1>1 DEF HostInv, Calm
<1>3. Viewers(gfile)' = Viewers(gfile)
  BY DEF Viewers
<1>4. Unviewed'
  BY <1>3 DEF HostInv, Unviewed
<1>5. \A h \in Holder : SeenFrames(h)'
  BY DEF HostInv, SeenFrames
<1> QED BY <1>2, <1>4, <1>5 DEF HostInv

(* A step of a voice outside the collection touches what it has seen only. *)
LEMMA HostOfVoice ==
  ASSUME TypeOK, HostInv, NEW v \in Holder, gpc = "idle", SeenFrames(v)',
         UNCHANGED <<availableFrames, gpc>>,
         \A h \in Holder \ {v} : hpc'[h] = hpc[h] /\ hfile'[h] = hfile[h] /\ hspan'[h] = hspan[h]
  PROVE  HostInv'
<1>1. Calm' /\ Unviewed'
  BY DEF Calm, Unviewed
<1>2. ASSUME NEW h \in Holder, h # v PROVE SeenFrames(h)'
  BY <1>2 DEF HostInv, SeenFrames
<1> QED BY <1>1, <1>2 DEF HostInv

(* No voice is inside a call while the collection runs.                    *)
LEMMA CallsOutside ==
  ASSUME HostInv, NEW h \in Holder, hpc[h] \notin {"free", "held"}
  PROVE  gpc = "idle"
BY DEF HostInv, Calm

LEMMA HostStep ==
  ASSUME Serialized, IInv, HostInv, [Next]_vars
  PROVE  HostInv'
<1> USE DEF fileVars, holderVars, queueVars, loaderVars, passVars, binVars
<1>0. TypeOK /\ BusyInv
  BY DEF IInv
<1>1. ASSUME NEW f \in File, PreloadFile(f) PROVE HostInv'
  BY <1>1, HostKept DEF PreloadFile
<1>2. ASSUME NEW f \in File, RemoveUnusedPreloadedData(f) PROVE HostInv'
  <2>1. gpc = "idle" /\ UNCHANGED <<hpc, hfile, hspan, gpc>>
    BY <1>2 DEF RemoveUnusedPreloadedData, Unused
  <2>2. Calm' /\ Unviewed'
    BY <2>1 DEF Calm, Unviewed
  <2>3. ASSUME NEW h \in Holder PROVE SeenFrames(h)'
    <3>1. availableFrames'[hfile[h]] = availableFrames[hfile[h]] \/ hfile[h] \notin File
      BY <1>0, <1>2 DEF RemoveUnusedPreloadedData, Unused, TypeOK
    <3>2. hpc[h] # "free" => hfile[h] \in File
      BY <1>0 DEF BusyInv
    <3> QED BY <2>1, <3>1, <3>2 DEF HostInv, SeenFrames, Counted
  <2> QED BY <2>2, <2>3 DEF HostInv
<1>3. ASSUME NEW v \in Holder, NEW f \in File, QueueRequest(v, f) PROVE HostInv'
  <2>1. gpc = "idle" /\ hpc[v] = "free" /\ UNCHANGED <<hspan, availableFrames, gpc>>
    BY <1>3 DEF QueueRequest, MayEnter
  <2>2. hpc'[v] = "pushed"
    BY <1>0, <1>3 DEF QueueRequest, TypeOK
  <2>3. \A h \in Holder \ {v} : hpc'[h] = hpc[h] /\ hfile'[h] = hfile[h]
    BY <1>0, <1>3 DEF QueueRequest, TypeOK
  <2>4. SeenFrames(v)'
    BY <2>1, <2>2 DEF HostInv, SeenFrames, Counted
  <2> QED BY <1>0, <2>1, <2>3, <2>4, HostOfVoice
<1>4. ASSUME NEW v \in Holder, NEW f \in File, Hold(v, f), gpc = "idle" PROVE HostInv'
  <2>1. UNCHANGED <<availableFrames, gpc>>
    BY <1>4 DEF Hold
  <2>2. hpc'[v] = "held" /\ hspan'[v] = 0
    BY <1>0, <1>4 DEF Hold, TypeOK
  <2>3. \A h \in Holder \ {v} : hpc'[h] = hpc[h] /\ hfile'[h] = hfile[h] /\ hspan'[h] = hspan[h]
    BY <1>0, <1>4 DEF Hold, TypeOK
  <2>4. SeenFrames(v)'
    BY <2>2 DEF SeenFrames
  <2> QED BY <1>0, <1>4, <2>1, <2>3, <2>4, HostOfVoice
<1>5. ASSUME NEW v \in Holder, NEW f \in File, TakeLoadedPromise(v, f) PROVE HostInv'
  BY <1>4, <1>5 DEF TakeLoadedPromise, MayEnter
<1>6. ASSUME NEW v \in Holder, TakeQueuedPromise(v) PROVE HostInv'
  <2>1. hfile[v] \in File /\ gpc = "idle"
    BY <1>0, <1>6, CallsOutside DEF TakeQueuedPromise, BusyInv
  <2> QED BY <1>4, <1>6, <2>1 DEF TakeQueuedPromise
<1>7. ASSUME NEW v \in Holder, GetDataStatus(v) PROVE HostInv'
  <2>1. gpc = "idle" /\ UNCHANGED <<hfile, availableFrames, status, gpc>>
    BY <1>7 DEF GetDataStatus, MayEnter
  <2>2. hfile[v] \in File
    BY <1>0, <1>7 DEF GetDataStatus, BusyInv
  <2>3. status[hfile[v]] # "GarbageCollecting"
    BY <2>1, <2>2 DEF IInv, FramesInv, Claimed
  <2>4. hpc[v] = "held" /\ hpc' = [hpc EXCEPT ![v] = "sawStatus"] /\ UNCHANGED hspan
    BY <1>7, <2>3 DEF GetDataStatus
  <2>5. hpc'[v] = "sawStatus" /\ \A h \in Holder \ {v} : hpc'[h] = hpc[h]
    BY <1>0, <2>4 DEF TypeOK
  <2>6. SeenFrames(v)'
    BY <2>1, <2>4, <2>5 DEF HostInv, SeenFrames, Counted
  <2> QED BY <1>0, <2>1, <2>4, <2>5, <2>6, HostOfVoice
<1>8. ASSUME NEW v \in Holder, PostDispatcher(v) PROVE HostInv'
  <2>1. hpc[v] = "pushed" /\ UNCHANGED <<hfile, hspan, availableFrames, gpc>>
    BY <1>8 DEF PostDispatcher
  <2>2. hpc'[v] = "posted" /\ \A h \in Holder \ {v} : hpc'[h] = hpc[h]
    BY <1>0, <1>8 DEF PostDispatcher, TypeOK
  <2>3. gpc = "idle"
    BY <2>1, CallsOutside
  <2>4. SeenFrames(v)'
    BY <2>1, <2>2 DEF HostInv, SeenFrames, Counted
  <2> QED BY <1>0, <2>1, <2>2, <2>3, <2>4, HostOfVoice
<1>9. ASSUME NEW v \in Holder, GetDataFrames(v) PROVE HostInv'
  <2>1. /\ hpc[v] = "sawStatus" /\ UNCHANGED <<hfile, availableFrames, gpc>>
        /\ gpc = "idle" /\ hfile[v] \in File
    BY <1>0, <1>9, CallsOutside DEF GetDataFrames, BusyInv
  <2>2. \/ hpc' = [hpc EXCEPT ![v] = "reading"] /\ hspan' = [hspan EXCEPT ![v] = 0]
        \/ /\ availableFrames[hfile[v]] > Preload[hfile[v]]
           /\ hpc' = [hpc EXCEPT ![v] = "sawFrames"] /\ hspan' = hspan
    BY <1>9 DEF GetDataFrames, ReadPreloaded
  <2>3. \/ hpc'[v] = "reading" /\ hspan'[v] = 0
        \/ /\ availableFrames[hfile[v]] > Preload[hfile[v]]
           /\ hpc'[v] = "sawFrames" /\ hspan'[v] = hspan[v]
    BY <1>0, <2>2 DEF TypeOK
  <2>4. \A h \in Holder \ {v} : hpc'[h] = hpc[h] /\ hspan'[h] = hspan[h]
    BY <1>0, <2>2 DEF TypeOK
  <2>5. SeenFrames(v)'
    BY <1>0, <2>1, <2>3, SizeAssumption DEF HostInv, SeenFrames, Counted, TypeOK
  <2> QED BY <1>0, <2>1, <2>4, <2>5, HostOfVoice
<1>10. ASSUME NEW v \in Holder, GetDataSpan(v) PROVE HostInv'
  <2>1. /\ hpc[v] = "sawFrames" /\ UNCHANGED <<hfile, availableFrames, gpc>>
        /\ gpc = "idle" /\ hfile[v] \in File
    BY <1>0, <1>10, CallsOutside DEF GetDataSpan, BusyInv
  <2>2. /\ hpc'[v] = "reading" /\ hspan'[v] = availableFrames[hfile[v]]
        /\ \A h \in Holder \ {v} : hpc'[h] = hpc[h] /\ hspan'[h] = hspan[h]
    BY <1>0, <1>10 DEF GetDataSpan, TypeOK
  <2>3. Preload[hfile[v]] < availableFrames[hfile[v]]
    BY <2>1 DEF HostInv, SeenFrames
  <2>4. SeenFrames(v)'
    BY <1>0, <2>1, <2>2, <2>3, SizeAssumption DEF SeenFrames, Counted, TypeOK
  <2> QED BY <1>0, <2>1, <2>2, <2>4, HostOfVoice
<1>11. ASSUME NEW v \in Holder, EndBlock(v) PROVE HostInv'
  <2>1. hpc[v] = "reading" /\ UNCHANGED <<hfile, hspan, availableFrames, gpc>>
    BY <1>11 DEF EndBlock
  <2>2. hpc'[v] = "held" /\ \A h \in Holder \ {v} : hpc'[h] = hpc[h]
    BY <1>0, <1>11 DEF EndBlock, TypeOK
  <2>3. gpc = "idle"
    BY <2>1, CallsOutside
  <2>4. SeenFrames(v)'
    BY <2>1, <2>2 DEF HostInv, SeenFrames, Counted
  <2> QED BY <1>0, <2>1, <2>2, <2>3, <2>4, HostOfVoice
<1>12. ASSUME NEW v \in Holder, ResetHolder(v) PROVE HostInv'
  <2>1. gpc = "idle" /\ UNCHANGED <<availableFrames, gpc>>
    BY <1>12 DEF ResetHolder, MayEnter
  <2>2. hpc'[v] = "free" /\ hspan'[v] = 0
    BY <1>0, <1>12 DEF ResetHolder, TypeOK
  <2>3. \A h \in Holder \ {v} : hpc'[h] = hpc[h] /\ hfile'[h] = hfile[h] /\ hspan'[h] = hspan[h]
    BY <1>0, <1>12 DEF ResetHolder, TypeOK
  <2>4. SeenFrames(v)'
    BY <2>2 DEF SeenFrames
  <2> QED BY <1>0, <2>1, <2>3, <2>4, HostOfVoice
<1>13. CASE Dispatch
  BY <1>13, HostKept DEF Dispatch
<1>14. ASSUME NEW l \in Loader, LoaderPublish(l) PROVE HostInv'
  <2>1. UNCHANGED <<hpc, hfile, hspan, gpc, gfile>>
    BY <1>14 DEF LoaderPublish
  <2>2. Calm' /\ Unviewed'
    <3>1. Viewers(gfile)' = Viewers(gfile)
      BY <2>1 DEF Viewers
    <3> QED BY <2>1, <3>1 DEF HostInv, Calm, Unviewed
  <2>3. \A f \in File : availableFrames'[f] \in Nat /\ availableFrames'[f] >= availableFrames[f]
    BY <1>0, <1>14 DEF LoaderPublish, TypeOK
  <2>4. ASSUME NEW h \in Holder PROVE SeenFrames(h)'
    <3>1. hpc[h] \in Counted => hfile[h] \in File
      BY <1>0 DEF BusyInv, Counted
    <3>2. hpc[h] \notin Counted => hspan[h] = 0 /\ hpc[h] # "sawFrames"
      BY DEF HostInv, SeenFrames, Counted
    <3>3. CASE hpc[h] \in Counted
      BY <1>0, <2>1, <2>3, <3>1, <3>3, SizeAssumption DEF HostInv, SeenFrames, TypeOK
    <3>4. CASE hpc[h] \notin Counted
      BY <2>1, <3>2, <3>4 DEF SeenFrames
    <3> QED BY <3>3, <3>4
  <2> QED BY <2>2, <2>4 DEF HostInv
<1>15. ASSUME NEW l \in Loader,
              \/ StartJob(l) \/ LoaderStatus(l) \/ LoaderClaim(l) \/ LoaderPrepare(l)
              \/ LoaderWrite(l) \/ LoaderDone(l) \/ LoaderRegister(l)
       PROVE  HostInv'
  <2>1. UNCHANGED <<hpc, hfile, hspan, availableFrames, gpc, gfile>>
    BY <1>15 DEF StartJob, LoaderStatus, LoaderClaim, LoaderPrepare, LoaderWrite,
       LoaderDone, LoaderRegister
  <2> QED BY <2>1, HostKept
<1>16. CASE GcTryLock
  <2>1. /\ \A h \in Holder : hpc[h] \in {"free", "held"}
        /\ gpc' = "scan" /\ UNCHANGED <<hpc, hfile, hspan, availableFrames>>
    BY <1>16 DEF GcTryLock, MayEnter
  <2> QED BY <2>1 DEF HostInv, Calm, Unviewed, SeenFrames
<1>17. ASSUME NEW f \in File, GcExamine(f) PROVE HostInv'
  <2>1. gpc = "scan" /\ UNCHANGED <<hpc, hfile, hspan, availableFrames>>
    BY <1>17 DEF GcExamine
  <2>2. gpc' = "scan" \/ (readerCount[f] = 0 /\ gfile' = f)
    BY <1>17 DEF GcExamine, Keep, Drop
  <2>3. readerCount[f] = 0 => Viewers(f) = {}
    BY HolderAssumption, FS_Subset, FS_EmptySet DEF IInv, CountInv, Viewers
  <2>4. Viewers(f)' = Viewers(f)
    BY <2>1 DEF Viewers
  <2>5. Calm' /\ Unviewed'
    BY <2>1, <2>2, <2>3, <2>4 DEF HostInv, Calm, Unviewed, Viewers
  <2> QED BY <2>1, <2>5 DEF HostInv, SeenFrames
<1>18. CASE GcZero
  <2>1. /\ gpc = "zero" /\ gpc' = "move" /\ UNCHANGED <<hpc, hfile, hspan, gfile>>
        /\ availableFrames' = [availableFrames EXCEPT ![gfile] = 0]
    BY <1>18 DEF GcZero
  <2>2. Viewers(gfile) = {} /\ Viewers(gfile)' = Viewers(gfile)
    BY <2>1 DEF HostInv, Unviewed, Viewers
  <2>3. ASSUME NEW h \in Holder PROVE SeenFrames(h)'
    <3>1. hpc[h] \in Counted => hfile[h] \in File /\ hfile[h] # gfile
      BY <1>0, <2>2 DEF BusyInv, Counted, Viewers
    <3>2. hpc[h] \notin Counted => hspan[h] = 0 /\ hpc[h] # "sawFrames"
      BY DEF HostInv, SeenFrames, Counted
    <3>3. CASE hpc[h] \in Counted
      <4>1. availableFrames'[hfile[h]] = availableFrames[hfile[h]]
        BY <1>0, <2>1, <3>1, <3>3 DEF TypeOK
      <4> QED BY <2>1, <3>3, <4>1 DEF HostInv, SeenFrames
    <3>4. CASE hpc[h] \notin Counted
      BY <2>1, <3>2, <3>4 DEF SeenFrames
    <3> QED BY <3>3, <3>4
  <2> QED BY <2>1, <2>2, <2>3 DEF HostInv, Calm, Unviewed
<1>19. CASE GcStatus \/ GcFrames \/ GcClaim \/ GcRecheck \/ GcMove \/ GcRestore \/ GcReturn
  <2>1. UNCHANGED <<hpc, hfile, hspan, availableFrames>>
    BY <1>19 DEF GcStatus, GcFrames, GcClaim, GcRecheck, GcMove, GcRestore, GcReturn
  <2>2. \/ gpc = "scan" /\ gpc' = "idle"
        \/ gpc # "idle" /\ gpc' = "scan"
        \/ gpc \notin {"idle", "scan"} /\ gfile' = gfile
    BY <1>19 DEF GcStatus, GcFrames, GcClaim, GcRecheck, GcMove, GcRestore, GcReturn, Keep, Drop
  <2>3. (Viewers(gfile) = {} /\ gfile' = gfile) => Viewers(gfile)' = {}
    BY <2>1 DEF Viewers
  <2>4. Calm' /\ Unviewed'
    BY <2>1, <2>2, <2>3 DEF HostInv, Calm, Unviewed
  <2> QED BY <2>1, <2>4 DEF HostInv, SeenFrames
<1>20. CASE GarbageWake \/ GarbageClear
  BY <1>20, HostKept DEF GarbageWake, GarbageClear
<1>21. CASE UNCHANGED vars
  BY <1>21, HostKept DEF vars
<1> QED
  BY <1>1, <1>2, <1>3, <1>5, <1>6, <1>7, <1>8, <1>9, <1>10, <1>11, <1>12, <1>13, <1>14,
     <1>15, <1>16, <1>17, <1>18, <1>19, <1>20, <1>21
     DEF Next, Control, VoiceCall, InPromise, InBlock, LoaderStep, InPass

(* One step: the one that takes a span finds at least what the voice has   *)
(* seen before, and no block of a promise falls back to the preloaded part *)
(* once it has seen more.                                                  *)
LEMMA NoLoss ==
  ASSUME Serialized, IInv, HostInv, [Next]_vars,
         NEW v \in Holder, hpc[v] \in Counted, hpc'[v] \in Counted
  PROVE  hspan'[v] >= hspan[v]
<1> USE DEF fileVars, holderVars, queueVars, loaderVars, passVars, binVars
<1>0. TypeOK /\ BusyInv /\ hspan[v] \in Nat /\ hfile[v] \in File /\ SeenFrames(v)
  BY DEF IInv, TypeOK, BusyInv, HostInv, Counted
<1>1. ASSUME NEW h \in Holder, NEW f \in File, TakeLoadedPromise(h, f)
      PROVE  hspan'[v] = hspan[v]
  BY <1>0, <1>1 DEF TakeLoadedPromise, Hold, TypeOK, Counted
<1>2. ASSUME NEW h \in Holder, TakeQueuedPromise(h) PROVE hspan'[v] = hspan[v]
  BY <1>0, <1>2 DEF TakeQueuedPromise, Hold, TypeOK, Counted
<1>3. ASSUME NEW h \in Holder, ResetHolder(h) PROVE hspan'[v] = hspan[v]
  BY <1>0, <1>3 DEF ResetHolder, TypeOK, Counted
<1>4. ASSUME NEW h \in Holder, GetDataStatus(h) PROVE hspan'[v] = hspan[v]
  <2>1. gpc = "idle" /\ hfile[h] \in File
    BY <1>0, <1>4 DEF GetDataStatus, MayEnter, BusyInv
  <2>2. status[hfile[h]] # "GarbageCollecting"
    BY <2>1 DEF IInv, FramesInv, Claimed
  <2> QED BY <1>4, <2>2 DEF GetDataStatus
<1>5. ASSUME NEW h \in Holder, GetDataFrames(h) PROVE hspan'[v] = hspan[v]
  <2>1. hspan' = hspan \/ /\ hspan' = [hspan EXCEPT ![h] = 0]
                          /\ availableFrames[hfile[h]] <= Preload[hfile[h]]
    BY <1>5 DEF GetDataFrames, ReadPreloaded
  <2>2. availableFrames[hfile[v]] <= Preload[hfile[v]] => hspan[v] = 0
    BY <1>0, SizeAssumption DEF SeenFrames, TypeOK
  <2> QED BY <1>0, <2>1, <2>2 DEF TypeOK
<1>6. ASSUME NEW h \in Holder, GetDataSpan(h) PROVE hspan'[v] >= hspan[v]
  <2>1. hspan'[v] = hspan[v] \/ hspan'[v] = availableFrames[hfile[v]]
    BY <1>0, <1>6 DEF GetDataSpan, TypeOK
  <2> QED BY <1>0, <2>1 DEF SeenFrames, TypeOK
<1>7. CASE UNCHANGED hspan
  BY <1>0, <1>7
<1>8. \/ UNCHANGED hspan
      \/ \E h \in Holder : \/ \E f \in File : TakeLoadedPromise(h, f)
                           \/ TakeQueuedPromise(h) \/ ResetHolder(h) \/ GetDataStatus(h)
                           \/ GetDataFrames(h) \/ GetDataSpan(h)
  BY DEF Next, vars, Control, PreloadFile, RemoveUnusedPreloadedData, VoiceCall, InPromise,
     InBlock, QueueRequest, PostDispatcher, EndBlock, Dispatch, LoaderStep, StartJob,
     LoaderStatus, LoaderClaim, LoaderPrepare, LoaderWrite, LoaderPublish, LoaderDone,
     LoaderRegister, GcTryLock, InPass, GcExamine, GcStatus, GcFrames, GcClaim, GcRecheck,
     GcZero, GcMove, GcRestore, GcReturn, GarbageWake, GarbageClear
<1> QED BY <1>0, <1>1, <1>2, <1>3, <1>4, <1>5, <1>6, <1>7, <1>8

(* With a host that serialises its calls, a voice never loses what it has  *)
(* seen of its file, for every set of files, voices and loaders.           *)
THEOREM SpansNeverShrink == Serialized => (Spec => SpanNeverShrinks)
<1> SUFFICES ASSUME Serialized PROVE Spec => SpanNeverShrinks
  OBVIOUS
<1>1. Init => HostInv
  BY DEF Init, HostInv, Calm, Unviewed, SeenFrames, Counted
<1>2. IInv /\ HostInv /\ [Next]_vars => HostInv'
  BY HostStep
<1>3. IInv /\ HostInv /\ [Next]_vars =>
        [\A h \in Holder : hpc[h] \in Counted /\ hpc'[h] \in Counted => hspan'[h] >= hspan[h]]_vars
  BY NoLoss
<1> QED BY <1>1, <1>2, <1>3, Invariance, PTL DEF Spec, SpanNeverShrinks
=============================================================================
