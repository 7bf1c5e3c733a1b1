------------------------------ MODULE FilePool ------------------------------
(***************************************************************************)
(* The sample pool of the synthesiser (src/sfizz/FilePool.{h,cpp}): voices *)
(* hold promises on sample files whose first frames are preloaded, a       *)
(* dispatcher thread and a pool of loader threads stream the rest, and a   *)
(* collection pass with a garbage thread frees what nobody reads any more. *)
(*                                                                         *)
(* The threads share, per file, three atomics (status, availableFrames,    *)
(* readerCount) and one plain buffer (fileData).  One action is one access *)
(* to an atomic or one critical section.  Frames are counted in chunks of  *)
(* config::fileChunkSize.                                                  *)
(***************************************************************************)
EXTENDS Integers, Sequences, FiniteSets

CONSTANTS
  File,             \* file identifiers
  Holder,           \* voices, each with one FileDataHolder (currentPromise_)
  Loader,           \* worker threads of the thread pool
  Length,           \* Length[f]: chunks in the file on disk
  Preload,          \* Preload[f]: chunks in preloadedData
  FullyLoaded,      \* files whose fullyLoaded flag is set
  Unreadable,       \* files that can no longer be opened after preloading
  QueueCapacity,    \* capacity of filesToLoad (config::maxVoices)
  GarbageCapacity,  \* capacity reserved for garbageToCollect
  MaxJobs,          \* model bound: tasks waiting in the thread pool
  MaxPosts,         \* model bound: pending posts of semGarbageBarrier
  Serialized,       \* TRUE: the host keeps its calls mutually exclusive
  NoFile            \* the null file

ASSUME HolderAssumption == IsFiniteSet(Holder)

ASSUME SizeAssumption ==
  /\ Length \in [File -> Nat]
  /\ Preload \in [File -> Nat]
  /\ \A f \in File : Preload[f] <= Length[f]

ASSUME FileAssumption ==
  /\ FullyLoaded \subseteq {f \in File : Preload[f] = Length[f]}
  /\ Unreadable \subseteq File
  /\ NoFile \notin File

ASSUME BoundAssumption ==
  /\ QueueCapacity \in Nat
  /\ GarbageCapacity \in Nat
  /\ MaxJobs \in Nat
  /\ MaxPosts \in Nat
  /\ Serialized \in BOOLEAN

VARIABLES
  preloadedFiles,     \* the files that have an entry in the map
  status,             \* FileData::status
  availableFrames,    \* FileData::availableFrames
  readerCount,        \* FileData::readerCount
  fileData,           \* valid chunks of the streamed buffer; -1: no buffer
  hpc, hfile, hspan,  \* voices: control point, file held, last span obtained
  filesToLoad,        \* the lock-free queue of load requests
  dispatchBarrier,    \* the semaphore the dispatcher sleeps on
  jobs,               \* FIFO of the thread pool
  lpc, lfile,         \* loaders: control point and file
  lastUsedFiles,      \* the ids that own a streamed buffer
  garbageToCollect,   \* number of buffers waiting to be freed
  semGarbageBarrier,  \* the semaphore the garbage thread sleeps on
  garbageAwake,       \* the garbage thread is past its wait()
  gpc, gfile, gseen, gtodo  \* the collection pass

fileVars   == <<preloadedFiles, status, availableFrames, readerCount, fileData>>
holderVars == <<hpc, hfile, hspan>>
queueVars  == <<filesToLoad, dispatchBarrier>>
loaderVars == <<jobs, lpc, lfile>>
passVars   == <<gpc, gfile, gseen, gtodo>>
binVars    == <<lastUsedFiles, garbageToCollect, semGarbageBarrier, garbageAwake>>
vars == <<fileVars, holderVars, queueVars, loaderVars, passVars, binVars>>

Status == {"Invalid", "Preloaded", "Streaming", "Done", "GarbageCollecting"}
HolderPc == {"free", "pushed", "posted", "held", "sawStatus", "sawFrames", "reading"}
LoaderPc == {"idle", "status", "claim", "prepare", "stream", "publish", "register"}
PassPc == {"idle", "scan", "status", "frames", "claim", "recheck", "zero", "move", "restore"}

-----------------------------------------------------------------------------
(* The control points at which a voice is counted in readerCount.          *)
Counted == {"held", "sawStatus", "sawFrames", "reading"}
Viewers(f) == {h \in Holder : hpc[h] \in Counted /\ hfile[h] = f}

(* The host calls that take, read and drop promises and trigger the        *)
(* collection are serialised by the threading contract of the public API;  *)
(* the pool itself is written for the weaker case, Serialized = FALSE.     *)
MayEnter ==
  Serialized => gpc = "idle" /\ \A h \in Holder : hpc[h] \in {"free", "held"}

(* garbageAndLastUsedMutex is held across steps by the collection only.    *)
MutexFree == gpc = "idle"

(* No thread has anything to do with f.                                    *)
Unused(f) ==
  /\ \A h \in Holder : hfile[h] # f
  /\ \A l \in Loader : lfile[l] # f
  /\ \A i \in DOMAIN filesToLoad : filesToLoad[i] # f
  /\ \A i \in DOMAIN jobs : jobs[i] # f
  /\ gpc = "idle"

-----------------------------------------------------------------------------
(* preloadFile, for a file without an entry.                               *)
PreloadFile(f) ==
  /\ f \notin preloadedFiles /\ Unused(f)
  /\ preloadedFiles' = preloadedFiles \cup {f}
  /\ status' = [status EXCEPT ![f] = "Preloaded"]
  /\ UNCHANGED <<availableFrames, readerCount, fileData, holderVars, queueVars,
                 loaderVars, passVars, binVars>>

(* removeUnusedPreloadedData: the entry goes, its id stays in              *)
(* lastUsedFiles.                                                          *)
RemoveUnusedPreloadedData(f) ==
  /\ f \in preloadedFiles /\ Unused(f)
  /\ preloadedFiles' = preloadedFiles \ {f}
  /\ status' = [status EXCEPT ![f] = "Invalid"]
  /\ availableFrames' = [availableFrames EXCEPT ![f] = 0]
  /\ fileData' = [fileData EXCEPT ![f] = -1]
  /\ UNCHANGED <<readerCount, holderVars, queueVars, loaderVars, passVars, binVars>>

-----------------------------------------------------------------------------
(* getFilePromise: queue a request, post the dispatcher, take the handle.  *)
(* A full queue or an unknown file gives the voice no handle at all.       *)
QueueRequest(h, f) ==
  /\ MayEnter /\ hpc[h] = "free"
  /\ f \in preloadedFiles \ FullyLoaded
  /\ Len(filesToLoad) < QueueCapacity
  /\ filesToLoad' = Append(filesToLoad, f)
  /\ hpc' = [hpc EXCEPT ![h] = "pushed"]
  /\ hfile' = [hfile EXCEPT ![h] = f]
  /\ UNCHANGED <<fileVars, hspan, dispatchBarrier, loaderVars, passVars, binVars>>

PostDispatcher(h) ==
  /\ hpc[h] = "pushed"
  /\ dispatchBarrier' = dispatchBarrier + 1
  /\ hpc' = [hpc EXCEPT ![h] = "posted"]
  /\ UNCHANGED <<fileVars, hfile, hspan, filesToLoad, loaderVars, passVars, binVars>>

Hold(h, f) ==
  /\ readerCount' = [readerCount EXCEPT ![f] = @ + 1]
  /\ hpc' = [hpc EXCEPT ![h] = "held"]
  /\ hfile' = [hfile EXCEPT ![h] = f]
  /\ hspan' = [hspan EXCEPT ![h] = 0]
  /\ UNCHANGED <<preloadedFiles, status, availableFrames, fileData, queueVars,
                 loaderVars, passVars, binVars>>

TakeQueuedPromise(h) == hpc[h] = "posted" /\ Hold(h, hfile[h])

TakeLoadedPromise(h, f) ==
  /\ MayEnter /\ hpc[h] = "free"
  /\ f \in preloadedFiles \cap FullyLoaded
  /\ Hold(h, f)

(* Mutant: a released promise is counted twice. *)
ResetHolderTwice(h) ==
  /\ MayEnter /\ hpc[h] = "held"
  /\ readerCount' = [readerCount EXCEPT ![hfile[h]] = @ - 2]
  /\ hpc' = [hpc EXCEPT ![h] = "free"]
  /\ hfile' = [hfile EXCEPT ![h] = NoFile]
  /\ hspan' = [hspan EXCEPT ![h] = 0]
  /\ UNCHANGED <<preloadedFiles, status, availableFrames, fileData, queueVars,
                 loaderVars, passVars, binVars>>

(* FileDataHolder::reset                                                   *)
ResetHolder(h) ==
  /\ MayEnter /\ hpc[h] = "held"
  /\ readerCount' = [readerCount EXCEPT ![hfile[h]] = @ - 1]
  /\ hpc' = [hpc EXCEPT ![h] = "free"]
  /\ hfile' = [hfile EXCEPT ![h] = NoFile]
  /\ hspan' = [hspan EXCEPT ![h] = 0]
  /\ UNCHANGED <<preloadedFiles, status, availableFrames, fileData, queueVars,
                 loaderVars, passVars, binVars>>

-----------------------------------------------------------------------------
(* FileData::getData, called once per rendered block: one load of status,  *)
(* one of availableFrames for the comparison, one more for the span.  A    *)
(* span of 0 stands for the preloaded data.                                *)
ReadPreloaded(h) ==
  /\ hpc' = [hpc EXCEPT ![h] = "reading"]
  /\ hspan' = [hspan EXCEPT ![h] = 0]

GetDataStatus(h) ==
  /\ MayEnter /\ hpc[h] = "held"
  /\ \/ /\ status[hfile[h]] = "GarbageCollecting"
        /\ ReadPreloaded(h)
     \/ /\ status[hfile[h]] # "GarbageCollecting"
        /\ hpc' = [hpc EXCEPT ![h] = "sawStatus"]
        /\ UNCHANGED hspan
  /\ UNCHANGED <<fileVars, hfile, queueVars, loaderVars, passVars, binVars>>

GetDataFrames(h) ==
  /\ hpc[h] = "sawStatus"
  /\ \/ /\ availableFrames[hfile[h]] <= Preload[hfile[h]]
        /\ ReadPreloaded(h)
     \/ /\ availableFrames[hfile[h]] > Preload[hfile[h]]
        /\ hpc' = [hpc EXCEPT ![h] = "sawFrames"]
        /\ UNCHANGED hspan
  /\ UNCHANGED <<fileVars, hfile, queueVars, loaderVars, passVars, binVars>>

GetDataSpan(h) ==
  /\ hpc[h] = "sawFrames"
  /\ hpc' = [hpc EXCEPT ![h] = "reading"]
  /\ hspan' = [hspan EXCEPT ![h] = availableFrames[hfile[h]]]
  /\ UNCHANGED <<fileVars, hfile, queueVars, loaderVars, passVars, binVars>>

(* The block is rendered: the span is dropped, the promise kept.           *)
EndBlock(h) ==
  /\ hpc[h] = "reading"
  /\ hpc' = [hpc EXCEPT ![h] = "held"]
  /\ UNCHANGED <<fileVars, hfile, hspan, queueVars, loaderVars, passVars, binVars>>

-----------------------------------------------------------------------------
(* dispatchingJob: one wake-up moves one request to the thread pool.       *)
Dispatch ==
  /\ dispatchBarrier > 0
  /\ dispatchBarrier' = dispatchBarrier - 1
  /\ IF filesToLoad = <<>>
     THEN UNCHANGED <<filesToLoad, jobs>>
     ELSE /\ Len(jobs) < MaxJobs
          /\ filesToLoad' = Tail(filesToLoad)
          /\ jobs' = Append(jobs, Head(filesToLoad))
  /\ UNCHANGED <<fileVars, holderVars, lpc, lfile, passVars, binVars>>

-----------------------------------------------------------------------------
(* loadingJob and streamFromFile.                                          *)
Goto(l, pc) == lpc' = [lpc EXCEPT ![l] = pc]
EndJob(l) == Goto(l, "idle") /\ lfile' = [lfile EXCEPT ![l] = NoFile]

StartJob(l) ==
  /\ lpc[l] = "idle" /\ jobs # <<>>
  /\ jobs' = Tail(jobs)
  /\ \/ /\ Head(jobs) \notin Unreadable
        /\ Goto(l, "status")
        /\ lfile' = [lfile EXCEPT ![l] = Head(jobs)]
     \/ /\ Head(jobs) \in Unreadable        \* readError: the job gives up
        /\ UNCHANGED <<lpc, lfile>>
  /\ UNCHANGED <<fileVars, holderVars, queueVars, passVars, binVars>>

(* The job spins while the file is being collected.                        *)
LoaderStatus(l) ==
  /\ lpc[l] = "status"
  /\ \/ status[lfile[l]] = "Preloaded" /\ Goto(l, "claim") /\ UNCHANGED lfile
     \/ status[lfile[l]] \in {"Streaming", "Done"} /\ EndJob(l)
  /\ UNCHANGED <<fileVars, holderVars, queueVars, jobs, passVars, binVars>>

(* Mutant: a plain store in place of the compare-and-swap. *)
LoaderClaimByStore(l) ==
  /\ lpc[l] = "claim"
  /\ status' = [status EXCEPT ![lfile[l]] = "Streaming"]
  /\ Goto(l, "prepare")
  /\ UNCHANGED <<preloadedFiles, availableFrames, readerCount, fileData, holderVars,
                 queueVars, jobs, lfile, passVars, binVars>>

LoaderClaim(l) ==
  /\ lpc[l] = "claim"
  /\ \/ /\ status[lfile[l]] = "Preloaded"
        /\ status' = [status EXCEPT ![lfile[l]] = "Streaming"]
        /\ Goto(l, "prepare")
     \/ /\ status[lfile[l]] # "Preloaded"
        /\ Goto(l, "status")
        /\ UNCHANGED status
  /\ UNCHANGED <<preloadedFiles, availableFrames, readerCount, fileData, holderVars,
                 queueVars, jobs, lfile, passVars, binVars>>

(* The buffer is emptied and resized to the whole file.                    *)
LoaderPrepare(l) ==
  /\ lpc[l] = "prepare"
  /\ fileData' = [fileData EXCEPT ![lfile[l]] = 0]
  /\ Goto(l, "stream")
  /\ UNCHANGED <<preloadedFiles, status, availableFrames, readerCount, holderVars,
                 queueVars, jobs, lfile, passVars, binVars>>

LoaderWrite(l) ==
  /\ lpc[l] = "stream"
  /\ fileData[lfile[l]] < Length[lfile[l]]
  /\ fileData' = [fileData EXCEPT ![lfile[l]] = @ + 1]
  /\ Goto(l, "publish")
  /\ UNCHANGED <<preloadedFiles, status, availableFrames, readerCount, holderVars,
                 queueVars, jobs, lfile, passVars, binVars>>

LoaderPublish(l) ==
  /\ lpc[l] = "publish"
  /\ availableFrames' = [availableFrames EXCEPT ![lfile[l]] = @ + 1]
  /\ Goto(l, "stream")
  /\ UNCHANGED <<preloadedFiles, status, readerCount, fileData, holderVars,
                 queueVars, jobs, lfile, passVars, binVars>>

(* All frames are read, or the reader came to an early end of file.        *)
LoaderDone(l) ==
  /\ lpc[l] = "stream"
  /\ status' = [status EXCEPT ![lfile[l]] = "Done"]
  /\ Goto(l, "register")
  /\ UNCHANGED <<preloadedFiles, availableFrames, readerCount, fileData, holderVars,
                 queueVars, jobs, lfile, passVars, binVars>>

LoaderRegister(l) ==
  /\ lpc[l] = "register" /\ MutexFree
  /\ lastUsedFiles' = lastUsedFiles \cup {lfile[l]}
  /\ EndJob(l)
  /\ UNCHANGED <<fileVars, holderVars, queueVars, jobs, passVars, garbageToCollect,
                 semGarbageBarrier, garbageAwake>>

-----------------------------------------------------------------------------
(* triggerGarbageCollection, under garbageAndLastUsedMutex: each id of     *)
(* lastUsedFiles is kept for a later pass or dropped.                      *)
Keep(f) ==
  /\ gpc' = "scan" /\ gfile' = NoFile /\ gseen' = "Invalid"
  /\ gtodo' = gtodo \ {f}
  /\ UNCHANGED lastUsedFiles

Drop(f) ==
  /\ gpc' = "scan" /\ gfile' = NoFile /\ gseen' = "Invalid"
  /\ gtodo' = gtodo \ {f}
  /\ lastUsedFiles' = lastUsedFiles \ {f}

GcTryLock ==
  /\ MayEnter /\ gpc = "idle"
  /\ semGarbageBarrier < MaxPosts
  /\ gpc' = "scan" /\ gtodo' = lastUsedFiles
  /\ UNCHANGED <<gfile, gseen, fileVars, holderVars, queueVars, loaderVars, binVars>>

(* Mutant: the capacity test lets one buffer too many through. *)
GcExamineOffByOne(f) ==
  /\ gpc = "scan" /\ f \in gtodo
  /\ garbageToCollect <= GarbageCapacity
  /\ IF f \in preloadedFiles
     THEN /\ readerCount[f] = 0
          /\ gpc' = "status" /\ gfile' = f
          /\ UNCHANGED <<gseen, gtodo, lastUsedFiles>>
     ELSE Drop(f)
  /\ UNCHANGED <<fileVars, holderVars, queueVars, loaderVars, garbageToCollect,
                 semGarbageBarrier, garbageAwake>>

(* Capacity, existence, readers and idle time (left open: the file may or  *)
(* may not have been idle for config::fileClearingPeriod).                 *)
GcExamine(f) ==
  /\ gpc = "scan" /\ f \in gtodo
  /\ \/ /\ garbageToCollect = GarbageCapacity \/ f \in preloadedFiles
        /\ Keep(f)
     \/ /\ garbageToCollect < GarbageCapacity
        /\ f \notin preloadedFiles
        /\ Drop(f)
     \/ /\ garbageToCollect < GarbageCapacity
        /\ f \in preloadedFiles
        /\ readerCount[f] = 0
        /\ gpc' = "status" /\ gfile' = f
        /\ UNCHANGED <<gseen, gtodo, lastUsedFiles>>
  /\ UNCHANGED <<fileVars, holderVars, queueVars, loaderVars, garbageToCollect,
                 semGarbageBarrier, garbageAwake>>

GcStatus ==
  /\ gpc = "status"
  /\ \/ status[gfile] = "Done" /\ gpc' = "claim"
     \/ status[gfile] = "Preloaded" /\ gpc' = "frames"
     \/ status[gfile] \notin {"Done", "Preloaded"} /\ gpc' = "scan"
  /\ IF status[gfile] \in {"Done", "Preloaded"}
     THEN gseen' = status[gfile] /\ UNCHANGED <<gfile, gtodo>>
     ELSE gfile' = NoFile /\ gtodo' = gtodo \ {gfile} /\ UNCHANGED gseen
  /\ UNCHANGED <<fileVars, holderVars, queueVars, loaderVars, binVars>>

(* An entry re-created by a reload has nothing to free.                    *)
GcFrames ==
  /\ gpc = "frames"
  /\ \/ availableFrames[gfile] = 0 /\ Drop(gfile)
     \/ /\ availableFrames[gfile] # 0 /\ gpc' = "claim"
        /\ UNCHANGED <<gfile, gseen, gtodo, lastUsedFiles>>
  /\ UNCHANGED <<fileVars, holderVars, queueVars, loaderVars, garbageToCollect,
                 semGarbageBarrier, garbageAwake>>

GcClaim ==
  /\ gpc = "claim"
  /\ \/ /\ status[gfile] = gseen
        /\ status' = [status EXCEPT ![gfile] = "GarbageCollecting"]
        /\ gpc' = "recheck"
        /\ UNCHANGED <<gfile, gseen, gtodo, lastUsedFiles>>
     \/ /\ status[gfile] # gseen
        /\ Keep(gfile)
        /\ UNCHANGED status
  /\ UNCHANGED <<preloadedFiles, availableFrames, readerCount, fileData, holderVars,
                 queueVars, loaderVars, garbageToCollect, semGarbageBarrier, garbageAwake>>

(* Mutant: the readers are not counted again after the claim. *)
GcRecheckSkipped ==
  /\ gpc = "recheck" /\ gpc' = "zero"
  /\ UNCHANGED <<fileVars, holderVars, queueVars, loaderVars, gfile, gseen, gtodo, binVars>>

(* Mutant: the id is dropped although the buffer stays. *)
GcRecheckForgetful ==
  /\ gpc = "recheck"
  /\ \/ /\ readerCount[gfile] = 0
        /\ gpc' = "zero"
        /\ UNCHANGED <<status, gfile, gseen, gtodo, lastUsedFiles>>
     \/ /\ readerCount[gfile] # 0
        /\ status' = [status EXCEPT ![gfile] = gseen]
        /\ Drop(gfile)
  /\ UNCHANGED <<preloadedFiles, availableFrames, readerCount, fileData, holderVars,
                 queueVars, loaderVars, garbageToCollect, semGarbageBarrier, garbageAwake>>

(* A voice may have taken a promise since GcExamine.                       *)
GcRecheck ==
  /\ gpc = "recheck"
  /\ \/ /\ readerCount[gfile] = 0
        /\ gpc' = "zero"
        /\ UNCHANGED <<status, gfile, gseen, gtodo, lastUsedFiles>>
     \/ /\ readerCount[gfile] # 0
        /\ status' = [status EXCEPT ![gfile] = gseen]
        /\ Keep(gfile)
  /\ UNCHANGED <<preloadedFiles, availableFrames, readerCount, fileData, holderVars,
                 queueVars, loaderVars, garbageToCollect, semGarbageBarrier, garbageAwake>>

GcZero ==
  /\ gpc = "zero"
  /\ availableFrames' = [availableFrames EXCEPT ![gfile] = 0]
  /\ gpc' = "move"
  /\ UNCHANGED <<preloadedFiles, status, readerCount, fileData, holderVars, queueVars,
                 loaderVars, gfile, gseen, gtodo, binVars>>

GcMove ==
  /\ gpc = "move"
  /\ garbageToCollect' = garbageToCollect + 1
  /\ fileData' = [fileData EXCEPT ![gfile] = -1]
  /\ gpc' = "restore"
  /\ UNCHANGED <<preloadedFiles, status, availableFrames, readerCount, holderVars, queueVars,
                 loaderVars, gfile, gseen, gtodo, lastUsedFiles, semGarbageBarrier, garbageAwake>>

(* Mutant: the freed file goes back to the status it had when claimed. *)
GcRestoreSeen ==
  /\ gpc = "restore"
  /\ status' = [status EXCEPT ![gfile] = gseen]
  /\ Drop(gfile)
  /\ UNCHANGED <<preloadedFiles, availableFrames, readerCount, fileData, holderVars, queueVars,
                 loaderVars, garbageToCollect, semGarbageBarrier, garbageAwake>>

GcRestore ==
  /\ gpc = "restore"
  /\ status' = [status EXCEPT ![gfile] = "Preloaded"]
  /\ Drop(gfile)
  /\ UNCHANGED <<preloadedFiles, availableFrames, readerCount, fileData, holderVars, queueVars,
                 loaderVars, garbageToCollect, semGarbageBarrier, garbageAwake>>

(* Mutant: the pass returns without waking the garbage thread. *)
GcReturnSilent ==
  /\ gpc = "scan" /\ gtodo = {} /\ gpc' = "idle"
  /\ UNCHANGED <<gfile, gseen, gtodo, fileVars, holderVars, queueVars, loaderVars, binVars>>

(* The pass posts the garbage thread and unlocks on return.                *)
GcReturn ==
  /\ gpc = "scan" /\ gtodo = {}
  /\ gpc' = "idle"
  /\ semGarbageBarrier' = semGarbageBarrier + 1
  /\ UNCHANGED <<gfile, gseen, gtodo, fileVars, holderVars, queueVars, loaderVars,
                 lastUsedFiles, garbageToCollect, garbageAwake>>

-----------------------------------------------------------------------------
(* garbageJob: sleep, then free everything under the mutex.                *)
GarbageWake ==
  /\ ~garbageAwake /\ semGarbageBarrier > 0
  /\ semGarbageBarrier' = semGarbageBarrier - 1
  /\ garbageAwake' = TRUE
  /\ UNCHANGED <<fileVars, holderVars, queueVars, loaderVars, passVars, lastUsedFiles,
                 garbageToCollect>>

GarbageClear ==
  /\ garbageAwake /\ MutexFree
  /\ garbageToCollect' = 0
  /\ garbageAwake' = FALSE
  /\ UNCHANGED <<fileVars, holderVars, queueVars, loaderVars, passVars, lastUsedFiles,
                 semGarbageBarrier>>

-----------------------------------------------------------------------------
Init ==
  /\ preloadedFiles = {}
  /\ status = [f \in File |-> "Invalid"]
  /\ availableFrames = [f \in File |-> 0]
  /\ readerCount = [f \in File |-> 0]
  /\ fileData = [f \in File |-> -1]
  /\ hpc = [h \in Holder |-> "free"]
  /\ hfile = [h \in Holder |-> NoFile]
  /\ hspan = [h \in Holder |-> 0]
  /\ filesToLoad = <<>> /\ dispatchBarrier = 0
  /\ jobs = <<>>
  /\ lpc = [l \in Loader |-> "idle"]
  /\ lfile = [l \in Loader |-> NoFile]
  /\ lastUsedFiles = {} /\ garbageToCollect = 0
  /\ semGarbageBarrier = 0 /\ garbageAwake = FALSE
  /\ gpc = "idle" /\ gfile = NoFile /\ gseen = "Invalid" /\ gtodo = {}

Control == \E f \in File : PreloadFile(f) \/ RemoveUnusedPreloadedData(f)

InPromise(h) == PostDispatcher(h) \/ TakeQueuedPromise(h)
InBlock(h) == GetDataFrames(h) \/ GetDataSpan(h) \/ EndBlock(h)
VoiceCall(h) ==
  \/ \E f \in File : QueueRequest(h, f) \/ TakeLoadedPromise(h, f)
  \/ GetDataStatus(h)
  \/ ResetHolder(h)

LoaderStep(l) ==
  \/ StartJob(l) \/ LoaderStatus(l) \/ LoaderClaim(l) \/ LoaderPrepare(l)
  \/ LoaderWrite(l) \/ LoaderPublish(l) \/ LoaderDone(l) \/ LoaderRegister(l)

InPass ==
  \/ \E f \in File : GcExamine(f)
  \/ GcStatus \/ GcFrames \/ GcClaim \/ GcRecheck
  \/ GcZero \/ GcMove \/ GcRestore \/ GcReturn

Next ==
  \/ Control
  \/ \E h \in Holder : VoiceCall(h) \/ InPromise(h) \/ InBlock(h)
  \/ Dispatch
  \/ \E l \in Loader : LoaderStep(l)
  \/ GcTryLock \/ InPass
  \/ GarbageWake \/ GarbageClear

Spec == Init /\ [][Next]_vars

(* The background threads run and a host call that was entered returns;    *)
(* whether the host ever calls again is its own business.  The garbage     *)
(* thread and a registering loader compete for a spin lock with the        *)
(* collection; that runs at most once per config::fileClearingPeriod       *)
(* seconds, so neither loses the race forever: SF.                         *)
Fairness ==
  /\ \A h \in Holder : WF_vars(InPromise(h)) /\ WF_vars(InBlock(h))
  /\ WF_vars(Dispatch)
  /\ \A l \in Loader : WF_vars(LoaderStep(l)) /\ SF_vars(LoaderRegister(l))
  /\ WF_vars(InPass)
  /\ WF_vars(GarbageWake) /\ SF_vars(GarbageClear)

FairSpec == Spec /\ Fairness

-----------------------------------------------------------------------------
TypeOK ==
  /\ preloadedFiles \subseteq File
  /\ status \in [File -> Status]
  /\ availableFrames \in [File -> Nat]
  /\ readerCount \in [File -> Int]
  /\ fileData \in [File -> Int]
  /\ hpc \in [Holder -> HolderPc]
  /\ hfile \in [Holder -> File \cup {NoFile}]
  /\ hspan \in [Holder -> Nat]
  /\ filesToLoad \in Seq(File) /\ dispatchBarrier \in Nat
  /\ jobs \in Seq(File)
  /\ lpc \in [Loader -> LoaderPc]
  /\ lfile \in [Loader -> File \cup {NoFile}]
  /\ lastUsedFiles \subseteq File /\ garbageToCollect \in Nat
  /\ semGarbageBarrier \in Nat /\ garbageAwake \in BOOLEAN
  /\ gpc \in PassPc /\ gfile \in File \cup {NoFile}
  /\ gseen \in Status /\ gtodo \subseteq File

(* A voice that renders from a span of the streamed buffer only covers     *)
(* frames that have been written to it and are still there: neither the    *)
(* collector's move nor a second streaming pass takes them away.           *)
SpanBacked ==
  \A h \in Holder : hpc[h] = "reading" /\ hspan[h] > 0 => hspan[h] <= fileData[hfile[h]]

(* Two load requests for one file never stream into its buffer together,   *)
(* and the collector never owns a file that is being streamed.             *)
Streams(l, f) == lfile[l] = f /\ lpc[l] \in {"prepare", "stream", "publish"}
ExclusiveStream ==
  \A l \in Loader, f \in File : Streams(l, f) =>
    /\ status[f] = "Streaming"
    /\ \A k \in Loader : Streams(k, f) => k = l

(* The memory of a streamed file is never forgotten: its id is known to    *)
(* the collector, or the job that filled it has yet to register it.        *)
NoBufferLeak ==
  \A f \in File : fileData[f] # -1 =>
    f \in lastUsedFiles \/ \E l \in Loader : lfile[l] = f /\ lpc[l] # "idle"

(* The garbage list never outgrows the memory reserved for it, so that the *)
(* audio thread does not allocate when it moves a buffer there.            *)
GarbageWithinCapacity == garbageToCollect <= GarbageCapacity

(* While a voice keeps its promise, a block never gets less of the         *)
(* streamed file than an earlier block did (needs the host's serialised    *)
(* calls: otherwise getData may fall into the collector's claim window).   *)
SpanNeverShrinks ==
  [][\A h \in Holder : hpc[h] \in Counted /\ hpc'[h] \in Counted => hspan'[h] >= hspan[h]]_vars

(* A promise on a file with more than its preloaded part gets that file    *)
(* streamed, unless the voice lets it go or the file cannot be opened.     *)
Fulfilled(h, f) ==
  hpc[h] \in Counted /\ hfile[h] = f => status[f] = "Done" /\ fileData[f] # -1
PromiseFulfilled ==
  \A h \in Holder, f \in File \ (FullyLoaded \cup Unreadable) :
    (hpc[h] = "held" /\ hfile[h] = f) ~> Fulfilled(h, f)

(* What the collector moved to the garbage list is freed.                  *)
GarbageFreed == garbageToCollect > 0 ~> garbageToCollect = 0

-----------------------------------------------------------------------------
(* The inductive invariant behind SpanBacked, ExclusiveStream,             *)
(* NoBufferLeak and GarbageWithinCapacity, by named parts.                 *)
Claimed == {"recheck", "zero", "move", "restore"}
PastRecheck == {"zero", "move", "restore"}

(* readerCount counts the voices exactly.                                  *)
CountInv == \A f \in File : readerCount[f] = Cardinality(Viewers(f))

(* Every busy thread has a file.                                           *)
BusyInv ==
  /\ \A h \in Holder : hpc[h] # "free" => hfile[h] \in File
  /\ \A l \in Loader : lpc[l] # "idle" => lfile[l] \in File
  /\ gpc \notin {"idle", "scan"} => gfile \in preloadedFiles

(* Which frames and buffer a file may have in each status.                 *)
FramesInv ==
  \A f \in File :
    /\ f \notin preloadedFiles => status[f] = "Invalid"
    /\ availableFrames[f] = 0 \/ availableFrames[f] <= fileData[f]
    /\ status[f] \in {"Invalid", "Preloaded"} => availableFrames[f] = 0 /\ fileData[f] = -1
    /\ status[f] = "GarbageCollecting" => gpc \in Claimed /\ gfile = f

(* A streaming loader owns its file and is at most one chunk ahead of what *)
(* it has published.                                                       *)
StreamInv ==
  \A l \in Loader, f \in File : Streams(l, f) =>
    /\ status[f] = "Streaming"
    /\ \A k \in Loader : Streams(k, f) => k = l
    /\ lpc[l] = "prepare" => availableFrames[f] = 0
    /\ lpc[l] = "stream" => availableFrames[f] = fileData[f]
    /\ lpc[l] = "publish" => availableFrames[f] + 1 = fileData[f]

(* The collector owns the file it claimed; past the recheck no voice is    *)
(* about to take, or holds, a span of its buffer.                          *)
PassInv ==
  /\ gpc \in Claimed => status[gfile] = "GarbageCollecting"
  /\ gpc \in {"frames", "claim", "recheck"} => gseen \in {"Done", "Preloaded"}
  /\ gpc = "recheck" /\ gseen = "Preloaded" =>
       availableFrames[gfile] = 0 /\ fileData[gfile] = -1
  /\ gpc \in {"move", "restore"} => availableFrames[gfile] = 0
  /\ gpc = "restore" => fileData[gfile] = -1
  /\ gpc \in PastRecheck => \A h \in Viewers(gfile) :
       hpc[h] = "held" \/ (hpc[h] = "reading" /\ hspan[h] = 0)
  /\ gpc \notin {"idle", "scan", "restore"} => garbageToCollect < GarbageCapacity
  /\ garbageToCollect <= GarbageCapacity

(* What a voice saw of availableFrames is still there.                     *)
SpanInv ==
  \A h \in Holder :
    /\ hpc[h] = "sawFrames" => availableFrames[hfile[h]] > 0
    /\ hpc[h] = "reading" /\ hspan[h] > 0 => hspan[h] <= availableFrames[hfile[h]]

(* A buffer is registered, or its loader still has to register it.         *)
Fills(l, f) == lfile[l] = f /\ lpc[l] \in {"stream", "publish", "register"}
RegisterInv ==
  /\ \A f \in File : fileData[f] # -1 => f \in lastUsedFiles \/ \E l \in Loader : Fills(l, f)
  /\ gpc = "frames" => fileData[gfile] = -1 \/ \E l \in Loader : Fills(l, gfile)

IInv == TypeOK /\ BusyInv /\ CountInv /\ FramesInv /\ StreamInv /\ PassInv /\ SpanInv /\ RegisterInv
=============================================================================
