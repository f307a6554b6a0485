------------------------- MODULE BundleStoreProofs -------------------------
(***************************************************************************)
(* Theorems about BundleStore, for any set of calls and of bundles and any *)
(* number of losses of power.                                              *)
(***************************************************************************)
EXTENDS BundleStore, TLAPS

\* A file is synced when it is complete; only synced files are linked.
FileInv ==
  /\ \A w \in synced : /\ content[w] = "full"
                       /\ pc[w] \notin {"ensure", "mkdir", "reopen", "open", "create"}
  /\ \A w \in Writer : pc[w] = "sync" => content[w] = "full"
  /\ \A w \in Writer : pc[w] \in {"link", "syncDir"} => w \in synced

\* A final name links a synced file of its own bundle, on disk as in memory.
NameInv ==
  /\ \A b \in Bundle : final[b] # Nobody => final[b] \in synced /\ BundleOf[final[b]] = b
  /\ \A b \in Bundle : finalDisk[b] # Nobody => finalDisk[b] = final[b]

\* From the link on, the name is the call's; a success is on disk, or was
\* before the root was lost.
CallInv ==
  /\ \A w \in Writer : pc[w] = "syncDir" => final[BundleOf[w]] = w
  /\ \A w \in Writer : pc[w] # "done" => answer[w] = "none"
  /\ \A w \in Writer : answer[w] = "stored" => outcome[w] = "stored"
  /\ \A w \in Writer : outcome[w] = "stored" =>
       /\ pc[w] \in {"unlink"} \cup Ended
       /\ \/ final[BundleOf[w]] = w /\ finalDisk[BundleOf[w]] = w
          \/ rootLost /\ pc[w] \in Ended /\ final[BundleOf[w]] # w

\* A call links its name once; when it cleans up without a success it met an error
\* or the name was another's.
CauseInv ==
  /\ \A w \in Writer : pc[w] \notin {"syncDir", "unlink"} \cup Ended => final[BundleOf[w]] # w
  /\ \A w \in Writer : pc[w] = "unlink" /\ outcome[w] = "failed" =>
       w \in faulty \/ final[BundleOf[w]] \notin {Nobody, w}

IInv == TypeOK /\ FileInv /\ NameInv /\ CallInv /\ CauseInv
-----------------------------------------------------------------------------
(***************************************************************************)
(* The inductive invariant                                                 *)
(***************************************************************************)
LEMMA InitIInv == Init => IInv
<1> SUFFICES ASSUME Init  PROVE IInv
  OBVIOUS
<1>1. TypeOK
  <2>1. crashes \in 0..MaxCrashes
    BY CrashAssumption DEF Init
  <2>2. /\ final \in [Bundle -> Writer \cup {Nobody}] /\ finalDisk = final
        /\ pc \in [Writer -> Points]
    BY DEF Init, Points
  <2> QED  BY <2>1, <2>2 DEF Init, TypeOK
<1>2. FileInv /\ NameInv
  BY DEF Init, FileInv, NameInv
<1>3. CallInv
  BY DEF Init, CallInv
<1>4. CauseInv
  BY WriterAssumption, BundleAssumption DEF Init, CauseInv
<1> QED  BY <1>1, <1>2, <1>3, <1>4 DEF IInv

\* The steps that look at the root or at nothing change no file.
LEMMA RootSteps ==
  ASSUME IInv, NEW w \in Writer,
         \/ EnsureProbes(w) \/ EnsureMakes(w) \/ EnsureReopens(w)
         \/ PersistOpens(w) \/ Killed(w)
  PROVE  IInv'
<1> USE DEF rootVars, files, Goto, Answer, At, Works, Errs, Opens
<1> SUFFICES ASSUME UNCHANGED files, UNCHANGED <<outcome, crashes>>, rootLost' = rootLost,
                    faulty \subseteq faulty', faulty' \subseteq Writer,
                    root' \in {"absent", "private", "unsafe"}, rootSynced' \in BOOLEAN,
                    pc[w] \in {"ensure", "mkdir", "reopen", "open"} \/ Killed(w),
                    \/ /\ \E p \in {"open", "mkdir", "reopen", "create", "dead"} :
                            pc' = [pc EXCEPT ![w] = p]
                       /\ answer' = answer
                    \/ /\ pc' = [pc EXCEPT ![w] = "done"]
                       /\ answer' = [answer EXCEPT ![w] = "failed"]
             PROVE  IInv'
  BY DEF EnsureProbes, EnsureMakes, EnsureReopens, PersistOpens, Killed, IInv, TypeOK
<1>1. TypeOK'
  BY DEF IInv, TypeOK, Points, Ended
<1>2. FileInv'
  BY DEF IInv, TypeOK, FileInv, Killed
<1>3. NameInv'
  BY DEF IInv, TypeOK, NameInv
<1>4. CallInv'
  BY DEF IInv, TypeOK, CallInv, Killed, Ended
<1>5. CauseInv'
  BY DEF IInv, TypeOK, CauseInv, Killed, Ended
<1> QED  BY <1>1, <1>2, <1>3, <1>4, <1>5 DEF IInv

\* The steps of persist_bundle.
LEMMA FileSteps ==
  ASSUME IInv, NEW w \in Writer,
         \/ CreateTemp(w) \/ WriteData(w) \/ SyncFile(w) \/ LinkFinal(w)
         \/ SyncDir(w) \/ UnlinkTemp(w)
  PROVE  IInv'
<1> USE BundleAssumption, WriterAssumption DEF rootVars, Goto, Answer, At, Works, Errs
<1>1. CASE CreateTemp(w)
  <2>1. TypeOK'
    <3>1. temp' \subseteq Writer /\ content' \in [Writer -> {"none", "part", "full"}]
      BY <1>1 DEF CreateTemp, IInv, TypeOK
    <3>2. pc' \in [Writer -> Points]
      BY <1>1 DEF CreateTemp, IInv, TypeOK, Points
    <3> QED  BY <1>1, <3>1, <3>2 DEF CreateTemp, IInv, TypeOK
  <2>2. FileInv'  BY <1>1 DEF CreateTemp, IInv, TypeOK, FileInv
  <2>3. NameInv'  BY <1>1 DEF CreateTemp, IInv, TypeOK, NameInv
  <2>4. CallInv'  BY <1>1 DEF CreateTemp, IInv, TypeOK, CallInv, Ended
  <2>5. CauseInv'  BY <1>1 DEF CreateTemp, IInv, TypeOK, CauseInv, Ended
  <2> QED  BY <2>1, <2>2, <2>3, <2>4, <2>5 DEF IInv
<1>2. CASE WriteData(w)
  <2>1. TypeOK'  BY <1>2 DEF WriteData, IInv, TypeOK, Points, Ended
  <2>2. FileInv'  BY <1>2 DEF WriteData, IInv, TypeOK, FileInv
  <2>3. NameInv'  BY <1>2 DEF WriteData, IInv, TypeOK, NameInv
  <2>4. CallInv'  BY <1>2 DEF WriteData, IInv, TypeOK, CallInv, Ended
  <2>5. CauseInv'  BY <1>2 DEF WriteData, IInv, TypeOK, CauseInv, Ended
  <2> QED  BY <2>1, <2>2, <2>3, <2>4, <2>5 DEF IInv
<1>3. CASE SyncFile(w)
  <2>1. TypeOK'  BY <1>3 DEF SyncFile, IInv, TypeOK, Points, Ended
  <2>2. FileInv'  BY <1>3 DEF SyncFile, IInv, TypeOK, FileInv
  <2>3. NameInv'  BY <1>3 DEF SyncFile, IInv, TypeOK, NameInv
  <2>4. CallInv'  BY <1>3 DEF SyncFile, IInv, TypeOK, CallInv, Ended
  <2>5. CauseInv'  BY <1>3 DEF SyncFile, IInv, TypeOK, CauseInv, Ended
  <2> QED  BY <2>1, <2>2, <2>3, <2>4, <2>5 DEF IInv
<1>4. CASE LinkFinal(w)
  <2>1. TypeOK'  BY <1>4 DEF LinkFinal, IInv, TypeOK, Points, Ended
  <2>2. FileInv'  BY <1>4 DEF LinkFinal, IInv, TypeOK, FileInv
  <2>3. NameInv'  BY <1>4 DEF LinkFinal, IInv, TypeOK, NameInv, FileInv
  <2>4. CallInv'  BY <1>4 DEF LinkFinal, IInv, TypeOK, CallInv, Ended
  <2>5. CauseInv'  BY <1>4 DEF LinkFinal, IInv, TypeOK, CauseInv, CallInv, Ended
  <2> QED  BY <2>1, <2>2, <2>3, <2>4, <2>5 DEF IInv
<1>5. CASE SyncDir(w)
  <2>1. TypeOK'  BY <1>5 DEF SyncDir, IInv, TypeOK, Points, Ended
  <2>2. FileInv'  BY <1>5 DEF SyncDir, IInv, TypeOK, FileInv
  <2>3. NameInv'  BY <1>5 DEF SyncDir, IInv, TypeOK, NameInv
  <2>4. CallInv'  BY <1>5 DEF SyncDir, IInv, TypeOK, NameInv, CallInv, Ended
  <2>5. CauseInv'  BY <1>5 DEF SyncDir, IInv, TypeOK, CauseInv, CallInv, Ended
  <2> QED  BY <2>1, <2>2, <2>3, <2>4, <2>5 DEF IInv
<1>6. CASE UnlinkTemp(w)
  <2>1. TypeOK'  BY <1>6 DEF UnlinkTemp, IInv, TypeOK, Points, Ended
  <2>2. FileInv'  BY <1>6 DEF UnlinkTemp, IInv, TypeOK, FileInv
  <2>3. NameInv'  BY <1>6 DEF UnlinkTemp, IInv, TypeOK, NameInv
  <2>4. CallInv'  BY <1>6 DEF UnlinkTemp, IInv, TypeOK, CallInv, Ended
  <2>5. CauseInv'  BY <1>6 DEF UnlinkTemp, IInv, TypeOK, CauseInv, Ended
  <2> QED  BY <2>1, <2>2, <2>3, <2>4, <2>5 DEF IInv
<1> QED  BY <1>1, <1>2, <1>3, <1>4, <1>5, <1>6

\* A loss of power keeps what is synced: the content of linked files, and the
\* names on disk unless the root itself goes.
LEMMA PowerLossStep == IInv /\ PowerLoss => IInv'
<1> SUFFICES ASSUME IInv, PowerLoss  PROVE IInv'
  OBVIOUS
<1> USE BundleAssumption, WriterAssumption
<1>1. pc' = [w \in Writer |-> IF pc[w] \in Ended \cup {"ensure"} THEN pc[w] ELSE "dead"]
  BY DEF PowerLoss
<1>2. \A w \in Writer : pc'[w] \notin {"sync", "link", "syncDir"}
  BY <1>1 DEF Ended
<1>a. \A w \in Writer : pc'[w] # "done" => pc[w] # "done"
  BY <1>1 DEF Ended
<1>b. \A w \in Writer : pc[w] # "ensure" => pc'[w] \in Ended
  BY <1>1 DEF Ended
<1>3. /\ content' \in [Writer -> {"none", "part", "full"}]
      /\ \A w \in synced : content'[w] = content[w]
  BY DEF PowerLoss, IInv, TypeOK
<1>4. \/ /\ final' \in [Bundle -> Writer \cup {Nobody}]
         /\ \A b \in Bundle : final'[b] \in {final[b], finalDisk[b]}
         /\ UNCHANGED rootLost
      \/ rootLost' = TRUE /\ final' = [b \in Bundle |-> Nobody]
  BY DEF PowerLoss
<1>5. finalDisk' = final' /\ UNCHANGED <<synced, outcome, answer, faulty>>
  BY DEF PowerLoss
<1>6. TypeOK'
  <2>1. /\ root' \in {"absent", "private", "unsafe"} /\ rootSynced' \in BOOLEAN
        /\ rootLost' \in BOOLEAN /\ temp' \subseteq Writer
    BY DEF PowerLoss, IInv, TypeOK
  <2>4. crashes' \in 0..MaxCrashes
    BY CrashAssumption DEF PowerLoss, IInv, TypeOK
  <2>2. pc' \in [Writer -> Points]
    BY <1>1 DEF IInv, TypeOK, Points, Ended
  <2>3. final' \in [Bundle -> Writer \cup {Nobody}]
    BY <1>4
  <2> QED  BY <1>3, <1>5, <2>1, <2>2, <2>3, <2>4 DEF IInv, TypeOK
<1>7. FileInv'
  <2>1. ASSUME NEW w \in synced'
        PROVE  content'[w] = "full" /\ pc'[w] \notin {"ensure", "mkdir", "reopen", "open", "create"}
    <3>1. w \in synced /\ w \in Writer /\ pc[w] # "ensure" /\ content[w] = "full"
      BY <1>5 DEF IInv, TypeOK, FileInv
    <3>2. pc'[w] \in Ended
      BY <1>b, <3>1
    <3> QED  BY <1>3, <3>1, <3>2 DEF Ended
  <2>2. \A w \in Writer : pc'[w] = "sync" => content'[w] = "full"
    BY <1>2
  <2>3. \A w \in Writer : pc'[w] \in {"link", "syncDir"} => w \in synced'
    BY <1>2
  <2> QED  BY <2>1, <2>2, <2>3 DEF FileInv
<1>8. NameInv'
  BY <1>4, <1>5 DEF IInv, TypeOK, NameInv
<1>9. CallInv'
  <2>1. \A w \in Writer : pc'[w] = "syncDir" => final'[BundleOf[w]] = w
    BY <1>2
  <2>2. \A w \in Writer : pc'[w] # "done" => answer'[w] = "none"
    BY <1>5, <1>a DEF IInv, CallInv
  <2>3. \A w \in Writer : answer'[w] = "stored" => outcome'[w] = "stored"
    BY <1>5 DEF IInv, CallInv
  <2>4. ASSUME NEW w \in Writer, outcome'[w] = "stored"
        PROVE  /\ pc'[w] \in Ended
               /\ \/ final'[BundleOf[w]] = w /\ finalDisk'[BundleOf[w]] = w
                  \/ rootLost' /\ final'[BundleOf[w]] # w
    <3>1. BundleOf[w] \in Bundle
      OBVIOUS
    <3>2. pc'[w] \in Ended
      <4>1. pc[w] \in {"unlink"} \cup Ended
        BY <1>5, <2>4 DEF IInv, CallInv
      <4> QED  BY <1>b, <4>1 DEF Ended
    <3>3. CASE final[BundleOf[w]] = w /\ finalDisk[BundleOf[w]] = w
      BY <1>4, <1>5, <3>1, <3>2, <3>3
    <3>4. CASE rootLost /\ final[BundleOf[w]] # w
      <4>1. finalDisk[BundleOf[w]] # w
        BY <3>1, <3>4 DEF IInv, NameInv
      <4> QED  BY <1>4, <3>1, <3>2, <3>4, <4>1 DEF IInv, TypeOK
    <3> QED  BY <1>5, <2>4, <3>3, <3>4 DEF IInv, CallInv
  <2> QED  BY <2>1, <2>2, <2>3, <2>4 DEF CallInv
<1>10. CauseInv'
  <2>1. \A w \in Writer : pc'[w] # "unlink"
    BY <1>1 DEF Ended
  <2>2. ASSUME NEW w \in Writer, pc'[w] \notin Ended
        PROVE  final'[BundleOf[w]] # w
    <3>1. pc[w] = "ensure" /\ BundleOf[w] \in Bundle
      BY <1>b, <2>2
    <3>2. final[BundleOf[w]] # w
      BY <3>1 DEF IInv, CauseInv, Ended
    <3>3. finalDisk[BundleOf[w]] # w
      BY <3>1, <3>2 DEF IInv, NameInv
    <3> QED  BY <1>4, <3>1, <3>2, <3>3
  <2> QED  BY <2>1, <2>2 DEF CauseInv
<1> QED  BY <1>6, <1>7, <1>8, <1>9, <1>10 DEF IInv

LEMMA NextIInv == IInv /\ [Next]_vars => IInv'
<1> SUFFICES ASSUME IInv, [Next]_vars  PROVE IInv'
  OBVIOUS
<1>1. ASSUME NEW w \in Writer, Step(w)  PROVE IInv'
  BY <1>1, RootSteps, FileSteps DEF Step
<1>2. ASSUME NEW w \in Writer, Killed(w)  PROVE IInv'
  BY <1>2, RootSteps
<1>3. CASE PowerLoss
  BY <1>3, PowerLossStep
<1>4. CASE OwnerChangesMode
  BY <1>4 DEF OwnerChangesMode, files, IInv, TypeOK, FileInv, NameInv, CallInv, CauseInv
<1>5. CASE UNCHANGED vars
  BY <1>5 DEF vars, IInv, TypeOK, FileInv, NameInv, CallInv, CauseInv
<1> QED  BY <1>1, <1>2, <1>3, <1>4, <1>5 DEF Next

\* The inductive invariant holds in every behaviour.
THEOREM Invariance == Spec => []IInv
  BY InitIInv, NextIInv, PTL DEF Spec

(***************************************************************************)
(* The properties                                                          *)
(***************************************************************************)
\* Every variable keeps its type.
THEOREM TypeCorrect == Spec => []TypeOK
<1>1. IInv => TypeOK
  BY DEF IInv
<1> QED  BY <1>1, Invariance, PTL

\* A final name always stands for a complete file of its bundle.
THEOREM Complete == Spec => []StoredIsComplete
<1>1. IInv => StoredIsComplete
  BY DEF IInv, TypeOK, FileInv, NameInv, StoredIsComplete
<1> QED  BY <1>1, Invariance, PTL

\* A bundle reported as stored stays, unless the root is lost.
THEOREM Survives == Spec => []StoredSurvives
<1>1. IInv => StoredSurvives
  BY DEF IInv, CallInv, StoredSurvives
<1> QED  BY <1>1, Invariance, PTL

\* A failure has its cause: an error of the call's own, no private root, or a
\* bundle that another call put in place; for any number of calls.
THEOREM FailuresHaveCause == Spec => FailsForCause
<1>1. ASSUME IInv, Next, NEW w \in Writer, answer[w] = "none", answer'[w] = "failed"
      PROVE  \/ w \in faulty'
             \/ pc[w] \in {"ensure", "reopen", "open"} /\ root # "private"
             \/ final[BundleOf[w]] \notin {Nobody, w}
  <2> USE DEF Goto, Answer, At, Works, Errs, Opens
  <2>1. PICK v \in Writer : Step(v)
    BY <1>1 DEF Next, Killed, PowerLoss, OwnerChangesMode
  <2>2. v = w
    BY <1>1, <2>1 DEF Step, EnsureProbes, EnsureMakes, EnsureReopens, PersistOpens, CreateTemp,
       WriteData, SyncFile, LinkFinal, SyncDir, UnlinkTemp, IInv, TypeOK
  <2>3. \/ EnsureProbes(w) \/ EnsureMakes(w) \/ EnsureReopens(w) \/ PersistOpens(w)
        \/ UnlinkTemp(w)
    BY <1>1, <2>1, <2>2 DEF Step, CreateTemp, WriteData, SyncFile, LinkFinal, SyncDir
  <2>4. CASE EnsureProbes(w) \/ EnsureMakes(w) \/ EnsureReopens(w) \/ PersistOpens(w)
    BY <1>1, <2>4 DEF EnsureProbes, EnsureMakes, EnsureReopens, PersistOpens, IInv, TypeOK
  <2>5. CASE UnlinkTemp(w)
    BY <1>1, <2>5 DEF UnlinkTemp, IInv, TypeOK, CauseInv
  <2> QED  BY <2>3, <2>4, <2>5
<1>2. IInv /\ [Next]_vars =>
        [\A w \in Writer : answer[w] = "none" /\ answer'[w] = "failed" =>
           \/ w \in faulty'
           \/ pc[w] \in {"ensure", "reopen", "open"} /\ root # "private"
           \/ final[BundleOf[w]] \notin {Nobody, w}]_vars
  BY <1>1
<1> QED  BY <1>2, Invariance, PTL DEF Spec, FailsForCause

\* A call goes on from a root only while that is private, whoever made it.
THEOREM RootTrusted == Spec => RootIsTrusted
<1>1. ASSUME IInv, Next, NEW w \in Writer, pc'[w] # pc[w], pc'[w] \in {"open", "create"}
      PROVE  root = "private"
  <2> USE DEF Goto, Answer, At, Opens
  <2>1. PICK v \in Writer : Step(v)
    BY <1>1 DEF Next, Killed, PowerLoss, OwnerChangesMode, Ended, IInv, TypeOK
  <2>2. v = w
    BY <1>1, <2>1 DEF Step, EnsureProbes, EnsureMakes, EnsureReopens, PersistOpens, CreateTemp,
       WriteData, SyncFile, LinkFinal, SyncDir, UnlinkTemp, IInv, TypeOK
  <2> QED  BY <1>1, <2>1, <2>2 DEF Step, EnsureProbes, EnsureMakes, EnsureReopens, PersistOpens,
       CreateTemp, WriteData, SyncFile, LinkFinal, SyncDir, UnlinkTemp, IInv, TypeOK
<1>2. IInv /\ [Next]_vars =>
        [\A w \in Writer : pc'[w] # pc[w] /\ pc'[w] \in {"open", "create"} => root = "private"]_vars
  BY <1>1
<1> QED  BY <1>2, Invariance, PTL DEF Spec, RootIsTrusted

(***************************************************************************)
(* The refinement                                                          *)
(***************************************************************************)
\* A call that has not ended can fail without a trace in the store.
LEMMA RootStepsMap ==
  ASSUME IInv, NEW w \in Writer,
         EnsureProbes(w) \/ EnsureMakes(w) \/ EnsureReopens(w) \/ PersistOpens(w)
  PROVE  [Store!Next]_(Store!vars)
<1> USE DEF rootVars, files, Goto, Answer, At, Works, Errs, Opens
<1>1. final' = final
  BY DEF EnsureProbes, EnsureMakes, EnsureReopens, PersistOpens
<1>2. pc[w] # "done" /\ answer[w] = "none"
  BY DEF EnsureProbes, EnsureMakes, EnsureReopens, PersistOpens, IInv, CallInv
<1>3. \/ answer' = answer /\ rootSynced' = rootSynced
      \/ answer' = answer /\ rootSynced' = FALSE
      \/ answer' = [answer EXCEPT ![w] = "failed"] /\ rootSynced' = rootSynced
  BY DEF EnsureProbes, EnsureMakes, EnsureReopens, PersistOpens
<1>4. CASE answer' = answer /\ rootSynced' = rootSynced
  BY <1>1, <1>4 DEF Store!vars
<1>5. CASE answer' = answer /\ rootSynced' = FALSE
  <2>1. Store!Found
    BY <1>1, <1>5 DEF Store!Found
  <2> QED  BY <2>1 DEF Store!Next
<1>6. CASE answer' = [answer EXCEPT ![w] = "failed"] /\ rootSynced' = rootSynced
  <2>1. Store!Fail(w)
    BY <1>1, <1>2, <1>6 DEF Store!Fail
  <2> QED  BY <2>1 DEF Store!Next
<1> QED  BY <1>3, <1>4, <1>5, <1>6

\* The link puts a bundle in place and the last step answers for it.
LEMMA FileStepsMap ==
  ASSUME IInv, NEW w \in Writer,
         \/ CreateTemp(w) \/ WriteData(w) \/ SyncFile(w) \/ LinkFinal(w)
         \/ SyncDir(w) \/ UnlinkTemp(w) \/ Killed(w)
  PROVE  [Store!Next]_(Store!vars)
<1> USE DEF rootVars, files, Goto, Answer, At, Works, Errs, Opens
<1>1. CASE CreateTemp(w) \/ WriteData(w) \/ SyncFile(w) \/ SyncDir(w) \/ Killed(w)
  BY <1>1 DEF CreateTemp, WriteData, SyncFile, SyncDir, Killed, Store!vars
<1>2. CASE LinkFinal(w)
  <2>1. CASE final' = final
    BY <1>2, <2>1 DEF LinkFinal, Store!vars
  <2>2. CASE final' # final
    <3>1. answer[w] = "none"
      BY <1>2 DEF LinkFinal, IInv, CallInv
    <3>2. BundleOf[w] \in Bundle
      BY BundleAssumption
    <3>3. Store!Place(w, BundleOf[w])
      BY <1>2, <2>2, <3>1 DEF LinkFinal, Store!Place
    <3> QED  BY <3>2, <3>3 DEF Store!Next
  <2> QED  BY <2>1, <2>2
<1>3. CASE UnlinkTemp(w)
  <2>1. answer[w] = "none"
    BY <1>3 DEF UnlinkTemp, IInv, CallInv
  <2>2. outcome[w] \in {"stored", "failed"}
    BY DEF IInv, TypeOK
  <2>3. CASE answer' = [answer EXCEPT ![w] = "failed"]
    <3>1. Store!Fail(w)
      BY <1>3, <2>1, <2>3 DEF UnlinkTemp, Store!Fail
    <3> QED  BY <3>1 DEF Store!Next
  <2>4. CASE outcome[w] = "stored" /\ answer' = [answer EXCEPT ![w] = "stored"]
    <3>1. final[BundleOf[w]] = w /\ BundleOf[w] \in Bundle
      BY <1>3, <2>4, BundleAssumption DEF UnlinkTemp, IInv, CallInv, Ended
    <3>2. Store!Succeed(w)
      BY <1>3, <2>1, <2>4, <3>1 DEF UnlinkTemp, Store!Succeed
    <3> QED  BY <3>2 DEF Store!Next
  <2> QED  BY <1>3, <2>2, <2>3, <2>4 DEF UnlinkTemp
<1> QED  BY <1>1, <1>2, <1>3

\* The power takes no bundle that a successful call stands for, unless it
\* takes the fresh root.
LEMMA PowerLossMaps == IInv /\ IInv' /\ PowerLoss => Store!PowerLoss
<1> SUFFICES ASSUME IInv, IInv', PowerLoss  PROVE Store!PowerLoss
  OBVIOUS
<1>1. rootSynced' = TRUE /\ answer' = answer
  BY DEF PowerLoss
<1>2. DOMAIN final' = Bundle
  BY DEF IInv, TypeOK
<1>3. CASE ~rootSynced /\ final' = [b \in Bundle |-> Nobody]
  BY <1>1, <1>2, <1>3 DEF Store!PowerLoss
<1>4. CASE \A b \in Bundle : final'[b] \in {final[b], finalDisk[b]}
  <2>1. \A b \in Bundle : final'[b] \in {final[b], Nobody}
    BY <1>4 DEF IInv, NameInv
  <2>2. ASSUME NEW b \in Bundle, NEW w \in Writer, final[b] = w, answer[w] = "stored"
        PROVE  final'[b] = w
    <3>1. BundleOf[w] = b
      BY <2>2, WriterAssumption DEF IInv, NameInv
    <3>2. finalDisk[b] = w
      BY <2>2, <3>1 DEF IInv, CallInv
    <3> QED  BY <1>4, <2>2, <3>2
  <2> QED  BY <1>1, <1>2, <2>1, <2>2 DEF Store!PowerLoss
<1> QED  BY <1>3, <1>4 DEF PowerLoss

\* The calls implement the create-only store.
THEOREM CreateOnly == Spec => IsCreateOnly
<1>1. Init => Store!Init
  BY DEF Init, Store!Init
<1>2. ASSUME IInv, IInv', [Next]_vars  PROVE [Store!Next]_(Store!vars)
  <2>1. ASSUME NEW w \in Writer, Step(w)  PROVE [Store!Next]_(Store!vars)
    BY <1>2, <2>1, RootStepsMap, FileStepsMap DEF Step
  <2>2. ASSUME NEW w \in Writer, Killed(w)  PROVE [Store!Next]_(Store!vars)
    BY <1>2, <2>2, FileStepsMap
  <2>3. CASE PowerLoss
    BY <1>2, <2>3, PowerLossMaps DEF Store!Next
  <2>4. CASE OwnerChangesMode \/ UNCHANGED vars
    BY <2>4 DEF OwnerChangesMode, files, vars, Store!vars
  <2> QED  BY <1>2, <2>1, <2>2, <2>3, <2>4 DEF Next
<1> QED  BY <1>1, <1>2, Invariance, PTL DEF Spec, IsCreateOnly, Store!Spec

-----------------------------------------------------------------------------
(***************************************************************************)
(* One success per bundle, and the end of a call                           *)
(***************************************************************************)
\* However many calls persist one bundle at once, at most one of them reports it
\* as stored; the others report the failure that the create-only name stands for.
StoredOnce ==
  \A v, w \in Writer :
    BundleOf[v] = BundleOf[w] /\ answer[v] = "stored" /\ answer[w] = "stored" => v = w \/ rootLost

THEOREM OneSuccessPerBundle == Spec => []StoredOnce
<1>1. StoredSurvives => StoredOnce
  BY DEF StoredSurvives, StoredOnce
<1> QED  BY <1>1, Survives, PTL

\* How many system calls a call may still make, at most.
Left(w) ==
  CASE pc[w] = "ensure" -> 10 [] pc[w] = "mkdir" -> 9 [] pc[w] = "reopen" -> 8
    [] pc[w] = "open" -> 7 [] pc[w] = "create" -> 6 [] pc[w] = "write" -> 5
    [] pc[w] = "sync" -> 4 [] pc[w] = "link" -> 3 [] pc[w] = "syncDir" -> 2
    [] pc[w] = "unlink" -> 1 [] pc[w] \in Ended -> 0

\* A call spends a natural number with each system call, whatever it is answered,
\* and neither the other calls, a kill, a loss of power nor the owner of the root
\* give any of it back.
CallsAdvance ==
  \A w \in Writer :
    /\ Left(w)' \in 0..10 /\ Left(w)' <= Left(w)
    /\ Step(w) => Left(w)' < Left(w)

LEMMA StepMoves ==
  ASSUME TypeOK, NEW w \in Writer, Step(w)
  PROVE  /\ \A v \in Writer : v # w => pc'[v] = pc[v]
         /\ Left(w)' < Left(w)
<1>1. PICK p \in Points : /\ pc' = [pc EXCEPT ![w] = p]
                          /\ \/ pc[w] = "ensure" /\ p \in {"open", "mkdir", "done"}
                             \/ pc[w] = "mkdir" /\ p \in {"reopen", "done"}
                             \/ pc[w] = "reopen" /\ p \in {"open", "done"}
                             \/ pc[w] = "open" /\ p \in {"create", "done"}
                             \/ pc[w] = "create" /\ p \in {"write", "unlink"}
                             \/ pc[w] = "write" /\ p \in {"sync", "unlink"}
                             \/ pc[w] = "sync" /\ p \in {"link", "unlink"}
                             \/ pc[w] = "link" /\ p \in {"syncDir", "unlink"}
                             \/ pc[w] = "syncDir" /\ p = "unlink"
                             \/ pc[w] = "unlink" /\ p = "done"
  BY DEF Step, EnsureProbes, EnsureMakes, EnsureReopens, PersistOpens, CreateTemp, WriteData,
     SyncFile, LinkFinal, SyncDir, UnlinkTemp, Opens, At, Goto, Answer, Points, Ended
<1>2. pc'[w] = p /\ \A v \in Writer : v # w => pc'[v] = pc[v]
  BY <1>1 DEF TypeOK
<1>3. Left(w)' < Left(w)
  BY <1>1, <1>2 DEF Left, Ended
<1> QED  BY <1>2, <1>3

\* A call that stands still or is ended from outside gets nothing back.
LEMMA StandingStill ==
  ASSUME TypeOK, TypeOK', NEW w \in Writer, pc'[w] \in {pc[w], "dead"}
  PROVE  Left(w)' \in 0..10 /\ Left(w)' <= Left(w)
<1>1. Left(w) \in 0..10 /\ Left(w)' \in 0..10
  <2>1. pc[w] \in Points /\ pc'[w] \in Points  BY DEF TypeOK
  <2> QED  BY <2>1 DEF Left, Points, Ended
<1>2. CASE pc'[w] = pc[w]
  <2>1. Left(w)' = Left(w)  BY <1>2 DEF Left
  <2> QED  BY <1>1, <2>1
<1>3. CASE pc'[w] = "dead"
  <2>1. Left(w)' = 0  BY <1>3 DEF Left, Ended
  <2> QED  BY <1>1, <2>1
<1> QED  BY <1>2, <1>3

\* No call can go on for ever, not by losing every race for the root directory or
\* for its final name.
THEOREM CallsCannotRunForever == Spec => [][CallsAdvance]_vars
<1>1. ASSUME IInv, IInv', Next  PROVE CallsAdvance
  <2> SUFFICES ASSUME NEW w \in Writer
               PROVE  /\ Left(w)' \in 0..10 /\ Left(w)' <= Left(w)
                      /\ Step(w) => Left(w)' < Left(w)
    BY DEF CallsAdvance
  <2>1. CASE Step(w)
    <3>1. Left(w) \in 0..10 /\ Left(w)' \in 0..10
      <4>1. pc[w] \in Points /\ pc'[w] \in Points  BY <1>1 DEF IInv, TypeOK
      <4> QED  BY <4>1 DEF Left, Points, Ended
    <3>2. Left(w)' < Left(w)  BY <1>1, <2>1, StepMoves DEF IInv
    <3> QED  BY <3>1, <3>2
  <2>2. CASE ~Step(w)
    <3>1. pc'[w] \in {pc[w], "dead"}
      <4>1. ASSUME NEW v \in Writer, v # w, Step(v)  PROVE pc'[w] = pc[w]
        BY <1>1, <4>1, StepMoves DEF IInv
      <4>2. ASSUME NEW v \in Writer, Killed(v)  PROVE pc'[w] \in {pc[w], "dead"}
        BY <1>1, <4>2 DEF Killed, Goto, IInv, TypeOK
      <4>3. PowerLoss \/ OwnerChangesMode => pc'[w] \in {pc[w], "dead"}
        BY DEF PowerLoss, OwnerChangesMode
      <4> QED  BY <1>1, <2>2, <4>1, <4>2, <4>3 DEF Next
    <3> QED  BY <1>1, <2>2, <3>1, StandingStill DEF IInv
  <2> QED  BY <2>1, <2>2
<1> QED  BY <1>1, Invariance, PTL DEF Spec
=============================================================================
