---------------------------- MODULE BundleStore ----------------------------
(***************************************************************************)
(* The evidence store: `verify static' processes that each persist one     *)
(* bundle into one root directory.  A step is one system call; processes   *)
(* interleave, are killed, meet errors, and the machine loses power.  A    *)
(* file or a directory entry is sure to survive that only once synced.     *)
(***************************************************************************)
EXTENDS Naturals

CONSTANTS
  Writer,       \* the calls of static_verify, a rerun being a call of its own
  Bundle,       \* contents, each with a canonical hash of its own
  BundleOf,     \* the bundle each call persists
  Nobody,
  MaxCrashes    \* bound on the losses of power

ASSUME WriterAssumption == Nobody \notin Writer
ASSUME BundleAssumption == BundleOf \in [Writer -> Bundle]
ASSUME CrashAssumption == MaxCrashes \in Nat

VARIABLES
  root,         \* what is at the root path: "absent", "private" or "unsafe"
  rootSynced,   \* the root's own entry in its parent is on disk
  rootLost,     \* a loss of power took the root away
  temp,         \* calls whose temporary name is in the root
  content,      \* what the call's temporary file holds
  synced,       \* calls whose file content is on disk
  final,        \* whose file a bundle's final name links
  finalDisk,    \* the same, on disk
  pc, outcome, answer,
  faulty,       \* calls one of whose system calls met an error of its own
  crashes

vars == <<root, rootSynced, rootLost, temp, content, synced, final, finalDisk,
          pc, outcome, answer, faulty, crashes>>
rootVars == <<root, rootSynced, rootLost>>
files == <<temp, content, synced, final, finalDisk>>

Ended == {"done", "dead"}
Points == {"ensure", "mkdir", "reopen", "open", "create", "write", "sync", "link",
           "syncDir", "unlink"} \cup Ended

Init ==
  /\ root \in {"absent", "private", "unsafe"}
  /\ rootSynced = TRUE /\ rootLost = FALSE
  /\ temp = {} /\ content = [w \in Writer |-> "none"] /\ synced = {}
  /\ final = [b \in Bundle |-> Nobody] /\ finalDisk = final
  /\ pc = [w \in Writer |-> "ensure"]
  /\ outcome = [w \in Writer |-> "failed"]
  /\ answer = [w \in Writer |-> "none"]
  /\ faulty = {}
  /\ crashes = 0

At(w, p) == pc[w] = p
Goto(w, p) == pc' = [pc EXCEPT ![w] = p] /\ UNCHANGED <<outcome, answer, crashes>>
Answer(w, r) ==
  /\ pc' = [pc EXCEPT ![w] = "done"]
  /\ answer' = [answer EXCEPT ![w] = r]
  /\ UNCHANGED <<outcome, crashes>>

\* A system call of w succeeds or is refused for what it finds, or it fails on
\* its own account: a disk that is full, a descriptor too many, an I/O error.
Works == UNCHANGED faulty
Errs(w) == faulty' = faulty \cup {w}

(***************************************************************************)
(* _open_evidence_root: by ensure_safe_evidence_root, which may create the *)
(* directory, and again by persist_bundle, which may not.                  *)
(***************************************************************************)
EnsureProbes(w) ==
  /\ At(w, "ensure")
  /\ \/ root = "private" /\ Goto(w, "open") /\ Works
     \/ root = "absent" /\ Goto(w, "mkdir") /\ Works
     \/ root = "unsafe" /\ Answer(w, "failed") /\ Works
     \/ Answer(w, "failed") /\ Errs(w)
  /\ UNCHANGED <<rootVars, files>>

\* Deviation: the loser of the race for the directory gives up.
EnsureMakesOrFails(w) ==
  /\ At(w, "mkdir")
  /\ IF root = "absent"
     THEN \/ root' = "private" /\ rootSynced' = FALSE /\ Goto(w, "reopen") /\ Works
          \/ Answer(w, "failed") /\ Errs(w) /\ UNCHANGED <<root, rootSynced>>
     ELSE Answer(w, "failed") /\ Works /\ UNCHANGED <<root, rootSynced>>
  /\ UNCHANGED <<rootLost, files>>

\* EEXIST means that a concurrent creator won; its directory is looked at next.
EnsureMakes(w) ==
  /\ At(w, "mkdir")
  /\ IF root = "absent"
     THEN \/ root' = "private" /\ rootSynced' = FALSE /\ Goto(w, "reopen") /\ Works
          \/ Answer(w, "failed") /\ Errs(w) /\ UNCHANGED <<root, rootSynced>>
     ELSE Goto(w, "reopen") /\ Works /\ UNCHANGED <<root, rootSynced>>
  /\ UNCHANGED <<rootLost, files>>

Opens(w, next) ==
  /\ \/ root = "private" /\ Goto(w, next) /\ Works
     \/ root # "private" /\ Answer(w, "failed") /\ Works
     \/ Answer(w, "failed") /\ Errs(w)
  /\ UNCHANGED <<rootVars, files>>

EnsureReopens(w) == At(w, "reopen") /\ Opens(w, "open")

\* Deviation: the directory is taken as ensure_safe_evidence_root left it.
PersistTrusts(w) ==
  /\ At(w, "open") /\ Goto(w, "create") /\ Works
  /\ UNCHANGED <<rootVars, files>>

PersistOpens(w) == At(w, "open") /\ Opens(w, "create")

(***************************************************************************)
(* persist_bundle                                                          *)
(***************************************************************************)
CreateTemp(w) ==
  /\ At(w, "create")
  /\ \/ /\ temp' = temp \cup {w}
        /\ content' = [content EXCEPT ![w] = "part"]
        /\ Goto(w, "write") /\ Works
     \/ Goto(w, "unlink") /\ Errs(w) /\ UNCHANGED <<temp, content>>
  /\ UNCHANGED <<rootVars, synced, final, finalDisk>>

WriteData(w) ==
  /\ At(w, "write")
  /\ \/ content' = [content EXCEPT ![w] = "full"] /\ Goto(w, "sync") /\ Works
     \/ Goto(w, "unlink") /\ Errs(w) /\ UNCHANGED content
  /\ UNCHANGED <<rootVars, temp, synced, final, finalDisk>>

\* Deviation: the file is flushed but not synced.
SyncNothing(w) ==
  /\ At(w, "sync") /\ Goto(w, "link") /\ Works
  /\ UNCHANGED <<rootVars, files>>

SyncFile(w) ==
  /\ At(w, "sync")
  /\ \/ synced' = synced \cup {w} /\ Goto(w, "link") /\ Works
     \/ Goto(w, "unlink") /\ Errs(w) /\ UNCHANGED synced
  /\ UNCHANGED <<rootVars, temp, content, final, finalDisk>>

\* Deviation: the final name is made by a rename, which replaces.
RenameFinal(w) ==
  /\ At(w, "link")
  /\ final' = [final EXCEPT ![BundleOf[w]] = w]
  /\ Goto(w, "syncDir") /\ Works
  /\ UNCHANGED <<rootVars, temp, content, synced, finalDisk>>

\* A taken name is an error like any other, so the call goes on to its cleanup.
LinkFinal(w) ==
  /\ At(w, "link")
  /\ \/ /\ final[BundleOf[w]] = Nobody
        /\ final' = [final EXCEPT ![BundleOf[w]] = w]
        /\ Goto(w, "syncDir") /\ Works
     \/ final[BundleOf[w]] # Nobody /\ Goto(w, "unlink") /\ Works /\ UNCHANGED final
     \/ Goto(w, "unlink") /\ Errs(w) /\ UNCHANGED final
  /\ UNCHANGED <<rootVars, temp, content, synced, finalDisk>>

\* Deviation: success does not wait for the directory.
SyncDirSkipped(w) ==
  /\ At(w, "syncDir")
  /\ pc' = [pc EXCEPT ![w] = "unlink"]
  /\ outcome' = [outcome EXCEPT ![w] = "stored"]
  /\ UNCHANGED <<rootVars, files, answer, faulty, crashes>>

SyncDir(w) ==
  /\ At(w, "syncDir")
  /\ pc' = [pc EXCEPT ![w] = "unlink"]
  /\ \/ outcome' = [outcome EXCEPT ![w] = "stored"] /\ finalDisk' = final /\ Works
     \/ finalDisk' \in {finalDisk, final} /\ Errs(w) /\ UNCHANGED outcome
  /\ UNCHANGED <<rootVars, temp, content, synced, final, answer, crashes>>

\* The finally clause; its own failure replaces the outcome.
UnlinkTemp(w) ==
  /\ At(w, "unlink")
  /\ \/ temp' = temp \ {w} /\ Answer(w, outcome[w]) /\ Works
     \/ Answer(w, "failed") /\ Errs(w) /\ UNCHANGED temp
  /\ UNCHANGED <<rootVars, content, synced, final, finalDisk>>

Step(w) ==
  \/ EnsureProbes(w) \/ EnsureMakes(w) \/ EnsureReopens(w) \/ PersistOpens(w)
  \/ CreateTemp(w) \/ WriteData(w) \/ SyncFile(w) \/ LinkFinal(w) \/ SyncDir(w)
  \/ UnlinkTemp(w)

(***************************************************************************)
(* The machine and its owner                                               *)
(***************************************************************************)
Killed(w) ==
  /\ pc[w] \notin Ended
  /\ Goto(w, "dead")
  /\ UNCHANGED <<rootVars, files, faulty>>

\* What is not synced may be lost or torn, and a removed name may come back.
PowerLoss ==
  /\ crashes < MaxCrashes
  /\ crashes' = crashes + 1
  /\ pc' = [w \in Writer |-> IF pc[w] \in Ended \cup {"ensure"} THEN pc[w] ELSE "dead"]
  /\ \/ /\ final' \in [Bundle -> Writer \cup {Nobody}]
        /\ \A b \in Bundle : final'[b] \in {final[b], finalDisk[b]}
        /\ temp' \in SUBSET {w \in Writer : content[w] # "none"}
        /\ UNCHANGED <<root, rootLost>>
     \/ /\ ~rootSynced
        /\ root' = "absent" /\ rootLost' = TRUE /\ temp' = {}
        /\ final' = [b \in Bundle |-> Nobody]
  /\ finalDisk' = final'
  /\ rootSynced' = TRUE
  /\ \E torn \in SUBSET {w \in Writer \ synced : content[w] = "full"} :
       content' = [w \in Writer |-> IF w \in torn THEN "part" ELSE content[w]]
  /\ UNCHANGED <<synced, outcome, answer, faulty>>

OwnerChangesMode ==
  /\ root # "absent"
  /\ root' \in {"private", "unsafe"}
  /\ UNCHANGED <<rootSynced, rootLost, files, pc, outcome, answer, faulty, crashes>>

Next == (\E w \in Writer : Step(w) \/ Killed(w)) \/ PowerLoss \/ OwnerChangesMode

Spec == Init /\ [][Next]_vars
-----------------------------------------------------------------------------
\* Every variable keeps its type.
TypeOK ==
  /\ root \in {"absent", "private", "unsafe"}
  /\ rootSynced \in BOOLEAN /\ rootLost \in BOOLEAN
  /\ temp \subseteq Writer /\ synced \subseteq Writer
  /\ content \in [Writer -> {"none", "part", "full"}]
  /\ final \in [Bundle -> Writer \cup {Nobody}] /\ finalDisk \in [Bundle -> Writer \cup {Nobody}]
  /\ pc \in [Writer -> Points]
  /\ outcome \in [Writer -> {"stored", "failed"}]
  /\ answer \in [Writer -> {"none", "stored", "failed"}]
  /\ faulty \subseteq Writer
  /\ crashes \in 0..MaxCrashes

\* A bundle's name never stands for a torn or foreign file, at whatever point
\* its writer was killed or the power went.
StoredIsComplete ==
  \A b \in Bundle : final[b] # Nobody =>
    final[b] \in Writer /\ BundleOf[final[b]] = b /\ content[final[b]] = "full"

\* A bundle reported as stored is there for good, killed processes, failed
\* reruns and losses of power notwithstanding - except when the power takes
\* the root directory itself, whose own entry nobody synced.
StoredSurvives ==
  \A w \in Writer : answer[w] = "stored" => final[BundleOf[w]] = w \/ rootLost

\* No call fails because of the others but for the one reason the store has: a
\* failure is reported only by a call that met an error of its own, that found no
\* private root where it looked for one, or whose bundle another call has put in
\* place.  A lost race for the root directory is no reason.
FailsForCause ==
  [][\A w \in Writer : answer[w] = "none" /\ answer'[w] = "failed" =>
       \/ w \in faulty'
       \/ pc[w] \in {"ensure", "reopen", "open"} /\ root # "private"
       \/ final[BundleOf[w]] \notin {Nobody, w}]_vars

\* Whoever made the root, and whatever an earlier look found, a call goes on from
\* it only while its mode is private: "never trust the path it supplied"
\* (_open_evidence_root).
RootIsTrusted ==
  [][\A w \in Writer : pc'[w] # pc[w] /\ pc'[w] \in {"open", "create"} => root = "private"]_vars

\* The calls together are the create-only store, with its final names as the
\* bundles in place and the fresh root as its fragility.
Store == INSTANCE CreateOnlyStore WITH holder <- final, fragile <- ~rootSynced
IsCreateOnly == Store!Spec
=============================================================================
