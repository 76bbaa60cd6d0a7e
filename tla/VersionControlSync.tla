------------------------- MODULE VersionControlSync -------------------------
(***************************************************************************)
(* Flows kept in step with files on one branch of a Git repository: the    *)
(* pulls and pushes of VcSyncService, the ticks of ReconcilerService and   *)
(* the in-memory LockManager of each server process.  A worker is one      *)
(* asynchronous activity of a process, an HTTP request or a tick.  Each    *)
(* await of a pull or push that reads or writes the rows or the repository *)
(* is a step, between which every other worker and the repository may      *)
(* move; what a tick awaits before its walk, and before the pull of a file,*)
(* is one step each.                                                       *)
(*                                                                         *)
(* A file's text and its blob sha are one Content; a commit's sha is its   *)
(* number on the branch.  The files are the texts the exporter writes.     *)
(***************************************************************************)
EXTENDS Integers, Sequences, FiniteSets

CONSTANTS
  Flow, Content, Worker,
  Replica,         \* server processes on one database
  None,
  MaxCommits,      \* bound on the commits of the branch
  MaxOps,          \* bound on the operations users start, saves included
  MaxFaults        \* bound on failing calls and on crashes of a process

ASSUME VcAssumption ==
  /\ None \notin Content
  /\ \A c \in Content \cup {None} : c \notin Nat
  /\ {MaxCommits, MaxOps, MaxFaults} \subseteq Nat
  /\ MaxCommits > 0

VARIABLES
  commits,         \* the branch: the files of each commit
  versions, live,              \* flow_versions and flows.live_version_number
  last, lastVersion,           \* vc_sync_config: last_commit_sha, last_synced_version
  imported,                    \* vc_pull_commits: the version of each pulled blob, 0 for no row
  position,                    \* vc_instance_state.last_instance_commit_sha, 0 for null
  home,                        \* the process each worker belongs to
  held, inFlight,              \* LockManager.held and ReconcilerService.inFlight
  pc, work, walk,              \* what each worker does; the tick it is part of
  ops, faults

db == <<versions, live, last, lastVersion, imported, position>>
mutexes == <<held, inFlight>>
bounds == <<ops, faults>>
vars == <<commits, db, home, mutexes, pc, work, walk, bounds>>

Tip == Len(commits)
File(f) == commits[Tip][f]
Latest(f) == Len(versions[f])
Items(s) == {s[i] : i \in DOMAIN s}

Nothing == [op |-> "none", flows |-> {}, locks |-> {}, sha |-> None, first |-> FALSE,
            text |-> [f \in Flow |-> None], number |-> [f \in Flow |-> 0]]
NoWalk == [head |-> 0, todo |-> {}]

Operation == {"pull", "forcePull", "push", "forcePush", "batch"}
Pushing == {"push", "forcePush", "batch"}
OpStep == {"read", "file", "lookup", "number", "insert", "live", "token",
           "export", "remote", "put", "commit", "config"}
Sha == Content \cup {None} \cup 0..MaxCommits

TypeOK ==
  /\ commits \in Seq([Flow -> Content \cup {None}]) /\ Tip \in 1..MaxCommits
  /\ \A f \in Flow : /\ versions[f] \in Seq(Content)
                     /\ live[f] \in 0..Latest(f) /\ lastVersion[f] \in 0..Latest(f)
                     /\ \A c \in Content : imported[f][c] \in 0..Latest(f)
  /\ last \in [Flow -> Sha] /\ position \in 0..Tip
  /\ home \in [Worker -> Replica]
  /\ held \in [Replica -> SUBSET Flow] /\ inFlight \in [Replica -> BOOLEAN]
  /\ pc \in [Worker -> {"idle", "walk"} \cup OpStep]
  /\ \A p \in Worker : /\ work[p].op \in Operation \cup {"none"}
                       /\ work[p].flows \cup work[p].locks \cup walk[p].todo \subseteq Flow
                       /\ work[p].sha \in Sha
                       /\ walk[p].head \in 0..Tip
  /\ ops \in 0..MaxOps /\ faults \in 0..MaxFaults

(* Every flow has a version and is configured, none has been synchronised. *)
Init ==
  /\ commits \in {<<files>> : files \in [Flow -> Content \cup {None}]}
  /\ versions \in [Flow -> {<<c>> : c \in Content}]
  /\ live = [f \in Flow |-> 0]
  /\ last = [f \in Flow |-> None] /\ lastVersion = [f \in Flow |-> 0]
  /\ imported = [f \in Flow |-> [c \in Content |-> 0]]
  /\ position = 0
  /\ home \in [Worker -> Replica]
  /\ held = [r \in Replica |-> {}] /\ inFlight = [r \in Replica |-> FALSE]
  /\ pc = [p \in Worker |-> "idle"]
  /\ work = [p \in Worker |-> Nothing] /\ walk = [p \in Worker |-> NoWalk]
  /\ ops = 0 /\ faults = 0

-----------------------------------------------------------------------------
(* Locks, and the beginning and the end of an operation.                   *)

MistakenAcquireAll(locks, flows) ==
  IF locks \cap flows = {} THEN locks \cup flows ELSE locks \ flows

(* All of the keys or none: a busy one rolls the others back.              *)
AcquireAll(locks, flows) == IF locks \cap flows = {} THEN locks \cup flows ELSE locks

(* The operation's worker goes on, unless a lock it tries is held.         *)
Begin(p, op, flows, step) ==
  LET locks == IF op \in {"forcePull", "forcePush"} THEN {} ELSE flows
      busy  == locks \cap held[home[p]] # {}
  IN  /\ held' = [held EXCEPT ![home[p]] = AcquireAll(@, locks)]
      /\ pc' = IF busy THEN pc ELSE [pc EXCEPT ![p] = step]
      /\ work' = IF busy THEN work
                 ELSE [work EXCEPT ![p] = [Nothing EXCEPT !.op = op, !.flows = flows,
                                                          !.locks = locks]]

Continue(p, step) == pc' = [pc EXCEPT ![p] = step]

Finish(p) ==
  /\ held' = [held EXCEPT ![home[p]] = @ \ work[p].locks]
  /\ pc' = [pc EXCEPT ![p] = IF walk[p].head # 0 THEN "walk" ELSE "idle"]
  /\ work' = [work EXCEPT ![p] = Nothing]

TheFlow(p) == CHOOSE f \in work[p].flows : TRUE

-----------------------------------------------------------------------------
(* Pull and force-pull.                                                    *)

(* A pull and a push begin with the configuration of their flow, and go by *)
(* the sha they found there; the force operations do not look at it.       *)
ReadConfig(p) ==
  LET f == TheFlow(p) IN
  /\ pc[p] = "read"
  /\ work' = [work EXCEPT ![p].sha = last[f], ![p].first = work[p].op = "push" /\ last[f] = None]
  /\ Continue(p, IF work[p].op = "pull" THEN "file" ELSE "export")
  /\ UNCHANGED <<commits, db, home, mutexes, walk, bounds>>

(* What it knows of the configuration is not used again.                   *)
ReadFile(p) ==
  LET f == TheFlow(p)  c == File(f) IN
  /\ pc[p] = "file"
  /\ IF c = None \/ (work[p].op = "pull" /\ work[p].sha = c)
     THEN Finish(p)
     ELSE /\ Continue(p, IF work[p].op = "pull" THEN "lookup" ELSE "number")
          /\ work' = [work EXCEPT ![p].text[f] = c, ![p].sha = None]
          /\ UNCHANGED held
  /\ UNCHANGED <<commits, db, home, inFlight, walk, bounds>>

(* A blob that has been imported before is not imported again.             *)
LookUpToken(p) ==
  LET f == TheFlow(p) IN
  /\ pc[p] = "lookup"
  /\ Continue(p, IF imported[f][work[p].text[f]] # 0 THEN "config" ELSE "number")
  /\ UNCHANGED <<commits, db, home, mutexes, work, walk, bounds>>

ReadNumber(p) ==
  LET f == TheFlow(p) IN
  /\ pc[p] = "number"
  /\ Continue(p, "insert")
  /\ work' = [work EXCEPT ![p].number[f] = Latest(f) + 1]
  /\ UNCHANGED <<commits, db, home, mutexes, walk, bounds>>

MistakenInsertVersion(p) ==
  LET f == TheFlow(p) IN
  /\ pc[p] = "insert"
  /\ versions' = IF work[p].number[f] = Latest(f) + 1
                 THEN [versions EXCEPT ![f] = Append(@, work[p].text[f])] ELSE versions
  /\ Continue(p, "live")
  /\ UNCHANGED <<commits, live, last, lastVersion, imported, position, home, mutexes,
                 work, walk, bounds>>

(* The key of flow_versions is the flow and the number.                    *)
InsertVersion(p) ==
  LET f == TheFlow(p) IN
  /\ pc[p] = "insert"
  /\ IF work[p].number[f] = Latest(f) + 1
     THEN /\ versions' = [versions EXCEPT ![f] = Append(@, work[p].text[f])]
          /\ Continue(p, "live")
          /\ UNCHANGED <<held, work>>
     ELSE Finish(p) /\ UNCHANGED versions
  /\ UNCHANGED <<commits, live, last, lastVersion, imported, position, home, inFlight,
                 walk, bounds>>

(* The version becomes the live one.  A force-pull has no token and does   *)
(* not tell the configuration the version.                                 *)
MakeLive(p) ==
  LET f == TheFlow(p) IN
  /\ pc[p] = "live"
  /\ live' = [live EXCEPT ![f] = work[p].number[f]]
  /\ IF work[p].op = "forcePull"
     THEN work' = [work EXCEPT ![p].number[f] = 0] /\ Continue(p, "config")
     ELSE Continue(p, "token") /\ UNCHANGED work
  /\ UNCHANGED <<commits, versions, last, lastVersion, imported, position, home, mutexes,
                 walk, bounds>>

(* A pull puts in its token: the key of vc_pull_commits is the flow and    *)
(* the blob.                                                               *)
InsertToken(p) ==
  LET f == TheFlow(p)  c == work[p].text[f] IN
  /\ pc[p] = "token"
  /\ IF imported[f][c] = 0
     THEN /\ imported' = [imported EXCEPT ![f][c] = work[p].number[f]]
          /\ Continue(p, "config") /\ UNCHANGED <<work, held>>
     ELSE Finish(p) /\ UNCHANGED imported
  /\ UNCHANGED <<commits, versions, live, last, lastVersion, position, home, inFlight, walk,
                 bounds>>

-----------------------------------------------------------------------------
(* Push, force-push and batch push.                                        *)

MistakenTakesAny(p) == work[p].op \in Pushing

(* A batch asks for the head of the branch; a force-push, and the first    *)
(* push of a flow, for the file as it is.                                  *)
TakesAny(p) == work[p].op \in {"forcePush", "batch"} \/ work[p].sha = None

(* The newest version of the flow, or of one after the other of a batch.   *)
Export(p) ==
  /\ pc[p] = "export"
  /\ \E f \in work[p].flows :
       /\ work[p].number[f] = 0
       /\ work' = [work EXCEPT ![p].text[f] = versions[f][Latest(f)],
                               ![p].number[f] = Latest(f)]
       /\ Continue(p, IF \E g \in work[p].flows \ {f} : work[p].number[g] = 0 THEN "export"
                      ELSE IF TakesAny(p) THEN "remote" ELSE "put")
  /\ UNCHANGED <<commits, db, home, mutexes, walk, bounds>>

ReadRemote(p) ==
  /\ pc[p] = "remote"
  /\ IF work[p].op = "batch"
     THEN work' = [work EXCEPT ![p].sha = Tip] /\ Continue(p, "commit")
     ELSE work' = [work EXCEPT ![p].sha = File(TheFlow(p))] /\ Continue(p, "put")
  /\ UNCHANGED <<commits, db, home, mutexes, walk, bounds>>

Commit(p) ==
  /\ commits' = Append(commits, [f \in Flow |-> IF f \in work[p].flows THEN work[p].text[f]
                                                ELSE File(f)])
  /\ Continue(p, "config")

(* The repository replaces the file if it has the sha the request names;   *)
(* the answer has the sha of the commit.                                   *)
Put(p) ==
  /\ pc[p] = "put"
  /\ IF work[p].sha = File(TheFlow(p))
     THEN /\ Commit(p)
          /\ work' = [work EXCEPT ![p].sha = Tip + 1]
          /\ UNCHANGED held
     ELSE Finish(p) /\ UNCHANGED commits
  /\ UNCHANGED <<db, home, inFlight, walk, bounds>>

(* One commit for all of the files, on top of the head that was read.      *)
TreeCommit(p) ==
  /\ pc[p] = "commit"
  /\ IF work[p].sha = Tip
     THEN Commit(p) /\ UNCHANGED <<held, work>>
     ELSE Finish(p) /\ UNCHANGED commits
  /\ UNCHANGED <<db, home, inFlight, walk, bounds>>

-----------------------------------------------------------------------------
(* What an operation tells the configuration of a flow: the blob, and      *)
(* after a push or force-push the commit; the version, if there is one.    *)

MistakenSyncedSha(p, f) == IF work[p].op \in {"push", "forcePush"} THEN work[p].sha ELSE File(f)

SyncedSha(p, f) == IF work[p].op \in {"push", "forcePush"} THEN work[p].sha ELSE work[p].text[f]

UpdateConfig(p) ==
  /\ pc[p] = "config"
  /\ \E f \in work[p].flows :
       /\ last' = [last EXCEPT ![f] = SyncedSha(p, f)]
       /\ lastVersion' = IF work[p].number[f] # 0
                         THEN [lastVersion EXCEPT ![f] = work[p].number[f]] ELSE lastVersion
       /\ IF work[p].flows = {f} THEN Finish(p)
          ELSE work' = [work EXCEPT ![p].flows = @ \ {f}] /\ UNCHANGED <<held, pc>>
  /\ UNCHANGED <<commits, versions, live, imported, position, home, inFlight, walk, bounds>>

(* A call to the repository or the database throws.                        *)
OpFails(p) ==
  /\ pc[p] \in OpStep /\ faults < MaxFaults
  /\ faults' = faults + 1
  /\ Finish(p)
  /\ UNCHANGED <<commits, db, home, inFlight, walk, ops>>

-----------------------------------------------------------------------------
(* A tick of the reconciler.                                               *)

(* The mutex is taken, the head of the branch and the position are read    *)
(* and, if they differ, the files at that head are listed.                 *)
StartTick(p) ==
  /\ pc[p] = "idle" /\ ~inFlight[home[p]]
  /\ inFlight' = [inFlight EXCEPT ![home[p]] = TRUE]
  /\ walk' = [walk EXCEPT ![p] =
       [head |-> Tip,
        todo |-> IF position = Tip THEN {} ELSE {f \in Flow : File(f) # None}]]
  /\ Continue(p, "walk")
  /\ UNCHANGED <<commits, db, home, held, work, bounds>>

(* The file is read at the branch, not at the head of the tick.  A pull    *)
(* that finds the flow locked is an error of this file only.               *)
ReconcileFile(p) ==
  /\ pc[p] = "walk"
  /\ \E f \in walk[p].todo :
       /\ walk' = [walk EXCEPT ![p].todo = @ \ {f}]
       /\ IF last[f] = File(f) THEN UNCHANGED <<held, pc, work>>
          ELSE Begin(p, "pull", {f}, "read")
  /\ UNCHANGED <<commits, db, home, inFlight, bounds>>

MistakenTickOver(p) ==
  /\ pc' = [pc EXCEPT ![p] = "idle"]
  /\ walk' = [walk EXCEPT ![p] = NoWalk]
  /\ inFlight' = [inFlight EXCEPT ![home[p]] = pc[p] # "walk"]

TickOver(p) ==
  /\ pc' = [pc EXCEPT ![p] = "idle"]
  /\ walk' = [walk EXCEPT ![p] = NoWalk]
  /\ inFlight' = [inFlight EXCEPT ![home[p]] = FALSE]

NotePosition(p) ==
  /\ pc[p] = "walk" /\ walk[p].todo = {}
  /\ position' = walk[p].head
  /\ TickOver(p)
  /\ UNCHANGED <<commits, versions, live, last, lastVersion, imported, home, held, work,
                 bounds>>

(* The branch, the row or the tree of a tick that begins cannot be read,   *)
(* or the row not written in the end.                                      *)
TickFails(p) ==
  /\ \/ pc[p] = "idle" /\ ~inFlight[home[p]]
     \/ pc[p] = "walk" /\ walk[p].todo = {}
  /\ faults < MaxFaults
  /\ faults' = faults + 1
  /\ position' = 0
  /\ TickOver(p)
  /\ UNCHANGED <<commits, versions, live, last, lastVersion, imported, home, held, work,
                 ops>>

-----------------------------------------------------------------------------
(* Users, the repository and the processes.                                *)

(* The commits of the branch and those that pushes under way may add.      *)
MayCommit == Tip + Cardinality({p \in Worker : work[p].op \in Pushing}) < MaxCommits

Request(p) ==
  /\ pc[p] = "idle" /\ ops < MaxOps
  /\ ops' = ops + 1
  /\ \/ \E f \in Flow : \/ Begin(p, "pull", {f}, "read")
                        \/ Begin(p, "forcePull", {f}, "file")
                        \/ MayCommit /\ Begin(p, "push", {f}, "read")
                        \/ MayCommit /\ Begin(p, "forcePush", {f}, "export")
     \/ \E flows \in (SUBSET Flow) \ {{}} : MayCommit /\ Begin(p, "batch", flows, "export")
  /\ UNCHANGED <<commits, db, home, inFlight, walk, faults>>

Save(f, c) ==
  /\ ops < MaxOps
  /\ ops' = ops + 1
  /\ versions' = [versions EXCEPT ![f] = Append(@, c)]
  /\ UNCHANGED <<commits, live, last, lastVersion, imported, position, home, mutexes, pc,
                 work, walk, faults>>

OthersCommit(f, c) ==
  /\ MayCommit /\ c # File(f)
  /\ commits' = Append(commits, [commits[Tip] EXCEPT ![f] = c])
  /\ UNCHANGED <<db, home, mutexes, pc, work, walk, bounds>>

Crash(r) ==
  /\ faults < MaxFaults
  /\ faults' = faults + 1
  /\ held' = [held EXCEPT ![r] = {}] /\ inFlight' = [inFlight EXCEPT ![r] = FALSE]
  /\ pc' = [p \in Worker |-> IF home[p] = r THEN "idle" ELSE pc[p]]
  /\ work' = [p \in Worker |-> IF home[p] = r THEN Nothing ELSE work[p]]
  /\ walk' = [p \in Worker |-> IF home[p] = r THEN NoWalk ELSE walk[p]]
  /\ UNCHANGED <<commits, db, home, ops>>

OpNext(p) ==
  \/ ReadConfig(p) \/ ReadFile(p) \/ LookUpToken(p) \/ ReadNumber(p) \/ InsertVersion(p)
  \/ MakeLive(p) \/ InsertToken(p) \/ Export(p) \/ ReadRemote(p) \/ Put(p) \/ TreeCommit(p) \/ UpdateConfig(p)

TickNext(p) ==
  \/ StartTick(p) \/ ReconcileFile(p) \/ NotePosition(p)

Next ==
  \/ \E p \in Worker : OpNext(p) \/ TickNext(p) \/ OpFails(p) \/ TickFails(p) \/ Request(p)
  \/ \E f \in Flow, c \in Content : Save(f, c) \/ OthersCommit(f, c)
  \/ \E r \in Replica : Crash(r)

Spec == Init /\ [][Next]_vars

(* A worker that has begun goes on, and the interval timer starts ticks.   *)
FairSpec == Spec /\ \A p \in Worker : WF_vars(OpNext(p) \/ TickNext(p))

-----------------------------------------------------------------------------

(***************************************************************************)
(* In one process no two operations that take a flow's lock work on it at  *)
(* the same time, and none goes on after somebody else gave up its lock,   *)
(* whichever of pull, push, batch and tick succeed, fail or find a lock    *)
(* taken (LockManager, withMultipleTryLocks).                              *)
(***************************************************************************)
OneHolder ==
  \A p \in Worker :
    /\ work[p].locks \subseteq held[home[p]]
    /\ \A q \in Worker \ {p} :
         home[p] = home[q] => work[p].locks \cap work[q].locks = {}

(***************************************************************************)
(* A row of vc_pull_commits names a version that has the text of its blob, *)
(* although the version is inserted and numbered before the row, saves and *)
(* other processes' pulls come in between, and either may crash            *)
(* (importFlowContent).                                                    *)
(***************************************************************************)
TokensNameTheirVersion ==
  \A f \in Flow, c \in Content :
    imported[f][c] # 0 => versions[f][imported[f][c]] = c

(***************************************************************************)
(* What the configuration says a flow was last synchronised with, a blob   *)
(* or a commit, is a text that some version of the flow has: no operation, *)
(* failure, crash or second process makes the instance believe that it has *)
(* taken in a file it never imported (updateConfigAfterSync).              *)
(***************************************************************************)
ConfigNamesAVersion ==
  \A f \in Flow :
    /\ last[f] \in Content => last[f] \in Items(versions[f])
    /\ last[f] \in 1..MaxCommits => commits[last[f]][f] \in Items(versions[f])

(***************************************************************************)
(* A plain push of a flow that has been synchronised before replaces only  *)
(* a text the instance has a version of: what others committed and nobody  *)
(* pulled is not lost (directCommit).  The first push, a force-push and a  *)
(* batch push give no such promise.                                        *)
(***************************************************************************)
PushLosesNothing ==
  [][\A p \in Worker :
       (pc[p] = "put" /\ pc'[p] = "config" /\ work[p].op = "push" /\ ~work[p].first)
         => File(TheFlow(p)) \in Items(versions[TheFlow(p)])]_vars

(***************************************************************************)
(* When the branch has come to rest, the recorded position ends up at its  *)
(* head and stays there, whatever ticks overlapped, failed or were lost in *)
(* a crash and whatever older position a slow one wrote (tick).            *)
(***************************************************************************)
PositionReachesHead == <>[](position = Tip)

(***************************************************************************)
(* When no operation or tick is under way, a flow whose configuration      *)
(* names the file at the head of the branch, and whose newest version is   *)
(* the one synchronised last, runs the text of that file (reconciler.ts,   *)
(* "the primary correctness path for keeping the instance in sync").       *)
(***************************************************************************)
InSync ==
  (\A p \in Worker : pc[p] = "idle") =>
    \A f \in Flow :
      (last[f] # None /\ last[f] = File(f) /\ lastVersion[f] = Latest(f))
        => versions[f][Latest(f)] = File(f)
=============================================================================
