---------------------- MODULE VersionControlSyncProofs ----------------------
(***************************************************************************)
(* The safety of the synchronisation for every set of flows, texts,        *)
(* workers and processes and every bound.                                  *)
(***************************************************************************)
EXTENDS VersionControlSync, SequenceTheorems, TLAPS

Work == [op : Operation \cup {"none"}, flows : SUBSET Flow, locks : SUBSET Flow,
         sha : Content \cup {None} \cup Nat, first : BOOLEAN,
         text : [Flow -> Content \cup {None}], number : [Flow -> Nat]]

(* The types, without the bounds.                                          *)
Types ==
  /\ commits \in Seq([Flow -> Content \cup {None}]) /\ Tip >= 1
  /\ versions \in [Flow -> Seq(Content)] /\ \A f \in Flow : Latest(f) >= 1
  /\ last \in [Flow -> Content \cup {None} \cup Nat]
  /\ imported \in [Flow -> [Content -> Nat]]
  /\ home \in [Worker -> Replica]
  /\ held \in [Replica -> SUBSET Flow]
  /\ pc \in [Worker -> {"idle", "walk"} \cup OpStep]
  /\ work \in [Worker -> Work]
  /\ walk \in [Worker -> [head : Nat, todo : SUBSET Flow]]

(* An operation in progress has a flow, and only it has locks.             *)
Working ==
  \A p \in Worker : /\ pc[p] \in OpStep => work[p].flows # {}
                    /\ pc[p] \notin OpStep => work[p] = Nothing

LEMMA NothingType == Nothing \in Work
  BY DEF Nothing, Work, Operation

LEMMA FlowOf ==
  ASSUME Types, NEW p \in Worker, work[p].flows # {}
  PROVE  TheFlow(p) \in work[p].flows /\ TheFlow(p) \in Flow
<1>1. work[p].flows \subseteq Flow
  BY DEF Types, Work
<1>2. \E f \in work[p].flows : TRUE
  OBVIOUS
<1>3. TheFlow(p) \in work[p].flows
  BY <1>2, Zenon DEF TheFlow
<1>4. QED  BY <1>1, <1>3

LEMMA TipType ==
  ASSUME Types
  PROVE  /\ Tip \in Nat \ {0}
         /\ commits[Tip] \in [Flow -> Content \cup {None}]
         /\ \A f \in Flow : File(f) \in Content \cup {None}
         /\ \A f \in Flow : Latest(f) \in Nat \ {0} /\ versions[f][Latest(f)] \in Content
<1>1. Tip \in Nat \ {0} /\ commits[Tip] \in [Flow -> Content \cup {None}]
  BY DEF Types, Tip
<1>2. \A f \in Flow : Latest(f) \in Nat \ {0} /\ versions[f][Latest(f)] \in Content
  BY DEF Types, Latest
<1>3. QED  BY <1>1, <1>2 DEF File

LEMMA BeginType ==
  ASSUME Types, Working, NEW p \in Worker, pc[p] \notin OpStep, NEW op \in Operation,
         NEW flows \in SUBSET Flow, flows # {}, NEW step \in OpStep,
         Begin(p, op, flows, step)
  PROVE  /\ held' \in [Replica -> SUBSET Flow]
         /\ pc' \in [Worker -> {"idle", "walk"} \cup OpStep]
         /\ work' \in [Worker -> Work]
         /\ \A q \in Worker : /\ pc'[q] \in OpStep => work'[q].flows # {}
                              /\ pc'[q] \notin OpStep => work'[q] = Nothing
<1> DEFINE locks == IF op \in {"forcePull", "forcePush"} THEN {} ELSE flows
           new == [Nothing EXCEPT !.op = op, !.flows = flows, !.locks = locks]
<1>1. new \in Work /\ new.flows = flows
  BY NothingType DEF Nothing, Work
<1>2. held' = [held EXCEPT ![home[p]] = AcquireAll(@, locks)]
  BY DEF Begin
<1>3. held' \in [Replica -> SUBSET Flow]
  BY <1>2 DEF Types, AcquireAll
<1>4. CASE locks \cap held[home[p]] # {}
  <2>1. pc' = pc /\ work' = work
    BY <1>4 DEF Begin
  <2>2. QED  BY <1>3, <2>1 DEF Types, Working
<1>5. CASE locks \cap held[home[p]] = {}
  <2>1. pc' = [pc EXCEPT ![p] = step] /\ work' = [work EXCEPT ![p] = new]
    BY <1>5 DEF Begin
  <2>2. QED  BY <1>1, <1>3, <2>1 DEF Types, Working
<1>6. QED  BY <1>4, <1>5

LEMMA FinishType ==
  ASSUME Types, Working, NEW p \in Worker, Finish(p)
  PROVE  /\ held' \in [Replica -> SUBSET Flow]
         /\ pc' \in [Worker -> {"idle", "walk"} \cup OpStep]
         /\ work' \in [Worker -> Work]
         /\ \A q \in Worker : /\ pc'[q] \in OpStep => work'[q].flows # {}
                              /\ pc'[q] \notin OpStep => work'[q] = Nothing
<1>1. held' \in [Replica -> SUBSET Flow]
  BY DEF Finish, Types
<1>2. pc' = [pc EXCEPT ![p] = IF walk[p].head # 0 THEN "walk" ELSE "idle"]
      /\ work' = [work EXCEPT ![p] = Nothing]
  BY DEF Finish
<1>3. QED  BY <1>1, <1>2, NothingType DEF Types, Working, OpStep

-----------------------------------------------------------------------------
(* Types and Working are inductive.                                        *)

LEMMA InitTypes == Init => Types /\ Working
<1> SUFFICES ASSUME Init PROVE Types /\ Working
  OBVIOUS
<1>1. PICK files \in [Flow -> Content \cup {None}] : commits = <<files>>
  BY DEF Init
<1>2. commits \in Seq([Flow -> Content \cup {None}]) /\ Tip >= 1
  BY <1>1 DEF Tip
<1>3. versions \in [Flow -> Seq(Content)] /\ \A f \in Flow : Latest(f) >= 1
  <2>1. \A f \in Flow : \E c \in Content : versions[f] = <<c>>
    BY DEF Init
  <2>2. ASSUME NEW f \in Flow PROVE versions[f] \in Seq(Content) /\ Latest(f) >= 1
    <3>1. PICK c \in Content : versions[f] = <<c>>
      BY <2>1
    <3>2. QED  BY <3>1 DEF Latest
  <2>3. versions \in [Flow -> {<<c>> : c \in Content}]
    BY DEF Init
  <2>4. QED  BY <2>2, <2>3
<1>4. QED  BY <1>2, <1>3, NothingType DEF Init, Types, Working, OpStep, NoWalk

(* The versions of every flow, and the commits, only grow.                 *)
Grown ==
  /\ \A f \in Flow : \A i \in 1..Latest(f) : i \in 1..Latest(f)' /\ versions'[f][i] = versions[f][i]
  /\ \A i \in 1..Tip : i \in 1..Tip' /\ commits'[i] = commits[i]

LEMMA GrowsByCommit ==
  ASSUME Types, versions' = versions, NEW e \in [Flow -> Content \cup {None}],
         commits' = Append(commits, e)
  PROVE  /\ commits' \in Seq([Flow -> Content \cup {None}]) /\ Tip' >= 1
         /\ Tip' = Tip + 1 /\ commits'[Tip + 1] = e
         /\ Grown
<1>1. Tip' = Tip + 1 /\ commits'[Tip + 1] = e /\ Tip \in Nat \ {0}
      /\ commits' \in Seq([Flow -> Content \cup {None}])
  BY TipType DEF Types, Tip
<1>2. \A i \in 1..Tip : i \in 1..Tip' /\ commits'[i] = commits[i]
  BY <1>1 DEF Types, Tip
<1>3. \A f \in Flow : Latest(f)' = Latest(f)
  BY DEF Latest
<1>4. Grown
  BY <1>2, <1>3 DEF Grown
<1>5. QED  BY <1>1, <1>4

LEMMA GrowsByVersion ==
  ASSUME Types, commits' = commits, NEW f \in Flow, NEW c \in Content,
         versions' = [versions EXCEPT ![f] = Append(@, c)]
  PROVE  /\ versions' \in [Flow -> Seq(Content)] /\ \A g \in Flow : Latest(g)' >= 1
         /\ Latest(f)' = Latest(f) + 1 /\ versions'[f][Latest(f) + 1] = c
         /\ Grown
<1>1. versions' \in [Flow -> Seq(Content)] /\ versions'[f] = Append(versions[f], c)
      /\ \A g \in Flow \ {f} : versions'[g] = versions[g]
  BY DEF Types
<1>2. Latest(f)' = Latest(f) + 1 /\ versions'[f][Latest(f) + 1] = c
  BY <1>1 DEF Types, Latest
<1>3. \A g \in Flow : Latest(g) \in Nat \ {0} /\ Latest(g)' \in Nat \ {0}
  BY <1>1, <1>2, TipType DEF Latest
<1>4. \A g \in Flow : \A i \in 1..Latest(g) :
        i \in 1..Latest(g)' /\ versions'[g][i] = versions[g][i]
  <2> SUFFICES ASSUME NEW g \in Flow, NEW i \in 1..Latest(g)
               PROVE  i \in 1..Latest(g)' /\ versions'[g][i] = versions[g][i]
    OBVIOUS
  <2>1. CASE g = f
    BY <1>1, <1>2, <1>3, <2>1 DEF Types, Latest
  <2>2. CASE g # f
    BY <1>1, <2>2 DEF Latest
  <2>3. QED  BY <2>1, <2>2
<1>5. Tip' = Tip
  BY DEF Tip
<1>6. Grown
  BY <1>4, <1>5 DEF Grown
<1>7. \A g \in Flow : Latest(g)' >= 1
  BY <1>3
<1>8. QED  BY <1>1, <1>2, <1>6, <1>7

LEMMA GrowsByNothing ==
  ASSUME commits' = commits, versions' = versions
  PROVE  Grown
<1>1. Tip' = Tip /\ \A f \in Flow : Latest(f)' = Latest(f)
  BY DEF Latest, Tip
<1>2. QED  BY <1>1 DEF Grown

-----------------------------------------------------------------------------
(* What a step of Next leaves to the two lemmas above.                     *)

LEMMA KeepsData ==
  ASSUME Types, commits' = commits, versions' = versions
  PROVE  /\ Grown
         /\ commits' \in Seq([Flow -> Content \cup {None}]) /\ Tip' >= 1
         /\ versions' \in [Flow -> Seq(Content)] /\ \A f \in Flow : Latest(f)' >= 1
<1>1. Tip' = Tip /\ \A f \in Flow : Latest(f)' = Latest(f)
  BY DEF Latest, Tip
<1>2. QED  BY <1>1, GrowsByNothing DEF Types

LEMMA ReadType ==
  ASSUME NEW w \in Work, NEW sha \in Content \cup {None} \cup Nat, NEW first \in BOOLEAN
  PROVE  [w EXCEPT !.sha = sha, !.first = first] \in Work
  BY DEF Work

LEMMA ReadConfigTypes ==
  ASSUME Types, Working, NEW p \in Worker, ReadConfig(p)
  PROVE  Types' /\ Working' /\ Grown
<1> DEFINE f == TheFlow(p)
           first == work[p].op = "push" /\ last[f] = None
           next == IF work[p].op = "pull" THEN "file" ELSE "export"
<1>1. f \in Flow /\ last[f] \in Content \cup {None} \cup Nat /\ first \in BOOLEAN
  BY FlowOf DEF ReadConfig, Working, OpStep, Types
<1>2. /\ commits' = commits /\ versions' = versions /\ last' = last /\ imported' = imported
      /\ home' = home /\ walk' = walk /\ held' = held
      /\ pc' = [pc EXCEPT ![p] = next]
      /\ work' = [work EXCEPT ![p].sha = last[f], ![p].first = first]
  BY DEF ReadConfig, Continue, db, mutexes
<1> DEFINE new == [work[p] EXCEPT !.sha = last[f], !.first = first]
<1> HIDE DEF f, first
<1>3. new \in Work /\ new.flows = work[p].flows
  BY <1>1, ReadType DEF Types, Work
<1>4. work' = [work EXCEPT ![p] = new]
  BY <1>2
<1> HIDE DEF new
<1>5. work' \in [Worker -> Work] /\ \A q \in Worker : work'[q].flows = work[q].flows
  BY <1>3, <1>4 DEF Types
<1>6. Working'
  BY <1>2, <1>5 DEF Working, Types, OpStep, ReadConfig
<1>7. QED  BY <1>2, <1>5, <1>6, KeepsData DEF Types, OpStep

LEMMA TextType ==
  ASSUME NEW w \in Work, NEW f \in Flow, NEW c \in Content \cup {None}
  PROVE  [w EXCEPT !.text[f] = c, !.sha = None] \in Work
<1>1. [w.text EXCEPT ![f] = c] \in [Flow -> Content \cup {None}]
  BY DEF Work
<1>2. [w EXCEPT !.text[f] = c, !.sha = None]
        = [w EXCEPT !.text = [w.text EXCEPT ![f] = c], !.sha = None]
  BY DEF Work
<1>3. QED  BY <1>1, <1>2 DEF Work

LEMMA ReadFileTypes ==
  ASSUME Types, Working, NEW p \in Worker, ReadFile(p)
  PROVE  Types' /\ Working' /\ Grown
<1> DEFINE f == TheFlow(p)
<1>1. f \in Flow /\ File(f) \in Content \cup {None}
  BY FlowOf, TipType DEF ReadFile, Working, OpStep
<1>2. /\ commits' = commits /\ versions' = versions /\ last' = last /\ imported' = imported
      /\ home' = home /\ walk' = walk
  BY DEF ReadFile, db
<1>3. CASE Finish(p)
  BY <1>2, <1>3, KeepsData, FinishType DEF Types, Working
<1>4. CASE ~Finish(p)
  <2> DEFINE new == [work[p] EXCEPT !.text[f] = File(f), !.sha = None]
  <2>1. /\ pc' = [pc EXCEPT ![p] = IF work[p].op = "pull" THEN "lookup" ELSE "number"]
        /\ work' = [work EXCEPT ![p].text[f] = File(f), ![p].sha = None]
        /\ held' = held
    BY <1>4 DEF ReadFile, Continue
  <2>2. new \in Work /\ new.flows = work[p].flows
    BY <1>1, TextType DEF Types, Work
  <2>3. work' = [work EXCEPT ![p] = new]
    BY <2>1
  <2> HIDE DEF new
  <2>4. work' \in [Worker -> Work] /\ \A q \in Worker : work'[q].flows = work[q].flows
    BY <2>2, <2>3 DEF Types
  <2>5. Working'
    BY <2>1, <2>4 DEF Working, Types, OpStep, ReadFile
  <2>6. QED  BY <1>2, <2>1, <2>4, <2>5, KeepsData DEF Types, OpStep
<1>5. QED  BY <1>3, <1>4

LEMMA LookUpTokenTypes ==
  ASSUME Types, Working, NEW p \in Worker, LookUpToken(p)
  PROVE  Types' /\ Working' /\ Grown
<1> DEFINE next == IF imported[TheFlow(p)][work[p].text[TheFlow(p)]] # 0 THEN "config" ELSE "number"
<1>1. /\ commits' = commits /\ versions' = versions /\ last' = last /\ imported' = imported
      /\ home' = home /\ walk' = walk /\ held' = held /\ work' = work
      /\ pc' = [pc EXCEPT ![p] = next]
  BY DEF LookUpToken, Continue, db, mutexes
<1>2. next \in OpStep
  BY DEF OpStep
<1> HIDE DEF next
<1>3. Working'
  BY <1>1, <1>2 DEF Working, Types, OpStep, LookUpToken
<1>4. QED  BY <1>1, <1>2, <1>3, KeepsData DEF Types

LEMMA NumberType ==
  ASSUME NEW w \in Work, NEW f \in Flow, NEW n \in Nat
  PROVE  [w EXCEPT !.number[f] = n] \in Work
<1>1. [w.number EXCEPT ![f] = n] \in [Flow -> Nat]
  BY DEF Work
<1>2. [w EXCEPT !.number[f] = n] = [w EXCEPT !.number = [w.number EXCEPT ![f] = n]]
  BY DEF Work
<1>3. QED  BY <1>1, <1>2 DEF Work

LEMMA ShaType ==
  ASSUME NEW w \in Work, NEW sha \in Content \cup {None} \cup Nat
  PROVE  [w EXCEPT !.sha = sha] \in Work
  BY DEF Work

LEMMA FlowsType ==
  ASSUME NEW w \in Work, NEW flows \in SUBSET Flow
  PROVE  [w EXCEPT !.flows = flows] \in Work
  BY DEF Work

LEMMA ReadNumberTypes ==
  ASSUME Types, Working, NEW p \in Worker, ReadNumber(p)
  PROVE  Types' /\ Working' /\ Grown
<1> DEFINE f == TheFlow(p)
<1>1. f \in Flow /\ Latest(f) + 1 \in Nat
  BY FlowOf, TipType DEF ReadNumber, Working, OpStep
<1>2. /\ commits' = commits /\ versions' = versions /\ last' = last /\ imported' = imported
      /\ home' = home /\ walk' = walk /\ held' = held
      /\ pc' = [pc EXCEPT ![p] = "insert"]
      /\ work' = [work EXCEPT ![p].number[f] = Latest(f) + 1]
  BY DEF ReadNumber, Continue, db, mutexes
<1>3. work' \in [Worker -> Work]
  BY <1>1, <1>2, NumberType DEF Types
<1>4. \A q \in Worker : work'[q].flows = work[q].flows
  BY <1>2 DEF Types, Work
<1>5. Working'
  BY <1>2, <1>4 DEF Working, Types, OpStep, ReadNumber
<1>6. QED  BY <1>2, <1>3, <1>5, KeepsData DEF Types, OpStep

LEMMA InsertVersionTypes ==
  ASSUME Types, Working, NEW p \in Worker, InsertVersion(p),
         pc[p] = "insert" => work[p].text[TheFlow(p)] \in Content
  PROVE  Types' /\ Working' /\ Grown
<1> DEFINE f == TheFlow(p)
<1>1. f \in Flow /\ work[p].text[f] \in Content
  BY FlowOf DEF InsertVersion, Working, OpStep
<1>2. /\ commits' = commits /\ last' = last /\ imported' = imported
      /\ home' = home /\ walk' = walk
  BY DEF InsertVersion
<1>3. CASE versions' = versions /\ Finish(p)
  BY <1>2, <1>3, KeepsData, FinishType DEF Types, Working
<1>4. CASE ~(versions' = versions /\ Finish(p))
  <2>1. /\ versions' = [versions EXCEPT ![f] = Append(@, work[p].text[f])]
        /\ pc' = [pc EXCEPT ![p] = "live"] /\ work' = work /\ held' = held
    BY <1>4 DEF InsertVersion, Continue
  <2>2. Grown /\ versions' \in [Flow -> Seq(Content)] /\ \A g \in Flow : Latest(g)' >= 1
    BY <1>1, <1>2, <2>1, GrowsByVersion
  <2>3. Working'
    BY <2>1 DEF Working, Types, OpStep, InsertVersion
  <2>4. Tip' = Tip
    BY <1>2 DEF Tip
  <2>5. QED  BY <1>2, <2>1, <2>2, <2>3, <2>4 DEF Types, OpStep
<1>5. QED  BY <1>3, <1>4

LEMMA MakeLiveTypes ==
  ASSUME Types, Working, NEW p \in Worker, MakeLive(p)
  PROVE  Types' /\ Working' /\ Grown
<1> DEFINE f == TheFlow(p)
<1>1. f \in Flow
  BY FlowOf DEF MakeLive, Working, OpStep
<1>2. /\ commits' = commits /\ versions' = versions /\ last' = last /\ imported' = imported
      /\ home' = home /\ walk' = walk /\ held' = held
  BY DEF MakeLive, mutexes
<1>3. CASE /\ work' = [work EXCEPT ![p].number[f] = 0]
           /\ pc' = [pc EXCEPT ![p] = "config"]
  <2>1. work' \in [Worker -> Work]
    BY <1>1, <1>3, NumberType DEF Types
  <2>2. \A q \in Worker : work'[q].flows = work[q].flows
    BY <1>3 DEF Types, Work
  <2>3. Working'
    BY <1>3, <2>2 DEF Working, Types, OpStep, MakeLive
  <2>4. QED  BY <1>2, <1>3, <2>1, <2>3, KeepsData DEF Types, OpStep
<1>4. CASE work' = work /\ pc' = [pc EXCEPT ![p] = "token"]
  <2>1. Working'
    BY <1>4 DEF Working, Types, OpStep, MakeLive
  <2>2. QED  BY <1>2, <1>4, <2>1, KeepsData DEF Types, OpStep
<1>5. QED  BY <1>3, <1>4 DEF MakeLive, Continue

LEMMA InsertTokenTypes ==
  ASSUME Types, Working, NEW p \in Worker, InsertToken(p)
  PROVE  Types' /\ Working' /\ Grown
<1> DEFINE f == TheFlow(p)
<1>1. f \in Flow
  BY FlowOf DEF InsertToken, Working, OpStep
<1>2. /\ commits' = commits /\ versions' = versions /\ last' = last
      /\ home' = home /\ walk' = walk
  BY DEF InsertToken
<1>3. CASE imported' = imported /\ Finish(p)
  BY <1>2, <1>3, KeepsData, FinishType DEF Types, Working
<1>4. CASE /\ imported' = [imported EXCEPT ![f][work[p].text[f]] = work[p].number[f]]
           /\ held' = held /\ work' = work /\ pc' = [pc EXCEPT ![p] = "config"]
  <2>1. work[p].number[f] \in Nat
    BY <1>1 DEF Types, Work
  <2>2. imported' \in [Flow -> [Content -> Nat]]
    BY <1>1, <1>4, <2>1 DEF Types
  <2>3. Working'
    BY <1>4 DEF Working, Types, OpStep, InsertToken
  <2>4. QED  BY <1>2, <1>4, <2>2, <2>3, KeepsData DEF Types, OpStep
<1>5. QED  BY <1>3, <1>4 DEF InsertToken, Continue

LEMMA ExportedType ==
  ASSUME NEW w \in Work, NEW f \in Flow, NEW c \in Content, NEW n \in Nat
  PROVE  [w EXCEPT !.text[f] = c, !.number[f] = n] \in Work
<1>1. /\ [w.text EXCEPT ![f] = c] \in [Flow -> Content \cup {None}]
      /\ [w.number EXCEPT ![f] = n] \in [Flow -> Nat]
  BY DEF Work
<1>2. [w EXCEPT !.text[f] = c, !.number[f] = n]
        = [w EXCEPT !.text = [w.text EXCEPT ![f] = c], !.number = [w.number EXCEPT ![f] = n]]
  BY DEF Work
<1>3. QED  BY <1>1, <1>2 DEF Work

(* One flow is exported at a time.                                         *)
AfterExport(p, f) ==
  IF \E g \in work[p].flows \ {f} : work[p].number[g] = 0 THEN "export"
  ELSE IF TakesAny(p) THEN "remote" ELSE "put"

Exported(p, f) == [work[p] EXCEPT !.text[f] = versions[f][Latest(f)], !.number[f] = Latest(f)]

LEMMA ExportStep ==
  ASSUME Types, NEW p \in Worker, Export(p)
  PROVE  /\ pc[p] = "export"
         /\ commits' = commits /\ versions' = versions /\ last' = last /\ imported' = imported
         /\ home' = home /\ walk' = walk /\ held' = held
         /\ \E f \in work[p].flows :
              /\ f \in Flow
              /\ pc' = [pc EXCEPT ![p] = AfterExport(p, f)]
              /\ work' = [work EXCEPT ![p] = Exported(p, f)]
              /\ Exported(p, f) \in Work
<1>1. /\ pc[p] = "export"
      /\ commits' = commits /\ versions' = versions /\ last' = last /\ imported' = imported
      /\ home' = home /\ walk' = walk /\ held' = held
  BY DEF Export, db, mutexes
<1>2. PICK f \in work[p].flows :
        /\ pc' = [pc EXCEPT ![p] = AfterExport(p, f)]
        /\ work' = [work EXCEPT ![p].text[f] = versions[f][Latest(f)], ![p].number[f] = Latest(f)]
  BY DEF Export, Continue, AfterExport
<1>3. f \in Flow
  BY DEF Types, Work
<1>4. work' = [work EXCEPT ![p] = Exported(p, f)]
  BY <1>2 DEF Exported
<1>5. Exported(p, f) \in Work
  BY <1>3, TipType, ExportedType DEF Exported, Types
<1>6. QED  BY <1>1, <1>2, <1>3, <1>4, <1>5

LEMMA ExportTypes ==
  ASSUME Types, Working, NEW p \in Worker, Export(p)
  PROVE  Types' /\ Working' /\ Grown
<1>1. PICK f \in work[p].flows :
        /\ pc' = [pc EXCEPT ![p] = AfterExport(p, f)]
        /\ work' = [work EXCEPT ![p] = Exported(p, f)] /\ Exported(p, f) \in Work
  BY ExportStep
<1>2. AfterExport(p, f) \in OpStep
  BY DEF AfterExport, OpStep
<1>3. Exported(p, f).flows = work[p].flows
  BY DEF Exported, Types, Work
<1>4. work' \in [Worker -> Work] /\ \A q \in Worker : work'[q].flows = work[q].flows
  BY <1>1, <1>3 DEF Types
<1>5. Working'
  BY <1>1, <1>2, <1>4, ExportStep DEF Working, Types, OpStep
<1>6. QED  BY <1>1, <1>2, <1>4, <1>5, ExportStep, KeepsData DEF Types

LEMMA ReadRemoteTypes ==
  ASSUME Types, Working, NEW p \in Worker, ReadRemote(p)
  PROVE  Types' /\ Working' /\ Grown
<1> DEFINE f == TheFlow(p)
           batch == work[p].op = "batch"
           sha == IF batch THEN Tip ELSE File(f)
           next == IF batch THEN "commit" ELSE "put"
           new == [work[p] EXCEPT !.sha = sha]
<1>1. f \in Flow /\ sha \in Content \cup {None} \cup Nat
  BY FlowOf, TipType DEF ReadRemote, Working, OpStep
<1>2. /\ commits' = commits /\ versions' = versions /\ last' = last /\ imported' = imported
      /\ home' = home /\ walk' = walk /\ held' = held
      /\ pc' = [pc EXCEPT ![p] = next]
      /\ work' = [work EXCEPT ![p] = new]
  BY DEF ReadRemote, Continue, db, mutexes
<1> HIDE DEF sha
<1>3. new \in Work /\ new.flows = work[p].flows
  BY <1>1, ShaType DEF Types, Work
<1> HIDE DEF new
<1>4. work' \in [Worker -> Work] /\ \A q \in Worker : work'[q].flows = work[q].flows
  BY <1>2, <1>3 DEF Types
<1>5. Working'
  BY <1>2, <1>4 DEF Working, Types, OpStep, ReadRemote
<1>6. QED  BY <1>2, <1>4, <1>5, KeepsData DEF Types, OpStep

(* The files of the commit that a push or a batch adds.                    *)
LEMMA CommitTypes ==
  ASSUME Types, Working, NEW p \in Worker, versions' = versions, Commit(p)
  PROVE  /\ commits' \in Seq([Flow -> Content \cup {None}]) /\ Tip' >= 1
         /\ Grown /\ Tip' = Tip + 1
         /\ \A f \in Flow : commits'[Tip + 1][f] =
                              IF f \in work[p].flows THEN work[p].text[f] ELSE File(f)
<1> DEFINE e == [f \in Flow |-> IF f \in work[p].flows THEN work[p].text[f] ELSE File(f)]
<1>1. e \in [Flow -> Content \cup {None}]
  BY TipType DEF Types, Work
<1>2. commits' = Append(commits, e)
  BY DEF Commit
<1> HIDE DEF e
<1>3. QED  BY <1>1, <1>2, GrowsByCommit DEF e

LEMMA PutTypes ==
  ASSUME Types, Working, NEW p \in Worker, Put(p)
  PROVE  Types' /\ Working' /\ Grown
<1>1. /\ versions' = versions /\ last' = last /\ imported' = imported
      /\ home' = home /\ walk' = walk
  BY DEF Put, db
<1>2. CASE commits' = commits /\ Finish(p)
  BY <1>1, <1>2, KeepsData, FinishType DEF Types, Working
<1>3. CASE /\ pc[p] = "put" /\ Commit(p) /\ held' = held
           /\ work' = [work EXCEPT ![p].sha = Tip + 1]
  <2>1. /\ commits' \in Seq([Flow -> Content \cup {None}]) /\ Tip' >= 1 /\ Grown
        /\ \A f \in Flow : Latest(f)' = Latest(f)
    BY <1>1, <1>3, CommitTypes DEF Latest
  <2>2. [work[p] EXCEPT !.sha = Tip + 1] \in Work
    <3>1. Tip + 1 \in Nat /\ work[p] \in Work
      BY TipType DEF Types
    <3>2. QED  BY <3>1, ShaType
  <2>3. work' \in [Worker -> Work]
    BY <1>3, <2>2 DEF Types
  <2>4. \A q \in Worker : work'[q].flows = work[q].flows
    BY <1>3 DEF Types, Work
  <2>5. pc' = [pc EXCEPT ![p] = "config"]
    BY <1>3 DEF Commit, Continue
  <2>6. Working'
    BY <2>4, <2>5, <1>3 DEF Working, Types, OpStep
  <2>7. QED  BY <1>1, <1>3, <2>1, <2>3, <2>5, <2>6 DEF Types, OpStep
<1>4. QED  BY <1>2, <1>3 DEF Put

LEMMA TreeCommitTypes ==
  ASSUME Types, Working, NEW p \in Worker, TreeCommit(p)
  PROVE  Types' /\ Working' /\ Grown
<1>1. /\ versions' = versions /\ last' = last /\ imported' = imported
      /\ home' = home /\ walk' = walk
  BY DEF TreeCommit, db
<1>2. CASE commits' = commits /\ Finish(p)
  BY <1>1, <1>2, KeepsData, FinishType DEF Types, Working
<1>3. CASE Commit(p) /\ work' = work /\ held' = held
  <2>1. /\ commits' \in Seq([Flow -> Content \cup {None}]) /\ Tip' >= 1 /\ Grown
        /\ \A f \in Flow : Latest(f)' = Latest(f)
    BY <1>1, <1>3, CommitTypes DEF Latest
  <2>2. pc' = [pc EXCEPT ![p] = "config"]
    BY <1>3 DEF Commit, Continue
  <2>3. Working'
    BY <1>3, <2>2 DEF Working, Types, OpStep, TreeCommit
  <2>4. QED  BY <1>1, <1>3, <2>1, <2>2, <2>3 DEF Types, OpStep
<1>4. QED  BY <1>2, <1>3 DEF TreeCommit

LEMMA UpdateConfigTypes ==
  ASSUME Types, Working, NEW p \in Worker, UpdateConfig(p)
  PROVE  Types' /\ Working' /\ Grown
<1>1. /\ commits' = commits /\ versions' = versions /\ imported' = imported
      /\ home' = home /\ walk' = walk
  BY DEF UpdateConfig
<1>2. PICK f \in work[p].flows :
        /\ last' = [last EXCEPT ![f] = SyncedSha(p, f)]
        /\ IF work[p].flows = {f} THEN Finish(p)
           ELSE work' = [work EXCEPT ![p].flows = @ \ {f}] /\ UNCHANGED <<held, pc>>
  BY DEF UpdateConfig
<1>3. f \in Flow /\ SyncedSha(p, f) \in Content \cup {None} \cup Nat
  BY DEF Types, Work, SyncedSha
<1>4. last' \in [Flow -> Content \cup {None} \cup Nat]
  BY <1>2, <1>3 DEF Types
<1>5. CASE Finish(p)
  BY <1>1, <1>4, <1>5, KeepsData, FinishType DEF Types, Working
<1>6. CASE /\ work[p].flows # {f} /\ work' = [work EXCEPT ![p].flows = @ \ {f}]
           /\ held' = held /\ pc' = pc
  <2>1. work[p].flows \ {f} # {} /\ work[p].flows \ {f} \in SUBSET Flow
    BY <1>2, <1>6 DEF Types, Work
  <2>2. [work[p] EXCEPT !.flows = work[p].flows \ {f}] \in Work
    BY <2>1, FlowsType DEF Types
  <2>3. work' = [work EXCEPT ![p] = [work[p] EXCEPT !.flows = work[p].flows \ {f}]]
    BY <1>6
  <2>4. work' \in [Worker -> Work]
    BY <2>2, <2>3 DEF Types
  <2>5. work'[p].flows = work[p].flows \ {f} /\ \A q \in Worker \ {p} : work'[q] = work[q]
    BY <2>3 DEF Types, Work
  <2>6. pc[p] = "config" /\ pc' = pc
    BY <1>6 DEF UpdateConfig
  <2>7. Working'
    BY <2>1, <2>5, <2>6 DEF Working, OpStep
  <2>8. QED  BY <1>1, <1>4, <1>6, <2>4, <2>7, KeepsData DEF Types
<1>7. QED  BY <1>2, <1>5, <1>6

LEMMA TickTypes ==
  ASSUME Types, Working, NEW p \in Worker, TickNext(p) \/ TickFails(p)
  PROVE  Types' /\ Working' /\ Grown
<1>1. /\ commits' = commits /\ versions' = versions /\ last' = last
      /\ imported' = imported /\ home' = home
  BY DEF TickNext, TickFails, StartTick, ReconcileFile, NotePosition, db
<1>2. CASE StartTick(p)
  <2>1. /\ held' = held /\ work' = work /\ pc' = [pc EXCEPT ![p] = "walk"] /\ pc[p] = "idle"
        /\ walk' = [walk EXCEPT ![p] = [head |-> Tip,
             todo |-> IF position = Tip THEN {} ELSE {f \in Flow : File(f) # None}]]
    BY <1>2 DEF StartTick, Continue
  <2>2. walk' \in [Worker -> [head : Nat, todo : SUBSET Flow]]
    BY <2>1, TipType DEF Types
  <2>3. Working'
    BY <2>1 DEF Types, Working, OpStep
  <2>4. QED  BY <1>1, <2>1, <2>2, <2>3, KeepsData DEF Types
<1>3. CASE ReconcileFile(p)
  <2>1. PICK f \in walk[p].todo :
          /\ walk' = [walk EXCEPT ![p].todo = @ \ {f}]
          /\ IF last[f] = File(f) THEN UNCHANGED <<held, pc, work>>
             ELSE Begin(p, "pull", {f}, "read")
    BY <1>3 DEF ReconcileFile
  <2>2. f \in Flow /\ walk' \in [Worker -> [head : Nat, todo : SUBSET Flow]]
    BY <2>1 DEF Types
  <2>3. CASE held' = held /\ pc' = pc /\ work' = work
    BY <1>1, <2>2, <2>3, KeepsData DEF Types, Working
  <2>4. CASE Begin(p, "pull", {f}, "read")
    <3>1. pc[p] \notin OpStep /\ "pull" \in Operation /\ "read" \in OpStep
      BY <1>3 DEF ReconcileFile, OpStep, Operation
    <3>2. {f} \in SUBSET Flow /\ {f} # {}
      BY <2>2
    <3>3. QED  BY <1>1, <2>2, <2>4, <3>1, <3>2, BeginType, KeepsData DEF Types, Working
  <2>5. QED  BY <2>1, <2>3, <2>4
<1>4. CASE NotePosition(p) \/ TickFails(p)
  <2>1. /\ held' = held /\ work' = work /\ pc' = [pc EXCEPT ![p] = "idle"]
        /\ walk' = [walk EXCEPT ![p] = NoWalk] /\ pc[p] \in {"idle", "walk"}
    BY <1>4 DEF NotePosition, TickFails, TickOver
  <2>2. walk' \in [Worker -> [head : Nat, todo : SUBSET Flow]]
    BY <2>1 DEF Types, NoWalk
  <2>3. Working'
    BY <2>1 DEF Types, Working, OpStep
  <2>4. QED  BY <1>1, <2>1, <2>2, <2>3, KeepsData DEF Types
<1>5. QED  BY <1>2, <1>3, <1>4 DEF TickNext

(* How a request begins.                                                   *)
Begun(p, op, flows, step) ==
  /\ op \in Operation /\ flows \in SUBSET Flow /\ flows # {} /\ Begin(p, op, flows, step)
  /\ \/ step = "read" /\ op \in {"pull", "push"} /\ \E f \in Flow : flows = {f}
     \/ step = "file" /\ op = "forcePull" /\ \E f \in Flow : flows = {f}
     \/ step = "export" /\ op \in {"forcePush", "batch"}

LEMMA RequestBegins ==
  ASSUME NEW p \in Worker, Request(p)
  PROVE  \E op, flows, step : Begun(p, op, flows, step)
<1>1. ASSUME NEW f \in Flow  PROVE {f} \in SUBSET Flow /\ {f} # {} /\ \E g \in Flow : {f} = {g}
  BY <1>1
<1>2. ASSUME NEW f \in Flow, Begin(p, "pull", {f}, "read")  PROVE Begun(p, "pull", {f}, "read")
  BY <1>1, <1>2 DEF Begun, Operation
<1>3. ASSUME NEW f \in Flow, Begin(p, "forcePull", {f}, "file")
      PROVE  Begun(p, "forcePull", {f}, "file")
  BY <1>1, <1>3 DEF Begun, Operation
<1>4. ASSUME NEW f \in Flow, Begin(p, "push", {f}, "read")  PROVE Begun(p, "push", {f}, "read")
  BY <1>1, <1>4 DEF Begun, Operation
<1>5. ASSUME NEW f \in Flow, Begin(p, "forcePush", {f}, "export")
      PROVE  Begun(p, "forcePush", {f}, "export")
  BY <1>1, <1>5 DEF Begun, Operation
<1>6. ASSUME NEW flows \in (SUBSET Flow) \ {{}}, Begin(p, "batch", flows, "export")
      PROVE  Begun(p, "batch", flows, "export")
  BY <1>6 DEF Begun, Operation
<1>7. QED  BY <1>2, <1>3, <1>4, <1>5, <1>6 DEF Request

LEMMA RequestTypes ==
  ASSUME Types, Working, NEW p \in Worker, Request(p)
  PROVE  Types' /\ Working' /\ Grown
<1>1. /\ commits' = commits /\ versions' = versions /\ last' = last
      /\ imported' = imported /\ home' = home /\ walk' = walk
  BY DEF Request, db
<1>2. PICK op, flows, step : Begun(p, op, flows, step)
  BY RequestBegins
<1>3. pc[p] \notin OpStep
  BY DEF Request, OpStep
<1>4. /\ op \in Operation /\ flows \in SUBSET Flow /\ flows # {} /\ step \in OpStep
      /\ Begin(p, op, flows, step)
  BY <1>2 DEF Begun, OpStep
<1>5. QED  BY <1>1, <1>3, <1>4, BeginType, KeepsData DEF Types, Working

LEMMA OthersTypes ==
  ASSUME Types, Working,
         \/ \E p \in Worker : OpFails(p)
         \/ \E f \in Flow, c \in Content : Save(f, c) \/ OthersCommit(f, c)
         \/ \E r \in Replica : Crash(r)
  PROVE  Types' /\ Working' /\ Grown
<1>1. ASSUME NEW p \in Worker, OpFails(p) PROVE Types' /\ Working' /\ Grown
  BY <1>1, KeepsData, FinishType DEF OpFails, db, Types, Working
<1>2. ASSUME NEW f \in Flow, NEW c \in Content, Save(f, c) PROVE Types' /\ Working' /\ Grown
  <2>1. /\ commits' = commits /\ last' = last /\ imported' = imported /\ home' = home
        /\ held' = held /\ pc' = pc /\ work' = work /\ walk' = walk
        /\ versions' = [versions EXCEPT ![f] = Append(@, c)]
    BY <1>2 DEF Save, mutexes
  <2>2. Grown /\ versions' \in [Flow -> Seq(Content)] /\ \A g \in Flow : Latest(g)' >= 1
    BY <2>1, GrowsByVersion
  <2>3. Tip' = Tip
    BY <2>1 DEF Tip
  <2>4. QED  BY <2>1, <2>2, <2>3 DEF Types, Working
<1>3. ASSUME NEW f \in Flow, NEW c \in Content, OthersCommit(f, c)
      PROVE  Types' /\ Working' /\ Grown
  <2>1. /\ versions' = versions /\ last' = last /\ imported' = imported /\ home' = home
        /\ held' = held /\ pc' = pc /\ work' = work /\ walk' = walk
        /\ commits' = Append(commits, [commits[Tip] EXCEPT ![f] = c])
    BY <1>3 DEF OthersCommit, db, mutexes
  <2>2. [commits[Tip] EXCEPT ![f] = c] \in [Flow -> Content \cup {None}]
    BY TipType
  <2>3. Grown /\ commits' \in Seq([Flow -> Content \cup {None}]) /\ Tip' >= 1
    BY <2>1, <2>2, GrowsByCommit
  <2>4. \A g \in Flow : Latest(g)' = Latest(g)
    BY <2>1 DEF Latest
  <2>5. QED  BY <2>1, <2>3, <2>4 DEF Types, Working
<1>4. ASSUME NEW r \in Replica, Crash(r) PROVE Types' /\ Working' /\ Grown
  <2>1. /\ commits' = commits /\ versions' = versions /\ last' = last
        /\ imported' = imported /\ home' = home
        /\ held' = [held EXCEPT ![r] = {}]
        /\ pc' = [p \in Worker |-> IF home[p] = r THEN "idle" ELSE pc[p]]
        /\ work' = [p \in Worker |-> IF home[p] = r THEN Nothing ELSE work[p]]
        /\ walk' = [p \in Worker |-> IF home[p] = r THEN NoWalk ELSE walk[p]]
    BY <1>4 DEF Crash, db
  <2>2. Working'
    BY <2>1 DEF Types, Working, OpStep
  <2>3. walk' \in [Worker -> [head : Nat, todo : SUBSET Flow]]
    BY <2>1 DEF Types, NoWalk
  <2>4. work' \in [Worker -> Work]
    BY <2>1, NothingType DEF Types
  <2>5. held' \in [Replica -> SUBSET Flow] /\ pc' \in [Worker -> {"idle", "walk"} \cup OpStep]
    BY <2>1 DEF Types
  <2>6. QED  BY <2>1, <2>2, <2>3, <2>4, <2>5, KeepsData DEF Types
<1>5. QED  BY <1>1, <1>2, <1>3, <1>4

LEMMA NextTypes ==
  ASSUME Types, Working, [Next]_vars,
         \A p \in Worker : pc[p] = "insert" => work[p].text[TheFlow(p)] \in Content
  PROVE  Types' /\ Working' /\ Grown
<1>1. CASE UNCHANGED vars
  <2>1. /\ commits' = commits /\ versions' = versions /\ last' = last
        /\ imported' = imported /\ home' = home /\ held' = held
        /\ pc' = pc /\ work' = work /\ walk' = walk
    BY <1>1 DEF vars, db, mutexes
  <2>2. QED  BY <2>1, KeepsData DEF Types, Working
<1>2. ASSUME NEW p \in Worker, OpNext(p) PROVE Types' /\ Working' /\ Grown
  BY <1>2, ReadConfigTypes, ReadFileTypes, LookUpTokenTypes, ReadNumberTypes,
     InsertVersionTypes, MakeLiveTypes, InsertTokenTypes, ExportTypes, ReadRemoteTypes,
     PutTypes, TreeCommitTypes, UpdateConfigTypes DEF OpNext
<1>3. ASSUME NEW p \in Worker, TickNext(p) \/ TickFails(p) PROVE Types' /\ Working' /\ Grown
  BY <1>3, TickTypes
<1>4. ASSUME NEW p \in Worker, Request(p) PROVE Types' /\ Working' /\ Grown
  BY <1>4, RequestTypes
<1>5. QED  BY <1>1, <1>2, <1>3, <1>4, OthersTypes DEF Next

-----------------------------------------------------------------------------
(* One holder: the locks of the operations are disjoint and are held.      *)

LEMMA HolderKept ==
  ASSUME OneHolder, held' = held, home' = home,
         \A q \in Worker : work'[q].locks = work[q].locks
  PROVE  OneHolder'
  BY DEF OneHolder

LEMMA HolderBegin ==
  ASSUME Types, OneHolder, home' = home, NEW p \in Worker, NEW op, NEW flows \in SUBSET Flow,
         NEW step, Begin(p, op, flows, step)
  PROVE  OneHolder'
<1> DEFINE locks == IF op \in {"forcePull", "forcePush"} THEN {} ELSE flows
           new == [Nothing EXCEPT !.op = op, !.flows = flows, !.locks = locks]
<1>1. held' = [held EXCEPT ![home[p]] = AcquireAll(@, locks)]
  BY DEF Begin
<1>2. CASE locks \cap held[home[p]] # {}
  <2>1. work' = work /\ held' = held
    BY <1>1, <1>2 DEF Begin, AcquireAll, Types
  <2>2. QED  BY <2>1, HolderKept
<1>3. CASE locks \cap held[home[p]] = {}
  <2>1. work' = [work EXCEPT ![p] = new] /\ new.locks = locks
    BY <1>3 DEF Begin, Nothing
  <2>2. held'[home[p]] = held[home[p]] \cup locks
        /\ \A r \in Replica \ {home[p]} : held'[r] = held[r]
    BY <1>1, <1>3 DEF AcquireAll, Types
  <2>3. work'[p].locks = locks /\ \A q \in Worker \ {p} : work'[q] = work[q]
    BY <2>1 DEF Types
  <2>4. \A q \in Worker : home[q] \in Replica /\ home'[q] = home[q]
    BY DEF Types
  <2> HIDE DEF locks, new
  <2>5. QED  BY <1>3, <2>2, <2>3, <2>4 DEF OneHolder
<1>4. QED  BY <1>2, <1>3

LEMMA HolderFinish ==
  ASSUME Types, OneHolder, home' = home, NEW p \in Worker, Finish(p)
  PROVE  OneHolder'
<1>1. held'[home[p]] = held[home[p]] \ work[p].locks
      /\ \A r \in Replica \ {home[p]} : held'[r] = held[r]
  BY DEF Finish, Types
<1>2. work'[p].locks = {} /\ \A q \in Worker \ {p} : work'[q] = work[q]
  BY DEF Finish, Types, Nothing
<1>3. \A q \in Worker : home[q] \in Replica /\ home'[q] = home[q]
  BY DEF Types
<1>4. QED  BY <1>1, <1>2, <1>3 DEF OneHolder

LEMMA HolderNext ==
  ASSUME Types, OneHolder, [Next]_vars
  PROVE  OneHolder'
<1>1. CASE UNCHANGED vars
  BY <1>1, HolderKept DEF vars, mutexes
<1>2. home' = home
  BY DEF Next, OpNext, TickNext, ReadConfig, ReadFile, LookUpToken, ReadNumber,
     InsertVersion, MakeLive, InsertToken, Export, ReadRemote, Put, TreeCommit, UpdateConfig, OpFails, StartTick, ReconcileFile, NotePosition,
     TickFails, Request, Save, OthersCommit, Crash, vars
<1>3. ASSUME NEW p \in Worker, OpNext(p) \/ OpFails(p) PROVE OneHolder'
  <2>1. CASE Finish(p)
    BY <1>2, <2>1, HolderFinish
  <2>2. CASE ~Finish(p)
    <3> DEFINE Same == \A q \in Worker : work'[q].locks = work[q].locks
    <3> SUFFICES held' = held /\ Same
      BY <1>2, HolderKept
    <3>1. held' = held
      BY <1>3, <2>2 DEF OpNext, ReadConfig, ReadFile, LookUpToken, ReadNumber, InsertVersion,
         MakeLive, InsertToken, Export, ReadRemote, Put, TreeCommit, UpdateConfig, OpFails,
         mutexes
    <3>2. ASSUME ReadConfig(p) \/ ReadFile(p) PROVE Same
      <4>1. CASE ReadConfig(p)
        <5>1. PICK sha, first : work' = [work EXCEPT ![p].sha = sha, ![p].first = first]
          BY <4>1 DEF ReadConfig
        <5>2. QED  BY <5>1 DEF Types, Work
      <4>2. CASE ReadFile(p)
        <5>1. work' = [work EXCEPT ![p].text[TheFlow(p)] = File(TheFlow(p)), ![p].sha = None]
          BY <2>2, <4>2 DEF ReadFile
        <5>2. QED  BY <5>1 DEF Types, Work
      <4>3. QED  BY <3>2, <4>1, <4>2
    <3>3. ASSUME ReadNumber(p) PROVE Same
      <4>1. work' = [work EXCEPT ![p].number[TheFlow(p)] = Latest(TheFlow(p)) + 1]
        BY <2>2, <3>3 DEF ReadNumber
      <4>2. QED  BY <4>1 DEF Types, Work
    <3>4. ASSUME InsertVersion(p) \/ LookUpToken(p) \/ InsertToken(p) PROVE Same
      <4>1. work' = work
        BY <2>2, <3>4 DEF InsertVersion, LookUpToken, InsertToken
      <4>2. QED  BY <4>1 DEF Types, Work
    <3>5. ASSUME MakeLive(p) PROVE Same
      <4>1. work' = work \/ work' = [work EXCEPT ![p].number[TheFlow(p)] = 0]
        BY <3>5 DEF MakeLive
      <4>2. ASSUME work' = [work EXCEPT ![p].number[TheFlow(p)] = 0] PROVE Same
        BY <4>2 DEF Types, Work
      <4>3. QED  BY <4>1, <4>2
    <3>6. ASSUME Export(p) \/ ReadRemote(p) PROVE Same
      <4>1. CASE Export(p)
        <5>1. PICK f : work' = [work EXCEPT ![p] = Exported(p, f)]
          BY <4>1, ExportStep
        <5>2. Exported(p, f).locks = work[p].locks
          BY DEF Exported, Types, Work
        <5>3. QED  BY <5>1, <5>2 DEF Types
      <4>2. CASE ReadRemote(p)
        <5>1. PICK sha : work' = [work EXCEPT ![p].sha = sha]
          BY <4>2 DEF ReadRemote
        <5>2. QED  BY <5>1 DEF Types, Work
      <4>3. QED  BY <3>6, <4>1, <4>2
    <3>7. ASSUME Put(p) PROVE Same
      <4>1. work' = [work EXCEPT ![p].sha = Tip + 1]
        BY <2>2, <3>7 DEF Put
      <4>2. QED  BY <4>1 DEF Types, Work
    <3>8. ASSUME TreeCommit(p) PROVE Same
      <4>1. work' = work
        BY <2>2, <3>8 DEF TreeCommit
      <4>2. QED  BY <4>1 DEF Types, Work
    <3>9. ASSUME UpdateConfig(p) PROVE Same
      <4>1. PICK f \in work[p].flows : work' = [work EXCEPT ![p].flows = @ \ {f}]
        BY <2>2, <3>9 DEF UpdateConfig
      <4>2. QED  BY <4>1 DEF Types, Work
    <3> HIDE DEF Same
    <3>10. QED
      BY <1>3, <2>2, <3>1, <3>2, <3>3, <3>4, <3>5, <3>6, <3>7, <3>8, <3>9 DEF OpNext, OpFails
  <2>3. QED  BY <2>1, <2>2
<1>4. ASSUME NEW p \in Worker, ReconcileFile(p) PROVE OneHolder'
  <2>1. PICK f \in walk[p].todo :
          (held' = held /\ work' = work) \/ Begin(p, "pull", {f}, "read")
    BY <1>4 DEF ReconcileFile
  <2>2. f \in Flow
    BY DEF Types
  <2>3. QED  BY <1>2, <2>1, <2>2, HolderBegin, HolderKept
<1>5. ASSUME NEW p \in Worker, Request(p) PROVE OneHolder'
  <2>1. PICK op, flows, step : Begun(p, op, flows, step)
    BY <1>5, RequestBegins
  <2>2. flows \in SUBSET Flow /\ Begin(p, op, flows, step)
    BY <2>1 DEF Begun
  <2>3. QED  BY <1>2, <2>2, HolderBegin
<1>6. ASSUME NEW r \in Replica, Crash(r) PROVE OneHolder'
  <2>1. /\ held' = [held EXCEPT ![r] = {}]
        /\ work' = [p \in Worker |-> IF home[p] = r THEN Nothing ELSE work[p]]
    BY <1>6 DEF Crash
  <2>2. \A p \in Worker : IF home[p] = r THEN work'[p].locks = {}
                         ELSE work'[p] = work[p] /\ held'[home[p]] = held[home[p]]
    BY <2>1 DEF Types, Nothing
  <2>3. QED  BY <1>2, <2>2 DEF OneHolder
<1>7. ASSUME \/ \E p \in Worker : StartTick(p) \/ NotePosition(p) \/ TickFails(p)
             \/ \E f \in Flow, c \in Content : Save(f, c) \/ OthersCommit(f, c)
      PROVE  OneHolder'
  <2>1. held' = held /\ work' = work
    BY <1>7 DEF StartTick, NotePosition, TickFails, Save, OthersCommit, mutexes
  <2>2. QED  BY <1>2, <2>1, HolderKept
<1>8. QED
  BY <1>1, <1>3, <1>4, <1>5, <1>6, <1>7 DEF Next, TickNext

-----------------------------------------------------------------------------
(* What each step of an operation has found out, and what stays true of it *)
(* while versions and commits are added.                                   *)

Fact(p) ==
  /\ pc[p] = "read" => work[p].op \in {"pull", "push"} /\ \E f \in Flow : work[p].flows = {f}
  /\ pc[p] \in {"file", "lookup", "number", "insert", "live", "token"} =>
       work[p].op \in {"pull", "forcePull"} /\ \E f \in Flow : work[p].flows = {f}
  /\ pc[p] \in {"export", "remote"} => work[p].op \in Pushing
  /\ pc[p] = "put" => work[p].op \in {"push", "forcePush"}
  /\ pc[p] = "commit" => work[p].op = "batch"
  /\ \A f \in work[p].flows :
       /\ pc[p] = "read" => work[p].number[f] = 0
       /\ pc[p] \in {"lookup", "number", "insert"} => work[p].text[f] \in Content
       /\ pc[p] \in {"live", "token"} =>
            /\ work[p].number[f] \in 1..Latest(f)
            /\ versions[f][work[p].number[f]] = work[p].text[f]
       /\ (pc[p] = "export" /\ work[p].number[f] # 0) => work[p].text[f] \in Items(versions[f])
       /\ pc[p] \in {"remote", "put", "commit"} => work[p].text[f] \in Items(versions[f])
       /\ pc[p] = "config" =>
            IF work[p].op \in {"push", "forcePush"}
            THEN work[p].sha \in 1..Tip /\ commits[work[p].sha][f] \in Items(versions[f])
            ELSE work[p].text[f] \in Items(versions[f])

(* TokensNameTheirVersion, with the range of the number.                   *)
Tokens ==
  \A f \in Flow, c \in Content :
    imported[f][c] # 0 => imported[f][c] \in 1..Latest(f) /\ versions[f][imported[f][c]] = c

(* ConfigNamesAVersion, with the range of the commit.                      *)
Configs ==
  \A f \in Flow : \/ last[f] = None
                  \/ last[f] \in Content /\ last[f] \in Items(versions[f])
                  \/ last[f] \in 1..Tip /\ commits[last[f]][f] \in Items(versions[f])

Inv == Types /\ Working /\ OneHolder /\ Tokens /\ Configs /\ \A p \in Worker : Fact(p)

LEMMA ItemsOf ==
  ASSUME Types, NEW f \in Flow
  PROVE  /\ \A i \in 1..Latest(f) : versions[f][i] \in Items(versions[f])
         /\ Items(versions[f]) \subseteq Content
  BY DEF Types, Items, Latest

LEMMA ItemsGrow ==
  ASSUME Types, Types', Grown, NEW f \in Flow
  PROVE  Items(versions[f]) \subseteq Items(versions'[f])
<1>1. DOMAIN versions[f] = 1..Latest(f) /\ DOMAIN versions'[f] = 1..Latest(f)'
  BY DEF Types, Latest
<1>2. QED  BY <1>1 DEF Items, Grown

LEMMA TokensKept ==
  ASSUME Types, Types', Grown, Tokens, imported' = imported
  PROVE  Tokens'
  BY DEF Tokens, Grown

LEMMA ConfigsKept ==
  ASSUME Types, Types', Grown, Configs, last' = last
  PROVE  Configs'
<1> SUFFICES ASSUME NEW f \in Flow
             PROVE  \/ last[f] = None
                    \/ last[f] \in Content /\ last[f] \in Items(versions'[f])
                    \/ last[f] \in 1..Tip' /\ commits'[last[f]][f] \in Items(versions'[f])
  BY DEF Configs
<1>1. Items(versions[f]) \subseteq Items(versions'[f])
  BY ItemsGrow
<1>2. QED  BY <1>1 DEF Configs, Grown

LEMMA FactKept ==
  ASSUME Types, Types', Grown, NEW p \in Worker, Fact(p), work'[p] = work[p], pc'[p] = pc[p]
  PROVE  Fact(p)'
<1>1. \A f \in work[p].flows : f \in Flow /\ Items(versions[f]) \subseteq Items(versions'[f])
  BY ItemsGrow DEF Types, Work
<1>2. \A f \in work[p].flows : \A i \in 1..Latest(f) :
        i \in 1..Latest(f)' /\ versions'[f][i] = versions[f][i]
  BY <1>1 DEF Grown
<1>3. \A i \in 1..Tip : i \in 1..Tip' /\ commits'[i] = commits[i]
  BY DEF Grown
<1>4. QED  BY <1>1, <1>2, <1>3 DEF Fact

LEMMA FactIdle ==
  ASSUME NEW p \in Worker, Working', pc'[p] \notin OpStep
  PROVE  Fact(p)'
<1>1. work'[p].flows = {}
  BY DEF Working, Nothing
<1>2. QED  BY <1>1 DEF Fact, OpStep

LEMMA FactFinish ==
  ASSUME Types, Types', Working', NEW p \in Worker, Finish(p)
  PROVE  Fact(p)'
<1>1. pc'[p] \notin OpStep
  BY DEF Finish, OpStep, Types
<1>2. QED  BY <1>1, FactIdle

(* An operation begins with its kind and its flows.                        *)
LEMMA FactBegin ==
  ASSUME Types, Types', Working', Grown, NEW p \in Worker, Fact(p), NEW op, NEW flows, NEW step,
         Begun(p, op, flows, step)
  PROVE  Fact(p)'
<1> DEFINE locks == IF op \in {"forcePull", "forcePush"} THEN {} ELSE flows
           new == [Nothing EXCEPT !.op = op, !.flows = flows, !.locks = locks]
<1>1. CASE pc' = pc /\ work' = work
  BY <1>1, FactKept
<1>2. CASE pc' = [pc EXCEPT ![p] = step] /\ work' = [work EXCEPT ![p] = new]
  <2>1. /\ pc'[p] = step /\ work'[p].op = op /\ work'[p].flows = flows
        /\ \A f \in Flow : work'[p].number[f] = 0
    BY <1>2 DEF Types, Nothing
  <2>2. flows \subseteq Flow
    BY DEF Begun
  <2>3. QED  BY <2>1, <2>2 DEF Fact, Begun, Pushing
<1>3. QED  BY <1>1, <1>2 DEF Begin, Begun

LEMMA FactReadConfig ==
  ASSUME Inv, Types', NEW p \in Worker, ReadConfig(p)
  PROVE  Fact(p)'
<1> DEFINE next == IF work[p].op = "pull" THEN "file" ELSE "export"
<1>1. /\ work[p].op \in {"pull", "push"} /\ \E f \in Flow : work[p].flows = {f}
      /\ \A f \in work[p].flows : work[p].number[f] = 0
  BY DEF Inv, Fact, ReadConfig
<1>2. PICK sha, first :
        /\ pc' = [pc EXCEPT ![p] = next]
        /\ work' = [work EXCEPT ![p].sha = sha, ![p].first = first]
  BY DEF ReadConfig, Continue
<1>3. /\ pc'[p] = next /\ work'[p].op = work[p].op /\ work'[p].flows = work[p].flows
      /\ work'[p].number = work[p].number
  BY <1>2 DEF Inv, Types, Work
<1>4. QED  BY <1>1, <1>3 DEF Fact, Pushing

LEMMA FactReadFile ==
  ASSUME Inv, Types', Working', NEW p \in Worker, ReadFile(p)
  PROVE  Fact(p)'
<1> DEFINE f == TheFlow(p)
<1>1. f \in Flow /\ work[p].flows = {f} /\ pc[p] = "file"
      /\ work[p].op \in {"pull", "forcePull"}
  BY FlowOf DEF Inv, Fact, ReadFile, Working, OpStep
<1>2. CASE Finish(p)
  BY <1>2, FactFinish DEF Inv
<1>3. CASE ~Finish(p)
  <2> DEFINE c == File(f)
             next == IF work[p].op = "pull" THEN "lookup" ELSE "number"
  <2>1. /\ pc' = [pc EXCEPT ![p] = next]
        /\ work' = [work EXCEPT ![p].text[f] = c, ![p].sha = None]
        /\ c # None
    BY <1>3 DEF ReadFile, Continue
  <2>2. c \in Content
    BY <1>1, <2>1, TipType DEF Inv
  <2>3. /\ work'[p].op = work[p].op /\ work'[p].flows = {f} /\ work'[p].text[f] = c
        /\ pc'[p] = next
    BY <1>1, <2>1 DEF Inv, Types, Work
  <2>4. QED  BY <1>1, <2>2, <2>3 DEF Fact
<1>4. QED  BY <1>2, <1>3

LEMMA FactLookUpToken ==
  ASSUME Inv, Types', NEW p \in Worker, LookUpToken(p)
  PROVE  Fact(p)'
<1> DEFINE f == TheFlow(p)
           c == work[p].text[f]
           next == IF imported[f][c] # 0 THEN "config" ELSE "number"
<1>1. /\ f \in Flow /\ work[p].flows = {f} /\ work[p].op \in {"pull", "forcePull"}
      /\ c \in Content
  BY FlowOf DEF Inv, Fact, LookUpToken, Working, OpStep
<1>2. pc' = [pc EXCEPT ![p] = next] /\ work' = work /\ versions' = versions
  BY DEF LookUpToken, Continue, db
<1>3. pc'[p] = next
  BY <1>2 DEF Inv, Types
<1>4. imported[f][c] # 0 => c \in Items(versions[f])
  BY <1>1, ItemsOf DEF Inv, Tokens
<1>5. QED  BY <1>1, <1>2, <1>3, <1>4 DEF Fact

LEMMA FactReadNumber ==
  ASSUME Inv, Types', NEW p \in Worker, ReadNumber(p)
  PROVE  Fact(p)'
<1>1. pc[p] = "number" /\ pc' = [pc EXCEPT ![p] = "insert"]
      /\ work' = [work EXCEPT ![p].number[TheFlow(p)] = Latest(TheFlow(p)) + 1]
  BY DEF ReadNumber, Continue
<1>2. /\ pc'[p] = "insert"
      /\ work'[p].op = work[p].op /\ work'[p].flows = work[p].flows
      /\ work'[p].text = work[p].text
  BY <1>1 DEF Inv, Types, Work
<1>3. QED  BY <1>1, <1>2 DEF Inv, Fact

LEMMA FactInsertVersion ==
  ASSUME Inv, Types', Working', NEW p \in Worker, InsertVersion(p)
  PROVE  Fact(p)'
<1>1. PICK f \in Flow :
        /\ f = TheFlow(p) /\ work[p].flows = {f} /\ pc[p] = "insert"
        /\ work[p].op \in {"pull", "forcePull"} /\ work[p].text[f] \in Content
  BY FlowOf DEF Inv, Fact, InsertVersion, Working, OpStep
<1>2. CASE Finish(p)
  BY <1>2, FactFinish DEF Inv
<1>3. CASE ~Finish(p)
  <2>1. /\ versions' = [versions EXCEPT ![f] = Append(@, work[p].text[f])]
        /\ commits' = commits
        /\ pc' = [pc EXCEPT ![p] = "live"] /\ work' = work
        /\ work[p].number[f] = Latest(f) + 1
    BY <1>1, <1>3 DEF InsertVersion, Continue
  <2>2. Latest(f)' = Latest(f) + 1 /\ versions'[f][Latest(f) + 1] = work[p].text[f]
    BY <1>1, <2>1, GrowsByVersion DEF Inv
  <2>3. work[p].number[f] \in 1..Latest(f)'
    BY <1>1, <2>1, <2>2, TipType DEF Inv
  <2>4. pc'[p] = "live" /\ work'[p] = work[p]
    BY <2>1 DEF Inv, Types
  <2>5. QED  BY <1>1, <2>1, <2>2, <2>3, <2>4 DEF Fact
<1>4. QED  BY <1>2, <1>3

LEMMA FactMakeLive ==
  ASSUME Inv, Types', NEW p \in Worker, MakeLive(p)
  PROVE  Fact(p)'
<1> DEFINE f == TheFlow(p)
<1>1. f \in Flow /\ work[p].flows = {f} /\ pc[p] = "live"
      /\ work[p].op \in {"pull", "forcePull"} /\ work[p].number[f] \in 1..Latest(f)
      /\ versions[f][work[p].number[f]] = work[p].text[f]
  BY FlowOf DEF Inv, Fact, MakeLive, Working, OpStep
<1>2. work[p].text[f] \in Items(versions[f]) /\ versions' = versions
  BY <1>1, ItemsOf DEF Inv, MakeLive
<1>3. CASE work[p].op = "forcePull"
  <2>1. /\ pc' = [pc EXCEPT ![p] = "config"]
        /\ work' = [work EXCEPT ![p].number[f] = 0]
    BY <1>3 DEF MakeLive, Continue
  <2>2. /\ work'[p].op = work[p].op /\ work'[p].flows = work[p].flows
        /\ work'[p].text = work[p].text /\ pc'[p] = "config"
    BY <2>1 DEF Inv, Types, Work
  <2>3. QED  BY <1>1, <1>2, <2>2 DEF Fact
<1>4. CASE work[p].op # "forcePull"
  <2>1. pc' = [pc EXCEPT ![p] = "token"] /\ work' = work
    BY <1>4 DEF MakeLive, Continue
  <2>2. pc'[p] = "token"
    BY <2>1 DEF Inv, Types
  <2> HIDE DEF f
  <2>3. QED  BY <1>1, <1>2, <2>1, <2>2 DEF Fact, Latest
<1>5. QED  BY <1>3, <1>4

LEMMA FactInsertToken ==
  ASSUME Inv, Types', Working', NEW p \in Worker, InsertToken(p)
  PROVE  Fact(p)'
<1> DEFINE f == TheFlow(p)
<1>1. f \in Flow /\ work[p].flows = {f} /\ pc[p] = "token"
      /\ work[p].op \in {"pull", "forcePull"} /\ work[p].number[f] \in 1..Latest(f)
      /\ versions[f][work[p].number[f]] = work[p].text[f]
  BY FlowOf DEF Inv, Fact, InsertToken, Working, OpStep
<1>2. work[p].text[f] \in Items(versions[f])
  BY <1>1, ItemsOf DEF Inv
<1>3. CASE Finish(p)
  BY <1>3, FactFinish DEF Inv
<1>4. CASE ~Finish(p)
  <2>1. pc' = [pc EXCEPT ![p] = "config"] /\ versions' = versions /\ work' = work
    BY <1>4 DEF InsertToken, Continue
  <2>2. pc'[p] = "config"
    BY <2>1 DEF Inv, Types
  <2>3. QED  BY <1>1, <1>2, <2>1, <2>2 DEF Fact
<1>5. QED  BY <1>3, <1>4

LEMMA FactExport ==
  ASSUME Inv, Types', NEW p \in Worker, Export(p)
  PROVE  Fact(p)'
<1>1. work[p].op \in Pushing /\ work[p].flows \subseteq Flow /\ versions' = versions
      /\ \A g \in work[p].flows : work[p].number[g] # 0 => work[p].text[g] \in Items(versions[g])
  BY ExportStep DEF Inv, Fact, Types, Work
<1>2. PICK f \in work[p].flows :
        /\ pc' = [pc EXCEPT ![p] = AfterExport(p, f)]
        /\ work' = [work EXCEPT ![p] = Exported(p, f)]
  BY ExportStep DEF Inv
<1>3. pc'[p] = AfterExport(p, f) /\ work'[p] = Exported(p, f)
  BY <1>2 DEF Inv, Types
<1>4. /\ Exported(p, f).op = work[p].op /\ Exported(p, f).flows = work[p].flows
      /\ Exported(p, f).text[f] = versions[f][Latest(f)]
      /\ \A g \in work[p].flows \ {f} : /\ Exported(p, f).text[g] = work[p].text[g]
                                       /\ Exported(p, f).number[g] = work[p].number[g]
  BY <1>1 DEF Exported, Inv, Types, Work
<1>5. Exported(p, f).text[f] \in Items(versions[f])
  <2>1. Latest(f) \in 1..Latest(f) /\ f \in Flow
    BY <1>1, TipType DEF Inv
  <2>2. QED  BY <1>4, <2>1, ItemsOf DEF Inv
<1>6. \A g \in work[p].flows :
        Exported(p, f).number[g] # 0 => Exported(p, f).text[g] \in Items(versions[g])
  BY <1>1, <1>4, <1>5
<1>7. CASE AfterExport(p, f) = "export"
  BY <1>1, <1>3, <1>4, <1>6, <1>7 DEF Fact
<1>8. CASE AfterExport(p, f) # "export"
  <2>1. \A g \in work[p].flows \ {f} : work[p].number[g] # 0
    BY <1>8 DEF AfterExport
  <2>2. \A g \in work[p].flows : Exported(p, f).text[g] \in Items(versions[g])
    BY <1>1, <1>4, <1>5, <2>1
  <2>3. AfterExport(p, f) = "remote"
        \/ (AfterExport(p, f) = "put" /\ work[p].op \in {"push", "forcePush"})
    BY <1>1, <1>8 DEF AfterExport, TakesAny, Pushing
  <2>4. QED  BY <1>1, <1>3, <1>4, <2>2, <2>3 DEF Fact
<1>9. QED  BY <1>7, <1>8

LEMMA FactReadRemote ==
  ASSUME Inv, Types', NEW p \in Worker, ReadRemote(p)
  PROVE  Fact(p)'
<1> DEFINE next == IF work[p].op = "batch" THEN "commit" ELSE "put"
<1>1. /\ work[p].op \in Pushing /\ versions' = versions
      /\ \A f \in work[p].flows : work[p].text[f] \in Items(versions[f])
  BY DEF Inv, Fact, ReadRemote, db
<1>2. PICK sha : pc' = [pc EXCEPT ![p] = next] /\ work' = [work EXCEPT ![p].sha = sha]
  BY DEF ReadRemote, Continue
<1>3. /\ pc'[p] = next /\ work'[p].op = work[p].op /\ work'[p].flows = work[p].flows
      /\ work'[p].text = work[p].text
  BY <1>2 DEF Inv, Types, Work
<1>4. QED  BY <1>1, <1>3 DEF Fact, Pushing

LEMMA FactPut ==
  ASSUME Inv, Types', Working', NEW p \in Worker, Put(p)
  PROVE  Fact(p)'
<1>1. CASE Finish(p)
  BY <1>1, FactFinish DEF Inv
<1>2. CASE ~Finish(p)
  <2>1. /\ pc[p] = "put" /\ Commit(p) /\ pc' = [pc EXCEPT ![p] = "config"]
        /\ versions' = versions /\ work' = [work EXCEPT ![p].sha = Tip + 1]
    BY <1>2 DEF Put, Commit, Continue, db
  <2>2. /\ work'[p].op = work[p].op /\ work'[p].flows = work[p].flows
        /\ work'[p].sha = Tip + 1 /\ pc'[p] = "config" /\ work[p].flows \subseteq Flow
    BY <2>1 DEF Inv, Types, Work
  <2>3. work[p].op \in {"push", "forcePush"}
        /\ \A f \in work[p].flows : work[p].text[f] \in Items(versions[f])
    BY <2>1 DEF Inv, Fact
  <2>4. Tip' = Tip + 1 /\ \A f \in work[p].flows : commits'[Tip + 1][f] = work[p].text[f]
    BY <2>1, <2>2, CommitTypes DEF Inv
  <2>5. Tip + 1 \in 1..Tip'
    BY <2>4, TipType DEF Inv
  <2>6. QED  BY <2>1, <2>2, <2>3, <2>4, <2>5 DEF Fact
<1>3. QED  BY <1>1, <1>2

LEMMA FactTreeCommit ==
  ASSUME Inv, Types', Working', NEW p \in Worker, TreeCommit(p)
  PROVE  Fact(p)'
<1>1. CASE Finish(p)
  BY <1>1, FactFinish DEF Inv
<1>2. CASE ~Finish(p)
  <2>1. /\ pc[p] = "commit" /\ pc' = [pc EXCEPT ![p] = "config"]
        /\ versions' = versions /\ work' = work
    BY <1>2 DEF TreeCommit, Commit, Continue, db
  <2>2. pc'[p] = "config"
    BY <2>1 DEF Inv, Types
  <2>3. QED  BY <2>1, <2>2 DEF Inv, Fact
<1>3. QED  BY <1>1, <1>2

LEMMA FactUpdateConfig ==
  ASSUME Inv, Types', Working', NEW p \in Worker, UpdateConfig(p)
  PROVE  Fact(p)'
<1>1. CASE Finish(p)
  BY <1>1, FactFinish DEF Inv
<1>2. CASE ~Finish(p)
  <2>1. PICK f \in work[p].flows : work' = [work EXCEPT ![p].flows = @ \ {f}] /\ pc' = pc
    BY <1>2 DEF UpdateConfig
  <2>2. pc[p] = "config" /\ commits' = commits /\ versions' = versions
    BY DEF UpdateConfig
  <2>3. /\ work'[p].flows = work[p].flows \ {f} /\ work'[p].op = work[p].op
        /\ work'[p].sha = work[p].sha /\ work'[p].text = work[p].text
    BY <2>1 DEF Inv, Types, Work
  <2>4. Tip' = Tip
    BY <2>2 DEF Tip
  <2>5. QED  BY <2>1, <2>2, <2>3, <2>4 DEF Inv, Fact
<1>3. QED  BY <1>1, <1>2

LEMMA OtherWorkers ==
  ASSUME Types, NEW p \in Worker, NEW q \in Worker, q # p,
         OpNext(q) \/ TickNext(q) \/ OpFails(q) \/ TickFails(q) \/ Request(q)
  PROVE  work'[p] = work[p] /\ pc'[p] = pc[p]
<1>1. CASE ReconcileFile(q) \/ Request(q)
  <2>1. PICK op, flows, step : (work' = work /\ pc' = pc) \/ Begin(q, op, flows, step)
    BY <1>1 DEF ReconcileFile, Request
  <2>2. QED  BY <2>1 DEF Begin, Types
<1>2. CASE StartTick(q) \/ NotePosition(q) \/ TickFails(q)
  BY <1>2 DEF StartTick, NotePosition, TickFails, TickOver, Continue, Types
<1>3. CASE OpNext(q) \/ OpFails(q)
  BY <1>3 DEF OpNext, OpFails, ReadConfig, ReadFile, LookUpToken, ReadNumber, InsertVersion,
     MakeLive, InsertToken, Export, ReadRemote, Put, TreeCommit, UpdateConfig, Commit,
     Finish, Continue, Types
<1>4. QED  BY <1>1, <1>2, <1>3 DEF TickNext

LEMMA FactNext ==
  ASSUME Inv, [Next]_vars, Types', Working', Grown, NEW p \in Worker
  PROVE  Fact(p)'
<1>1. ASSUME NEW q \in Worker, q # p, OpNext(q) \/ TickNext(q) \/ OpFails(q) \/ TickFails(q) \/ Request(q)
      PROVE  Fact(p)'
  <2>1. work'[p] = work[p] /\ pc'[p] = pc[p]
    BY <1>1, OtherWorkers DEF Inv
  <2>2. QED  BY <2>1, FactKept DEF Inv
<1>2. CASE OpNext(p)
  BY <1>2, FactReadConfig, FactReadFile, FactLookUpToken, FactReadNumber, FactInsertVersion,
     FactMakeLive, FactInsertToken, FactExport, FactReadRemote, FactPut, FactTreeCommit,
     FactUpdateConfig DEF OpNext
<1>3. CASE OpFails(p)
  BY <1>3, FactFinish DEF OpFails, Inv
<1>4. CASE StartTick(p) \/ NotePosition(p) \/ TickFails(p)
  <2>1. pc'[p] \notin OpStep
    BY <1>4 DEF StartTick, NotePosition, TickFails, TickOver, Continue, Inv, Types, OpStep
  <2>2. QED  BY <2>1, FactIdle
<1>5. CASE ReconcileFile(p)
  <2>1. PICK f \in walk[p].todo :
          (pc' = pc /\ work' = work) \/ Begin(p, "pull", {f}, "read")
    BY <1>5 DEF ReconcileFile
  <2>2. f \in Flow
    BY DEF Inv, Types
  <2>3. CASE pc' = pc /\ work' = work
    BY <2>3, FactKept DEF Inv
  <2>4. CASE Begin(p, "pull", {f}, "read")
    <3>1. Begun(p, "pull", {f}, "read")
      BY <2>2, <2>4 DEF Begun, Operation
    <3>2. QED  BY <3>1, FactBegin DEF Inv
  <2>5. QED  BY <2>1, <2>3, <2>4
<1>6. CASE Request(p)
  <2>1. PICK op, flows, step : Begun(p, op, flows, step)
    BY <1>6, RequestBegins
  <2>2. QED  BY <2>1, FactBegin DEF Inv
<1>7. ASSUME NEW r \in Replica, Crash(r) PROVE Fact(p)'
  <2>1. (work'[p] = work[p] /\ pc'[p] = pc[p]) \/ pc'[p] = "idle"
    BY <1>7 DEF Crash
  <2>2. QED  BY <2>1, FactKept, FactIdle DEF Inv, OpStep
<1>8. CASE UNCHANGED vars \/ \E f \in Flow, c \in Content : Save(f, c) \/ OthersCommit(f, c)
  <2>1. work' = work /\ pc' = pc
    BY <1>8 DEF vars, Save, OthersCommit
  <2>2. QED  BY <2>1, FactKept DEF Inv
<1>9. QED  BY <1>1, <1>2, <1>3, <1>4, <1>5, <1>6, <1>7, <1>8 DEF Next, TickNext

-----------------------------------------------------------------------------
(* The rows of vc_pull_commits and the configurations.                     *)

LEMMA TokensNext ==
  ASSUME Inv, [Next]_vars, Types', Grown
  PROVE  Tokens'
<1>1. CASE imported' = imported
  BY <1>1, TokensKept DEF Inv
<1>2. CASE imported' # imported
  <2>1. PICK p \in Worker : InsertToken(p)
    BY <1>2 DEF Next, OpNext, TickNext, ReadConfig, ReadFile, LookUpToken, ReadNumber,
       InsertVersion, MakeLive, Export, ReadRemote, Put, TreeCommit, UpdateConfig, OpFails, StartTick, ReconcileFile, NotePosition,
       TickFails, Request, Save, OthersCommit, Crash, vars, db
  <2> DEFINE f == TheFlow(p)
             c == work[p].text[f]
             n == work[p].number[f]
  <2>2. f \in work[p].flows /\ f \in Flow
    BY <2>1, FlowOf DEF Inv, Working, InsertToken, OpStep
  <2>3. n \in 1..Latest(f) /\ versions[f][n] = c
    BY <2>1, <2>2 DEF InsertToken, Inv, Fact
  <2>4. imported' = [imported EXCEPT ![f][c] = n]
    BY <1>2, <2>1 DEF InsertToken
  <2> HIDE DEF f, c, n
  <2>5. \A g \in Flow, d \in Content :
          imported'[g][d] = IF g = f /\ d = c THEN n ELSE imported[g][d]
    BY <2>4 DEF Inv, Types
  <2>6. Tokens /\ (\A g \in Flow : \A i \in 1..Latest(g) :
          i \in 1..Latest(g)' /\ versions'[g][i] = versions[g][i])
    BY DEF Inv, Grown
  <2>7. QED  BY <2>2, <2>3, <2>5, <2>6 DEF Tokens
<1>3. QED  BY <1>1, <1>2

LEMMA ConfigsNext ==
  ASSUME Inv, [Next]_vars, Types', Grown
  PROVE  Configs'
<1>1. CASE last' = last
  BY <1>1, ConfigsKept DEF Inv
<1>2. CASE last' # last
  <2>1. PICK p \in Worker : UpdateConfig(p)
    BY <1>2 DEF Next, OpNext, TickNext, ReadConfig, ReadFile, LookUpToken, ReadNumber,
       InsertVersion, MakeLive, InsertToken, Export, ReadRemote, Put, TreeCommit, OpFails, StartTick, ReconcileFile, NotePosition,
       TickFails, Request, Save, OthersCommit, Crash, vars, db
  <2>2. PICK f \in work[p].flows : last' = [last EXCEPT ![f] = SyncedSha(p, f)]
    BY <2>1 DEF UpdateConfig
  <2>3. /\ f \in Flow /\ pc[p] = "config" /\ commits' = commits /\ versions' = versions
    BY <2>1 DEF UpdateConfig, Inv, Types, Work
  <2> DEFINE s == SyncedSha(p, f)
  <2>4. \/ s \in Content /\ s \in Items(versions[f])
        \/ s \in 1..Tip /\ commits[s][f] \in Items(versions[f])
    <3>1. CASE work[p].op \in {"push", "forcePush"}
      BY <2>2, <2>3, <3>1 DEF Inv, Fact, SyncedSha
    <3>2. CASE work[p].op \notin {"push", "forcePush"}
      <4>1. s = work[p].text[f] /\ s \in Items(versions[f])
        BY <2>2, <2>3, <3>2 DEF Inv, Fact, SyncedSha
      <4>2. QED  BY <2>3, <4>1, ItemsOf DEF Inv
    <3>3. QED  BY <3>1, <3>2
  <2> HIDE DEF s
  <2>5. last'[f] = s /\ \A g \in Flow \ {f} : last'[g] = last[g]
    BY <2>2, <2>3 DEF Inv, Types, s
  <2>6. Tip' = Tip
    BY <2>3 DEF Tip
  <2>7. QED  BY <2>3, <2>4, <2>5, <2>6 DEF Inv, Configs
<1>3. QED  BY <1>1, <1>2

LEMMA InvInit == Init => Inv
<1> SUFFICES ASSUME Init PROVE Inv
  OBVIOUS
<1>1. Types /\ Working
  BY InitTypes
<1>2. OneHolder
  BY DEF Init, OneHolder, Nothing
<1>3. Tokens /\ Configs
  BY DEF Init, Tokens, Configs
<1>4. \A p \in Worker : Fact(p)
  BY DEF Init, Fact, Nothing
<1>5. QED  BY <1>1, <1>2, <1>3, <1>4 DEF Inv

(* A step keeps the types and only appends versions and commits.           *)
LEMMA GrownNext ==
  ASSUME Inv, [Next]_vars
  PROVE  Types' /\ Working' /\ Grown
<1>1. \A p \in Worker : pc[p] = "insert" => work[p].text[TheFlow(p)] \in Content
  <2> SUFFICES ASSUME NEW p \in Worker, pc[p] = "insert"
               PROVE  work[p].text[TheFlow(p)] \in Content
    OBVIOUS
  <2>1. TheFlow(p) \in work[p].flows
    BY FlowOf DEF Inv, Working, OpStep
  <2>2. QED  BY <2>1 DEF Inv, Fact
<1>2. QED  BY <1>1, NextTypes DEF Inv

LEMMA InvNext == Inv /\ [Next]_vars => Inv'
<1> SUFFICES ASSUME Inv, [Next]_vars PROVE Inv'
  OBVIOUS
<1>2. Types' /\ Working' /\ Grown
  BY GrownNext
<1>3. OneHolder'
  BY HolderNext DEF Inv
<1>4. Tokens' /\ Configs'
  BY <1>2, TokensNext, ConfigsNext
<1>5. \A p \in Worker : Fact(p)'
  BY <1>2, FactNext
<1>6. QED  BY <1>2, <1>3, <1>4, <1>5 DEF Inv

(***************************************************************************)
(* The inductive invariant: what the workers and the rows are, who holds   *)
(* the locks, and what each worker knows that stays true while the others  *)
(* and the repository move, since versions and commits are only appended.  *)
(***************************************************************************)
THEOREM InvHolds == Spec => []Inv
  BY InvInit, InvNext, PTL DEF Spec

(***************************************************************************)
(* In every process, whatever the number of flows and of workers, no two   *)
(* operations that take a flow's lock work on it at once, and each keeps   *)
(* its locks until it ends (withMultipleTryLocks, all or none).            *)
(***************************************************************************)
THEOREM LocksAreExclusive == Spec => []OneHolder
<1>1. Inv => OneHolder
  BY DEF Inv
<1>2. QED  BY <1>1, InvHolds, PTL

(***************************************************************************)
(* A row of vc_pull_commits names a version with the text of its blob, for *)
(* any number of processes that import, save and crash.                    *)
(***************************************************************************)
THEOREM TokensAreSound == Spec => []TokensNameTheirVersion
<1>1. Inv => TokensNameTheirVersion
  BY DEF Inv, Tokens, TokensNameTheirVersion
<1>2. QED  BY <1>1, InvHolds, PTL

(***************************************************************************)
(* What a configuration was last synchronised with is a text that some     *)
(* version of its flow has.                                                *)
(***************************************************************************)
THEOREM ConfigsAreSound == Spec => []ConfigNamesAVersion
<1>1. Inv => ConfigNamesAVersion
  BY VcAssumption DEF Inv, Types, Configs, ConfigNamesAVersion
<1>2. QED  BY <1>1, InvHolds, PTL

-----------------------------------------------------------------------------
(* What a push that is not the first of its flow expects to find: it has   *)
(* read the configuration, which named a commit or a text that some        *)
(* version of the flow has, and does not ask the repository for the sha.   *)

Seen(p) ==
  /\ (pc[p] \in {"export", "put"} /\ work[p].op = "push" /\ ~work[p].first) =>
       /\ work[p].sha # None
       /\ work[p].sha \in Content => work[p].sha \in Items(versions[TheFlow(p)])
  /\ (pc[p] = "remote" /\ work[p].op = "push") => work[p].first

LEMMA SeenKept ==
  ASSUME Inv, Types', Grown, NEW p \in Worker, Seen(p), work'[p] = work[p], pc'[p] = pc[p]
  PROVE  Seen(p)'
<1>1. TheFlow(p)' = TheFlow(p)
  BY DEF TheFlow
<1>2. pc[p] \in OpStep => Items(versions[TheFlow(p)]) \subseteq Items(versions'[TheFlow(p)])
  <2>1. pc[p] \in OpStep => TheFlow(p) \in Flow
    BY FlowOf DEF Inv, Working
  <2>2. QED  BY <2>1, ItemsGrow DEF Inv
<1>3. QED  BY <1>1, <1>2 DEF Seen, OpStep

(* The sha is read with the configuration.                                 *)
LEMMA SeenReadConfig ==
  ASSUME Inv, Types', NEW p \in Worker, ReadConfig(p)
  PROVE  Seen(p)'
<1> DEFINE f == TheFlow(p)
           next == IF work[p].op = "pull" THEN "file" ELSE "export"
           first == work[p].op = "push" /\ last[f] = None
<1>1. f \in Flow
  BY FlowOf DEF Inv, ReadConfig, Working, OpStep
<1>2. /\ pc' = [pc EXCEPT ![p] = next] /\ versions' = versions
      /\ work' = [work EXCEPT ![p].sha = last[f], ![p].first = first]
  BY DEF ReadConfig, Continue, db
<1>3. /\ pc'[p] = next /\ work'[p].flows = work[p].flows /\ work'[p].op = work[p].op
      /\ work'[p].sha = last[f] /\ work'[p].first = first
  BY <1>2 DEF Inv, Types, Work
<1>4. TheFlow(p)' = f
  BY <1>3 DEF TheFlow
<1>5. last[f] \in Content => last[f] \in Items(versions[f])
  <2>1. \A i \in 1..Tip : i \notin Content
    BY TipType, VcAssumption DEF Inv
  <2>2. QED  BY <1>1, <2>1, VcAssumption DEF Inv, Configs
<1>6. /\ (work[p].op = "push" /\ ~first) => last[f] # None
      /\ next # "remote"
  OBVIOUS
<1> HIDE DEF f, next, first
<1>7. QED  BY <1>2, <1>3, <1>4, <1>5, <1>6 DEF Seen

(* What a push knows it keeps while it exports, and it asks only if it is  *)
(* the first.                                                              *)
LEMMA SeenExport ==
  ASSUME Inv, Types', NEW p \in Worker, Seen(p), Export(p)
  PROVE  Seen(p)'
<1>1. PICK f \in work[p].flows :
        /\ pc' = [pc EXCEPT ![p] = AfterExport(p, f)]
        /\ work' = [work EXCEPT ![p] = Exported(p, f)]
  BY ExportStep DEF Inv
<1>2. pc'[p] = AfterExport(p, f) /\ work'[p] = Exported(p, f)
  BY <1>1 DEF Inv, Types
<1>3. /\ Exported(p, f).op = work[p].op /\ Exported(p, f).flows = work[p].flows
      /\ Exported(p, f).sha = work[p].sha /\ Exported(p, f).first = work[p].first
  BY DEF Exported, Inv, Types, Work
<1>4. TheFlow(p)' = TheFlow(p) /\ pc[p] = "export" /\ versions' = versions
  BY <1>2, <1>3, ExportStep DEF TheFlow, Inv
<1>5. work[p].first \in BOOLEAN
  BY DEF Inv, Types, Work
<1>6. (AfterExport(p, f) = "remote" /\ work[p].op = "push") => work[p].sha = None
  BY DEF AfterExport, TakesAny
<1>7. QED  BY <1>2, <1>3, <1>4, <1>5, <1>6 DEF Seen

(* No push begins by exporting: it begins by reading the configuration.     *)
LEMMA SeenBegin ==
  ASSUME Inv, Types', Grown, NEW p \in Worker, Seen(p), NEW op, NEW flows, NEW step,
         Begun(p, op, flows, step)
  PROVE  Seen(p)'
<1> DEFINE locks == IF op \in {"forcePull", "forcePush"} THEN {} ELSE flows
           new == [Nothing EXCEPT !.op = op, !.flows = flows, !.locks = locks]
<1>1. CASE pc' = pc /\ work' = work
  BY <1>1, SeenKept
<1>2. CASE pc' = [pc EXCEPT ![p] = step] /\ work' = [work EXCEPT ![p] = new]
  <2>1. pc'[p] = step /\ work'[p].op = op
    BY <1>2 DEF Inv, Types, Nothing
  <2>2. QED  BY <2>1 DEF Seen, Begun
<1>3. QED  BY <1>1, <1>2 DEF Begin, Begun

LEMMA SeenNext ==
  ASSUME Inv, [Next]_vars, Types', Working', Grown, NEW p \in Worker, Seen(p)
  PROVE  Seen(p)'
<1>1. CASE \E q \in Worker \ {p} :
             OpNext(q) \/ TickNext(q) \/ OpFails(q) \/ TickFails(q) \/ Request(q)
  <2>1. work'[p] = work[p] /\ pc'[p] = pc[p]
    BY <1>1, OtherWorkers DEF Inv
  <2>2. QED  BY <2>1, SeenKept
<1>2. CASE ReadConfig(p) \/ Export(p)
  BY <1>2, SeenReadConfig, SeenExport
<1>3. CASE ReadRemote(p)
  <2>1. PICK sha : work' = [work EXCEPT ![p].sha = sha]
    BY <1>3 DEF ReadRemote
  <2>2. /\ work'[p].op = work[p].op /\ work'[p].first = work[p].first
        /\ pc'[p] \in {"put", "commit"} /\ pc[p] = "remote"
    BY <1>3, <2>1 DEF ReadRemote, Continue, Inv, Types, Work
  <2>3. QED  BY <2>2 DEF Seen
<1>4. CASE \/ ReadFile(p) \/ LookUpToken(p) \/ ReadNumber(p) \/ InsertVersion(p)
           \/ MakeLive(p) \/ InsertToken(p) \/ Put(p) \/ TreeCommit(p) \/ UpdateConfig(p)
           \/ OpFails(p) \/ StartTick(p) \/ NotePosition(p) \/ TickFails(p)
  <2>1. pc'[p] \notin {"export", "remote", "put"}
    BY <1>4 DEF ReadFile, LookUpToken, ReadNumber, InsertVersion, MakeLive, InsertToken, Put,
       TreeCommit, UpdateConfig, OpFails, StartTick, NotePosition, TickFails, TickOver,
       Commit, Finish, Continue, Inv, Types
  <2>2. QED  BY <2>1 DEF Seen
<1>5. CASE ReconcileFile(p) \/ Request(p)
  <2>1. (work' = work /\ pc' = pc) \/ \E op, flows, step : Begun(p, op, flows, step)
    <3>1. CASE Request(p)
      BY <3>1, RequestBegins
    <3>2. CASE ReconcileFile(p)
      <4>1. PICK f \in walk[p].todo : (pc' = pc /\ work' = work) \/ Begin(p, "pull", {f}, "read")
        BY <3>2 DEF ReconcileFile
      <4>2. f \in Flow
        BY DEF Inv, Types
      <4>3. Begin(p, "pull", {f}, "read") => Begun(p, "pull", {f}, "read")
        BY <4>2 DEF Begun, Operation
      <4>4. QED  BY <4>1, <4>3
    <3>3. QED  BY <1>5, <3>1, <3>2
  <2>2. ASSUME NEW op, NEW flows, NEW step, Begun(p, op, flows, step) PROVE Seen(p)'
    BY <2>2, SeenBegin DEF Inv
  <2>3. QED  BY <2>1, <2>2, SeenKept
<1>6. ASSUME NEW r \in Replica, Crash(r) PROVE Seen(p)'
  <2>1. (work'[p] = work[p] /\ pc'[p] = pc[p]) \/ pc'[p] = "idle"
    BY <1>6 DEF Crash
  <2>2. QED  BY <2>1, SeenKept DEF Seen
<1>7. CASE UNCHANGED vars \/ \E f \in Flow, c \in Content : Save(f, c) \/ OthersCommit(f, c)
  <2>1. work' = work /\ pc' = pc
    BY <1>7 DEF vars, Save, OthersCommit
  <2>2. QED  BY <2>1, SeenKept
<1>8. QED
  BY <1>1, <1>2, <1>3, <1>4, <1>5, <1>6, <1>7 DEF Next, OpNext, TickNext

(* The file that is replaced has the sha that the push expects.            *)
LEMMA PutReplacesTheSeen ==
  ASSUME Inv, Working', NEW p \in Worker, Seen(p), [Next]_vars,
         pc[p] = "put", pc'[p] = "config", work[p].op = "push", ~work[p].first
  PROVE  File(TheFlow(p)) \in Items(versions[TheFlow(p)])
<1>1. Put(p)
  <2>1. ~\E q \in Worker \ {p} :
           OpNext(q) \/ TickNext(q) \/ OpFails(q) \/ TickFails(q) \/ Request(q)
    BY OtherWorkers DEF Inv
  <2>2. ~\E r \in Replica : Crash(r)
    BY DEF Crash
  <2>3. ~(OpFails(p) \/ TickFails(p) \/ TickNext(p) \/ Request(p))
    BY DEF OpFails, TickFails, TickNext, StartTick, ReconcileFile, NotePosition,
       Request, Finish, TickOver, Inv, Types
  <2>4. ~UNCHANGED vars /\ ~\E f \in Flow, c \in Content : Save(f, c) \/ OthersCommit(f, c)
    BY DEF vars, Save, OthersCommit
  <2>5. OpNext(p)
    BY <2>1, <2>2, <2>3, <2>4 DEF Next
  <2>6. QED
    BY <2>5 DEF OpNext, ReadConfig, ReadFile, LookUpToken, ReadNumber, InsertVersion,
       MakeLive, InsertToken, Export, ReadRemote, TreeCommit, UpdateConfig
<1>2. work[p].sha = File(TheFlow(p))
  BY <1>1 DEF Put, Finish, Inv, Types
<1>3. TheFlow(p) \in Flow
  BY FlowOf DEF Inv, Working, OpStep
<1>4. File(TheFlow(p)) \in Content \cup {None}
  BY <1>3, TipType DEF Inv
<1>5. QED  BY <1>2, <1>4 DEF Seen

(***************************************************************************)
(* A plain push of a flow that has been synchronised before replaces only  *)
(* a text the instance has a version of, whoever commits, saves, pulls or  *)
(* pushes between the reading of the configuration and the request to the  *)
(* repository, in whichever process.                                       *)
(***************************************************************************)
THEOREM PushesLoseNothing == Spec => PushLosesNothing
<1> DEFINE I == Inv /\ \A p \in Worker : Seen(p)
<1>1. Init => I
  <2>1. Init => \A p \in Worker : Seen(p)
    BY DEF Init, Seen
  <2>2. QED  BY <2>1, InvInit
<1>2. I /\ [Next]_vars => I'
  <2> SUFFICES ASSUME I, [Next]_vars PROVE I'
    OBVIOUS
  <2>1. Inv'
    BY InvNext
  <2>2. Grown
    BY GrownNext
  <2>3. \A p \in Worker : Seen(p)'
    BY <2>1, <2>2, SeenNext DEF Inv
  <2>4. QED  BY <2>1, <2>3
<1>3. I /\ [Next]_vars =>
        [\A p \in Worker :
           (pc[p] = "put" /\ pc'[p] = "config" /\ work[p].op = "push" /\ ~work[p].first)
             => File(TheFlow(p)) \in Items(versions[TheFlow(p)])]_vars
  <2> SUFFICES ASSUME I, [Next]_vars, NEW p \in Worker,
                      pc[p] = "put", pc'[p] = "config", work[p].op = "push", ~work[p].first
               PROVE  File(TheFlow(p)) \in Items(versions[TheFlow(p)])
    OBVIOUS
  <2>1. Working'
    BY InvNext DEF Inv
  <2>2. QED  BY <2>1, PutReplacesTheSeen
<1> HIDE DEF I
<1>4. QED  BY <1>1, <1>2, <1>3, PTL DEF Spec, PushLosesNothing
=============================================================================
