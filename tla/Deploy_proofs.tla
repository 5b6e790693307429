---------------------------- MODULE Deploy_proofs ----------------------------
(***************************************************************************)
(* Proofs about Deploy: the stored record tells what the providers hold,   *)
(* and a record that replaces another one keeps what was published, for    *)
(* any number of operators, process files, providers and saves.            *)
(***************************************************************************)
EXTENDS Deploy, Compiler_proofs

-----------------------------------------------------------------------------
(* Compiled drafts and plans.                                              *)

Op == [op : {"deploy", "undeploy"}, node : Path]

\* Normalisation leaves the nodes, node types and modules of a definition as they are.
LEMMA HashSame ==
    ASSUME NEW d \in Accepts, DraftAssumption
    PROVE  /\ Hash(d) = Normalize(Definition[d])
           /\ Hash(d).inst = Definition[d].inst /\ Hash(d).modules = Definition[d].modules
           /\ Hash(d).nodeTypes = Definition[d].nodeTypes
           /\ Hash(d) # None
  <1>1. PICK def, p : def = Definition[d] /\ p = Normalize(def)
    OBVIOUS
  <1>2. Hash(d) = p
    BY <1>1 DEF Hash, IRs, Compile
  <1>3. WellFormed(def)
    BY <1>1 DEF DraftAssumption, Accepts
  <1>4. DOMAIN p = DOMAIN def /\ \A x \in DOMAIN def : x # "edges" => p[x] = def[x]
    BY <1>1, <1>3, NormalizeSorts
  <1>5. {"inst", "modules", "nodeTypes"} \subseteq DOMAIN def
    BY <1>3 DEF WellFormed
  <1>6. "inst" \notin DOMAIN None
    BY DEF None
  <1>7. p # None
    BY <1>4, <1>5, <1>6
  <1> QED  BY <1>1, <1>2, <1>4, <1>5, <1>7

\* An accepted definition is one that flattening and sorting are right about.
LEMMA HashFits ==
    ASSUME NEW d \in Accepts, DraftAssumption, AlphabetAssumption
    PROVE  Fit(Hash(d)) /\ WellFormed(Hash(d))
  <1>1. PICK def : def = Definition[d]
    OBVIOUS
  <1>2. Fit(def)
    BY <1>1 DEF DraftAssumption, Accepts, Fit, Valid
  <1>3. Fit(Normalize(def))
    BY <1>2, NormalizeFits
  <1> QED  BY <1>1, <1>3, HashSame DEF Fit

\* The flat nodes of a draft.
LEMMA Flattened ==
    ASSUME NEW d \in Accepts
    PROVE  LET g == Flat(Hash(d)) IN
           /\ IRs[d].names = g.nodes /\ DOMAIN IRs[d].nodes = Range(g.nodes)
           /\ \A q \in Range(g.nodes) :
                 /\ IRs[d].nodes[q].instance = g.inst[q]
                 /\ Last(q) \notin Marks =>
                       IRs[d].nodes[q].nodeType = Hash(d).nodeTypes[g.inst[q].type]
  <1>1. PICK ir, p : ir = Compile(Definition[d]) /\ p = Normalize(Definition[d])
    OBVIOUS
  <1>2. IRs[d] = ir
    BY <1>1 DEF IRs
  <1>3. ir.process = p
    BY <1>1, CompileParts
  <1>4. Hash(d) = p
    BY <1>2, <1>3 DEF Hash
  <1> QED  BY <1>1, <1>2, <1>4, CompileParts

\* Those of a process without module instances are its nodes.
LEMMA PlainNodes ==
    ASSUME NEW d \in Accepts, DraftAssumption, AlphabetAssumption, Plain(Hash(d))
    PROVE  /\ IRs[d].names \in Seq(Path)
           /\ Range(IRs[d].names) = Nodes(Hash(d)) /\ DOMAIN IRs[d].nodes = Nodes(Hash(d))
           /\ \A n \in DOMAIN Hash(d).inst :
                 /\ IRs[d].nodes[<<n>>].instance = Hash(d).inst[n]
                 /\ IRs[d].nodes[<<n>>].nodeType = Hash(d).nodeTypes[Hash(d).inst[n].type]
  <1>1. PICK p, g : p = Hash(d) /\ g = Flat(p)
    OBVIOUS
  <1>2. WellFormed(p) /\ DOMAIN p.inst \subseteq Name
    BY <1>1, HashFits DEF WellFormed, HasGraph
  <1>3. /\ g.nodes \in Seq(Path) /\ Range(g.nodes) = Nodes(p)
        /\ \A n \in DOMAIN p.inst : g.inst[<<n>>] = p.inst[n]
    BY <1>1, <1>2, FlatPlain
  <1>4. /\ IRs[d].names = g.nodes /\ DOMAIN IRs[d].nodes = Range(g.nodes)
        /\ \A q \in Range(g.nodes) :
              /\ IRs[d].nodes[q].instance = g.inst[q]
              /\ Last(q) \notin Marks => IRs[d].nodes[q].nodeType = p.nodeTypes[g.inst[q].type]
    BY <1>1, Flattened
  <1>5. ASSUME NEW n \in DOMAIN p.inst
        PROVE  /\ IRs[d].nodes[<<n>>].instance = p.inst[n]
               /\ IRs[d].nodes[<<n>>].nodeType = p.nodeTypes[p.inst[n].type]
    <2>1. <<n>> \in Range(g.nodes) /\ g.inst[<<n>>] = p.inst[n]
      BY <1>3 DEF Nodes
    <2>2. Last(<<n>>) = n
      BY DEF Last
    <2>3. n \notin Marks
      BY <1>2 DEF AlphabetAssumption
    <2> QED  BY <1>4, <2>1, <2>2, <2>3
  <1> QED  BY <1>1, <1>3, <1>4, <1>5

\* A process with module instances has a flat node that no deployment finds.
LEMMA NestedNode ==
    ASSUME NEW d \in Accepts, DraftAssumption, AlphabetAssumption, ~ Plain(Hash(d))
    PROVE  /\ IRs[d].names \in Seq(Path)
           /\ Range(IRs[d].names) = DOMAIN IRs[d].nodes
           /\ \E q \in DOMAIN IRs[d].nodes : Len(q) # 1 /\ ~ Found(Hash(d), q)
  <1>1. PICK p, g : p = Hash(d) /\ g = Flat(p)
    OBVIOUS
  <1>2. g.nodes \in Seq(Path) /\ \E q \in Range(g.nodes) : Len(q) > 1
    BY <1>1, HashFits, FlatModules
  <1>3. PICK q \in Range(g.nodes) : Len(q) > 1
    BY <1>2
  <1>4. q \in Path /\ Len(q) \in Nat
    BY <1>2, <1>3 DEF Range, Path
  <1>5. Len(q) # 1
    <2>1. \A n \in Nat : n > 1 => n # 1
      OBVIOUS
    <2> QED  BY <1>3, <1>4, <2>1, Zenon
  <1>6. ~ Found(Hash(d), q)
    BY <1>5 DEF Found
  <1> QED  BY <1>1, <1>2, <1>3, <1>5, <1>6, Flattened

LEMMA OrderedOps ==
    ASSUME NEW names \in Seq(Path), NEW S, NEW op \in {"deploy", "undeploy"}
    PROVE  LET nodes == Select(names, S)
               ops == [i \in DOMAIN nodes |-> [op |-> op, node |-> nodes[i]]]
           IN /\ ops \in Seq(Op)
              /\ Range(ops) = {[op |-> op, node |-> q] : q \in Range(names) \cap S}
  <1> PICK nodes : nodes = Select(names, S)
    OBVIOUS
  <1>1. nodes \in Seq(Path) /\ Range(nodes) = Range(names) \cap S
    BY SelectRange
  <1>2. DOMAIN nodes = 1..Len(nodes) /\ Len(nodes) \in Nat /\ \A i \in DOMAIN nodes : nodes[i] \in Path
    BY <1>1
  <1> DEFINE ops == [i \in DOMAIN nodes |-> [op |-> op, node |-> nodes[i]]]
  <1>3. \A i \in DOMAIN nodes : [op |-> op, node |-> nodes[i]] \in Op
    BY <1>2 DEF Op
  <1>4. ops \in Seq(Op)
    BY <1>2, <1>3
  <1>5. Range(ops) = {[op |-> op, node |-> q] : q \in Range(nodes)}
    BY DEF Range
  <1> QED  BY <1>1, <1>4, <1>5

\* A plan against a record speaks of nodes of the draft and of the record.
LEMMA DiffNodes ==
    ASSUME NEW old, NEW new, NEW plan, old # None, plan = Diff(old, new)
    PROVE  /\ plan.added \subseteq DOMAIN IRs[new].nodes
           /\ plan.modified \subseteq DOMAIN IRs[new].nodes
           /\ plan.removed \subseteq DOMAIN IRs[old.draft].nodes
  <1>1. PICK D, E, M, r :
            /\ D = DOMAIN IRs[new].nodes /\ E = DOMAIN IRs[old.draft].nodes
            /\ M = {q \in D \cap E : IRs[new].nodes[q] # IRs[old.draft].nodes[q]}
            /\ plan = [added |-> D \ E, removed |-> E \ D, modified |-> M, rewired |-> r]
    BY DEF Diff
  <1>2. plan.added = D \ E /\ plan.removed = E \ D /\ plan.modified = M
    BY <1>1
  <1>3. M \subseteq D
    BY <1>1
  <1> QED  BY <1>1, <1>2, <1>3

\* What a plan makes of the nodes.
LEMMA TodoOps ==
    ASSUME NEW a, a.draft \in Accepts, DraftAssumption, AlphabetAssumption,
           a.old = None \/ (a.old.draft \in Accepts /\ Plain(Hash(a.old.draft))),
           a.plan = Diff(a.old, a.draft)
    PROVE  /\ Todo(a) \in Seq(Op)
           /\ Range(Todo(a)) =
                 {[op |-> "deploy", node |-> q] : q \in a.plan.added \cup a.plan.modified}
                 \cup {[op |-> "undeploy", node |-> q] : q \in a.plan.removed}
  <1> DEFINE Ordered(names, S, op) ==
                LET nodes == Select(names, S)
                IN [i \in DOMAIN nodes |-> [op |-> op, node |-> nodes[i]]]
             Ops(S, o) == {[op |-> o, node |-> q] : q \in S}
  <1>1. CASE a.old = None
    <2> DEFINE top == Top(Hash(a.draft)).nodes
    <2>1. top \in Seq(Path) /\ Range(top) = Nodes(Hash(a.draft))
      BY HashFits, TopNodes
    <2>2. /\ a.plan.added = Nodes(Hash(a.draft)) /\ a.plan.modified = {} /\ a.plan.removed = {}
      BY <1>1 DEF Diff, Nodes, Hash
    <2>3. Todo(a) = Ordered(top, a.plan.added, "deploy")
      BY <1>1 DEF Todo
    <2> HIDE DEF top
    <2>4. /\ Ordered(top, a.plan.added, "deploy") \in Seq(Op)
          /\ Range(Ordered(top, a.plan.added, "deploy")) = Ops(Range(top) \cap a.plan.added, "deploy")
      BY <2>1, OrderedOps
    <2> QED  BY <2>1, <2>2, <2>3, <2>4
  <1>2. CASE a.old # None
    <2> DEFINE new == IRs[a.draft].names
               old == IRs[a.old.draft].names
               A == Ordered(new, a.plan.added, "deploy")
               M == Ordered(new, a.plan.modified, "deploy")
               R == Ordered(old, a.plan.removed, "undeploy")
    <2>1. /\ new \in Seq(Path) /\ Range(new) = DOMAIN IRs[a.draft].nodes
          /\ old \in Seq(Path) /\ Range(old) = DOMAIN IRs[a.old.draft].nodes
      BY <1>2, PlainNodes, NestedNode
    <2>2. /\ a.plan.added \subseteq Range(new) /\ a.plan.modified \subseteq Range(new)
          /\ a.plan.removed \subseteq Range(old)
      <3>1. PICK before, draft, plan : before = a.old /\ draft = a.draft /\ plan = a.plan
        OBVIOUS
      <3>2. /\ plan.added \subseteq DOMAIN IRs[draft].nodes
            /\ plan.modified \subseteq DOMAIN IRs[draft].nodes
            /\ plan.removed \subseteq DOMAIN IRs[before.draft].nodes
        BY <1>2, <3>1, DiffNodes
      <3> QED  BY <2>1, <3>1, <3>2
    <2>3. Todo(a) = A \o M \o R
      BY <1>2 DEF Todo
    <2> HIDE DEF new, old
    <2>4. /\ A \in Seq(Op) /\ Range(A) = Ops(Range(new) \cap a.plan.added, "deploy")
          /\ M \in Seq(Op) /\ Range(M) = Ops(Range(new) \cap a.plan.modified, "deploy")
          /\ R \in Seq(Op) /\ Range(R) = Ops(Range(old) \cap a.plan.removed, "undeploy")
      BY <2>1, OrderedOps
    <2> HIDE DEF A, M, R
    <2>5. A \o M \in Seq(Op) /\ Range(A \o M) = Range(A) \cup Range(M)
      BY <2>4, ConcatRange
    <2>a. PICK c : c = A \o M
      OBVIOUS
    <2>b. c \in Seq(Op)
      BY <2>5, <2>a
    <2>c. R \in Seq(Op)
      BY <2>4
    <2>6. c \o R \in Seq(Op) /\ Range(c \o R) = Range(c) \cup Range(R)
      BY <2>b, <2>c, ConcatRange
    <2>7. /\ Range(A) = Ops(a.plan.added, "deploy") /\ Range(M) = Ops(a.plan.modified, "deploy")
          /\ Range(R) = Ops(a.plan.removed, "undeploy")
      BY <2>2, <2>4
    <2> QED  BY <2>3, <2>5, <2>a, <2>6, <2>7
  <1> QED  BY <1>1, <1>2

-----------------------------------------------------------------------------
(* The inductive invariant.                                                *)

\* A stored record; the fields a command has at each of its steps.
Stored(r) ==
    /\ DOMAIN r = {"draft", "version", "deployments"}
    /\ r.draft \in Accepts /\ r.version \in Nat \ {0}
Command(a) ==
    \/ a = Idle
    \/ /\ DOMAIN a = {"pc", "draft", "old", "stale"} /\ a.pc = "loaded"
       /\ a.draft \in Accepts /\ a.stale \in BOOLEAN
    \/ DOMAIN a = {"pc", "draft", "old"} /\ a.pc = "unchanged"
    \/ /\ DOMAIN a = {"pc", "draft", "old", "plan", "hash", "stale"} /\ a.pc = "planned"
       /\ a.draft \in Accepts /\ a.stale \in BOOLEAN
    \/ /\ DOMAIN a = {"pc", "draft", "old", "stale", "todo", "deployments"}
       /\ a.pc = "deploying"
       /\ a.draft \in Accepts /\ a.stale \in BOOLEAN /\ a.todo \in Seq(Op)
    \/ /\ DOMAIN a = {"pc", "draft", "deployments", "stale", "version"}
       /\ a.pc \in {"versioned", "writing"}
       /\ a.draft \in Accepts /\ a.stale \in BOOLEAN /\ a.version \in Nat \ {0}
Saving == {"deploying", "versioned", "writing"}

TypeInv ==
    /\ DOMAIN apply = Operator /\ \A s \in Operator : Command(apply[s])
    /\ file \in {None, Empty} \/ Stored(file)
    /\ previous = None \/ Stored(previous)
    /\ \A x \in live : x.provider \in Registered
    /\ \A q \in DOMAIN touched : touched[q] \in Operator \cup {Debris}
    /\ tainted \in BOOLEAN

\* No process with module instances is ever saved: what is left to deploy of it has a node
\* that is not found.  What is left to take away is of the record, which has none.
PlainOld(old) == old = None \/ (Stored(old) /\ Plain(Hash(old.draft)))
Blocked(a) ==
    \E x \in Range(a.todo) : x.op = "deploy" /\ ~ Found(Hash(a.draft), x.node)
RemovesOld(a) ==
    \A x \in Range(a.todo) : x.op = "undeploy" =>
        a.old # None /\ x.node \in Nodes(Hash(a.old.draft))
PlainCommand(a) ==
    /\ a.pc \in {"loaded", "planned", "deploying"} => PlainOld(a.old)
    /\ a.pc = "deploying" => (Plain(Hash(a.draft)) \/ Blocked(a)) /\ RemovesOld(a)
    /\ a.pc \in {"versioned", "writing"} => Plain(Hash(a.draft))
PlainInv ==
    /\ HasRecord => Plain(Hash(file.draft))
    /\ \A s \in Operator : PlainCommand(apply[s])

\* A node is touched by those who have not saved; whoever is past the drift check while
\* another one writes knows that it is late.
OwnerInv ==
    \A s \in Operator : (\E q \in DOMAIN touched : touched[q] = s) => apply[s].pc \in Saving
RaceInv ==
    \A x \in Operator : apply[x].pc = "writing" =>
        file # None /\ \A y \in Operator \ {x} : apply[y].pc \in Saving => apply[y].stale

\* The record a command is planned against, and what the one it writes replaces: r is the
\* record that is there, p the one that was last there.
Replaces(r, d) == r = None \/ Compatible(Hash(r.draft), Hash(d))
PlannedWell(a, r, p) ==
    /\ a.pc = "loaded" => a.stale \/ a.old = r
    /\ a.pc = "planned" => /\ a.plan = Diff(a.old, a.draft) /\ Replaces(a.old, a.draft)
                           /\ a.stale \/ a.hash = RecordHash(a.old)
    /\ a.pc \in {"deploying", "versioned"} => a.stale \/ Replaces(r, a.draft)
    /\ a.pc = "versioned" => a.stale \/ r = None \/ a.version = r.version + 1
    /\ a.pc = "writing" => a.stale \/ p = None \/
                           (Replaces(p, a.draft) /\ a.version = p.version + 1)
PlanInv == \A s \in Operator : PlannedWell(apply[s], Record, previous)

\* Where there is no record and nobody writes one, nothing is known to be deployed.
NodesIn(L) == {x.node : x \in L}
LostInv ==
    (~ HasRecord /\ \A s \in Operator : apply[s].pc # "writing") =>
        previous = None /\ NodesIn(live) \subseteq strays \cup DOMAIN touched

\* What the providers hold of node q, among the artifacts L, is what the definition, or
\* the record a command started from, has there.
Fits(def, q, L) ==
    /\ q \in Provided(def) =>
          [node |-> q, provider |-> Provider(def, q), config |-> Config(def, q)] \in L
    /\ q \in NodesIn(L) => q \in Provided(def)
ProvidedBy(old) == IF old = None THEN {} ELSE Provided(Hash(old.draft))
FitsOld(old, q, L) == IF old = None THEN q \notin NodesIn(L) ELSE Fits(Hash(old.draft), q, L)

\* What is left to do: nodes of the draft to deploy, and others to take away.
Pending(a) == IF a.pc = "deploying" THEN {x.node : x \in Range(a.todo)} ELSE {}
TodoFits(a) ==
    \A x \in Range(a.todo) :
        IF x.op = "deploy" THEN x.node \in Nodes(Hash(a.draft))
        ELSE a.old # None /\ x.node \in Nodes(Hash(a.old.draft)) \ Nodes(Hash(a.draft))

\* The deployments a command is about to save, and what is live, are those of its draft for
\* a node that is done, and those of the record it started from for one that is not.
Listed(a, q) ==
    \/ q \in DOMAIN a.deployments <=> q \in Provided(Hash(a.draft))
    \/ q \in Pending(a) /\ (q \in DOMAIN a.deployments <=> q \in ProvidedBy(a.old))
Held(s, a, q, L, T) ==
    \/ q \in DOMAIN T /\ T[q] # s
    \/ Fits(Hash(a.draft), q, L)
    \/ q \in Pending(a) /\ q \notin DOMAIN T /\ FitsOld(a.old, q, L)
Kept(s, a, L, T, X) ==
    /\ a.pc = "deploying" => TodoFits(a)
    /\ ~ a.stale => \A q : q \notin X => Listed(a, q) /\ Held(s, a, q, L, T)
KeptInv ==
    \A s \in Operator : (apply[s].pc \in Saving /\ Plain(Hash(apply[s].draft))) =>
        Kept(s, apply[s], live, touched, strays)

Inv == /\ TypeInv /\ PlainInv /\ OwnerInv /\ RaceInv /\ PlanInv /\ LostInv
       /\ RecordIsLive /\ KeptInv

-----------------------------------------------------------------------------
(* The steps of a command.                                                 *)

\* A step of operator s.
StepOf(s) ==
    \/ \E d \in Draft : Load(s, d)
    \/ Plan(s) \/ Stop(s) \/ Confirm(s)
    \/ Deploy(s) \/ Undeploy(s) \/ Missing(s)
    \/ ReadVersion(s) \/ Truncate(s) \/ Write(s)
    \/ Crash(s)

\* Only operator s moves, to b.
Moves(s, b) ==
    /\ DOMAIN apply' = Operator /\ apply'[s] = b
    /\ \A x \in Operator : x # s => apply'[x] = apply[x]
\* What Overtaken makes of a command.
Late(a) ==
    IF a.pc \in {"loaded", "deploying", "versioned", "writing"}
    THEN [a EXCEPT !.stale = TRUE] ELSE a

LEMMA Moved ==
    ASSUME DOMAIN apply = Operator, NEW s \in Operator, NEW b, apply' = [apply EXCEPT ![s] = b]
    PROVE  Moves(s, b)
  BY DEF Moves

LEMMA LateCommand ==
    ASSUME NEW a, Command(a)
    PROVE  /\ Command(Late(a)) /\ Late(a).pc = a.pc /\ DOMAIN Late(a) = DOMAIN a
           /\ \A f \in DOMAIN a : f # "stale" => Late(a)[f] = a[f]
           /\ a.pc \in Saving => Late(a).stale
           /\ a.pc = "loaded" => Late(a).stale
  <1> PICK b : b = Late(a)
    OBVIOUS
  <1>1. CASE a.pc \in {"loaded", "deploying", "versioned", "writing"}
    <2>1. b = [a EXCEPT !.stale = TRUE]
      BY <1>1 DEF Late
    <2>2. "stale" \in DOMAIN a /\ "pc" \in DOMAIN a
      BY <1>1 DEF Command, Idle
    <2>3. DOMAIN b = DOMAIN a /\ b.stale /\ \A f \in DOMAIN a : f # "stale" => b[f] = a[f]
      BY <2>1, <2>2
    <2>4. b.pc = a.pc /\ b.stale \in BOOLEAN
      BY <2>1, <2>2
    <2>5. Command(b)
      BY <1>1, <2>3, <2>4 DEF Command, Idle
    <2> QED  BY <2>3, <2>4, <2>5
  <1>2. CASE a.pc \notin {"loaded", "deploying", "versioned", "writing"}
    <2>1. b = a /\ a.pc \notin Saving /\ a.pc # "loaded"
      BY <1>2 DEF Late, Saving
    <2> QED  BY <2>1
  <1> QED  BY <1>1, <1>2

\* What Continue makes of it.
Advanced(a, D) == [a EXCEPT !.todo = Tail(@), !.deployments = D]

LEMMA ContinueCommand ==
    ASSUME NEW a, Command(a), a.pc = "deploying", a.todo # << >>, NEW D, NEW b, b = Advanced(a, D)
    PROVE  /\ Command(b) /\ b.pc = "deploying" /\ b.draft = a.draft /\ b.old = a.old
           /\ b.stale = a.stale /\ b.todo = Tail(a.todo) /\ b.deployments = D
  <1>1. a.todo \in Seq(Op)
    BY DEF Command, Idle
  <1>2. Tail(a.todo) \in Seq(Op)
    BY <1>1
  <1> QED  BY <1>2 DEF Command, Idle, Advanced

LEMMA OvertakenStep ==
    ASSUME DOMAIN apply = Operator, \A x \in Operator : Command(apply[x]),
           NEW s \in Operator, apply[s].pc \in Saving
    PROVE  /\ Truncate(s) =>
                /\ DOMAIN apply' = Operator /\ apply'[s] = [apply[s] EXCEPT !.pc = "writing"]
                /\ \A x \in Operator : x # s => apply'[x] = Late(apply[x])
           /\ Write(s) =>
                /\ DOMAIN apply' = Operator /\ apply'[s] = Idle
                /\ \A x \in Operator : x # s => apply'[x] = Late(apply[x])
  <1> PICK o : o = Overtaken(s)
    OBVIOUS
  <1>1. /\ DOMAIN o = Operator /\ o[s] = apply[s]
        /\ \A x \in Operator : x # s => o[x] = Late(apply[x])
    BY DEF Overtaken, Late
  <1>2. Truncate(s) => apply' = [o EXCEPT ![s].pc = "writing"]
    BY DEF Truncate
  <1>3. Write(s) => apply' = [o EXCEPT ![s] = Idle]
    BY DEF Write
  <1> QED  BY <1>1, <1>2, <1>3

\* Each of the other steps moves one operator.
LEMMA Steps ==
    ASSUME TypeInv, NEW s \in Operator
    PROVE  /\ \A d : Load(s, d) =>
                Moves(s, [pc |-> "loaded", draft |-> d, old |-> Record, stale |-> FALSE])
           /\ Stop(s) \/ Missing(s) \/ Crash(s) => Moves(s, Idle)
           /\ ReadVersion(s) =>
                Moves(s, [pc |-> "versioned", draft |-> apply[s].draft,
                          deployments |-> apply[s].deployments, stale |-> apply[s].stale,
                          version |-> IF HasRecord THEN file.version + 1 ELSE 1])
  BY Moved DEF TypeInv, Load, Stop, Missing, Crash, Quit, Leave, ReadVersion

LEMMA PlanStep ==
    ASSUME TypeInv, NEW s \in Operator, Plan(s), NEW a, a = apply[s]
    PROVE  \/ Moves(s, Idle)
           \/ Moves(s, [pc |-> "unchanged", draft |-> a.draft, old |-> a.old])
           \/ /\ Replaces(a.old, a.draft)
              /\ Moves(s, [pc |-> "planned", draft |-> a.draft, old |-> a.old,
                           plan |-> Diff(a.old, a.draft),
                           hash |-> RecordHash(Record), stale |-> a.stale])
  <1>1. CASE a.old # None /\ ~Compatible(Hash(a.old.draft), Hash(a.draft))
    BY <1>1, Moved DEF TypeInv, Plan
  <1>2. CASE /\ ~ (a.old # None /\ ~Compatible(Hash(a.old.draft), Hash(a.draft)))
             /\ IsEmpty(Diff(a.old, a.draft))
    BY <1>2, Moved DEF TypeInv, Plan
  <1>3. CASE /\ ~ (a.old # None /\ ~Compatible(Hash(a.old.draft), Hash(a.draft)))
             /\ ~ IsEmpty(Diff(a.old, a.draft))
    BY <1>3, Moved DEF TypeInv, Plan, Replaces
  <1> QED  BY <1>1, <1>2, <1>3

LEMMA ConfirmStep ==
    ASSUME TypeInv, NEW s \in Operator, Confirm(s), NEW a, a = apply[s]
    PROVE  \/ Moves(s, Idle)
           \/ /\ RecordHash(Record) = a.hash
              /\ Moves(s, [pc |-> "deploying", draft |-> a.draft, old |-> a.old,
                           stale |-> a.stale \/ MidSave(s), todo |-> Todo(a),
                           deployments |-> IF HasRecord THEN file.deployments ELSE << >>])
  <1>1. CASE RecordHash(Record) # a.hash
    BY <1>1, Moved DEF TypeInv, Confirm
  <1>2. CASE RecordHash(Record) = a.hash
    BY <1>2, Moved DEF TypeInv, Confirm
  <1> QED  BY <1>1, <1>2

\* What a call of a provider for node q does to what is live and touched: nothing, or
\* something to that node alone.
Touches(s, q) ==
    \/ live' = live /\ touched' = touched
    \/ /\ \A x : x.node # q => (x \in live' <=> x \in live)
       /\ DOMAIN touched' = DOMAIN touched \cup {q} /\ touched'[q] = s
       /\ \A y \in DOMAIN touched : y # q => touched'[y] = touched[y]
\* The deployments of a command, from D1 to D2, but for node q.
SameBut(q, D1, D2) == \A y : y # q => (y \in DOMAIN D2 <=> y \in DOMAIN D1)

LEMMA ContinueStep ==
    ASSUME TypeInv, NEW s \in Operator, NEW D, Continue(s, D)
    PROVE  Moves(s, Advanced(apply[s], D))
  <1> PICK a : a = apply[s]
    OBVIOUS
  <1>1. apply' = [apply EXCEPT ![s] = Advanced(a, D)]
    BY DEF Continue, TypeInv, Advanced
  <1> QED  BY <1>1, Moved DEF TypeInv

\* What Deploy leaves of node q, and of its entry in the deployments D.
Placed(def, q, D) ==
    /\ q \in DOMAIN D <=> Provider(def, q) \in Registered
    /\ Provider(def, q) \in Registered =>
         [node |-> q, provider |-> Provider(def, q), config |-> Config(def, q)] \in live'
    /\ q \in NodesIn(live') => Provider(def, q) \in Registered

LEMMA DeployStep ==
    ASSUME TypeInv, NEW s \in Operator, Deploy(s), NEW a, a = apply[s],
           NEW q, q = Head(a.todo).node, NEW def, def = Hash(a.draft)
    PROVE  /\ a.pc = "deploying" /\ a.todo # << >> /\ Head(a.todo).op = "deploy" /\ Found(def, q)
           /\ Touches(s, q) /\ strays \subseteq strays' /\ strays' \subseteq strays \cup {q}
           /\ \A x \in live' : x.provider \in Registered
           /\ q \in NodesIn(live') => q \in NodesIn(live) \/ q \in DOMAIN touched'
           /\ UNCHANGED <<file, previous, tainted>>
           /\ \E D : /\ Moves(s, Advanced(a, D))
                     /\ SameBut(q, a.deployments, D)
                     /\ q \notin strays' => Placed(def, q, D)
  <1> PICK p : p = Provider(def, q)
    OBVIOUS
  <1> PICK r : r = [node |-> q, provider |-> p, config |-> Config(def, q)]
    OBVIOUS
  <1>1. a.pc = "deploying" /\ a.todo # << >> /\ Head(a.todo).op = "deploy" /\ Found(def, q)
    BY DEF Deploy, Doing
  <1>2. strays' = strays \cup {n \in {q} : \/ Others(n, p) # {}
                                           \/ p \notin Registered /\ n \in DOMAIN a.deployments}
    BY DEF Deploy
  <1>3. UNCHANGED <<file, previous, tainted>>
    BY DEF Deploy
  <1>4. \A x \in live : x.provider \in Registered
    BY DEF TypeInv
  <1>5. CASE p \in Registered
    <2>1. /\ live' = {x \in live : x.node # q \/ x.provider # p} \cup {r}
          /\ touched' = Put(touched, q, s)
          /\ Continue(s, Put(a.deployments, q, [provider |-> p, config |-> Config(def, q)]))
      BY <1>5 DEF Deploy
    <2> PICK v : v = [provider |-> p, config |-> Config(def, q)]
      OBVIOUS
    <2> PICK D : D = Put(a.deployments, q, v)
      OBVIOUS
    <2>a. DOMAIN D = DOMAIN a.deployments \cup {q}
      BY DEF Put
    <2>2. Moves(s, Advanced(a, D))
      BY <2>1, ContinueStep
    <2>b. /\ DOMAIN touched' = DOMAIN touched \cup {q} /\ touched'[q] = s
          /\ \A y \in DOMAIN touched : y # q => touched'[y] = touched[y]
      BY <2>1 DEF Put
    <2>3. Touches(s, q)
      <3>1. \A x : x.node # q => (x \in live' <=> x \in live)
        BY <2>1
      <3> QED  BY <2>b, <3>1 DEF Touches
    <2>4. SameBut(q, a.deployments, D) /\ q \in DOMAIN D
      BY <2>a DEF SameBut
    <2>5. r \in live' /\ q \in DOMAIN touched' /\ \A x \in live' : x.provider \in Registered
      <3>1. r.provider = p
        OBVIOUS
      <3>2. \A x \in live' : x \in live \/ x = r
        BY <2>1
      <3>3. r \in live'
        BY <2>1
      <3> QED  BY <1>4, <1>5, <2>b, <3>1, <3>2, <3>3
    <2>6. Placed(def, q, D)
      BY <1>5, <2>4, <2>5 DEF Placed
    <2> QED  BY <1>1, <1>2, <1>3, <1>5, <2>2, <2>3, <2>4, <2>5, <2>6
  <1>6. CASE p \notin Registered
    <2>1. live' = live /\ touched' = touched /\ Continue(s, a.deployments)
      BY <1>6 DEF Deploy
    <2>2. Moves(s, Advanced(a, a.deployments))
      BY <2>1, ContinueStep
    <2>3. ASSUME q \notin strays' PROVE q \notin DOMAIN a.deployments /\ q \notin NodesIn(live')
      <3>1. q \notin DOMAIN a.deployments /\ Others(q, p) = {}
        BY <1>2, <1>6, <2>3
      <3> QED  BY <1>4, <1>6, <2>1, <3>1 DEF NodesIn, Others
    <2>4. Touches(s, q) /\ SameBut(q, a.deployments, a.deployments)
      BY <2>1 DEF Touches, SameBut
    <2>5. q \notin strays' => Placed(def, q, a.deployments)
      BY <1>6, <2>3 DEF Placed
    <2> QED  BY <1>1, <1>2, <1>3, <1>4, <1>6, <2>1, <2>2, <2>4, <2>5
  <1> QED  BY <1>5, <1>6

LEMMA UndeployStep ==
    ASSUME TypeInv, NEW s \in Operator, Undeploy(s), NEW a, a = apply[s],
           NEW q, q = Head(a.todo).node, NEW p, p = Provider(Hash(a.old.draft), q)
    PROVE  /\ a.pc = "deploying" /\ a.todo # << >> /\ Head(a.todo).op = "undeploy"
           /\ Touches(s, q) /\ strays \subseteq strays' /\ strays' \subseteq strays \cup {q}
           /\ live' \subseteq live
           /\ UNCHANGED <<file, previous, tainted>>
           /\ \E D : /\ Moves(s, Advanced(a, D))
                     /\ SameBut(q, a.deployments, D)
                     /\ q \notin strays' =>
                          /\ q \notin NodesIn(live')
                          /\ p \in Registered => q \notin DOMAIN D
                          /\ p \notin Registered => D = a.deployments
  <1>1. a.pc = "deploying" /\ a.todo # << >> /\ Head(a.todo).op = "undeploy"
    BY DEF Undeploy, Doing
  <1>2. strays' = strays \cup {n \in {q} : Others(n, p) # {}}
    BY DEF Undeploy
  <1>3. UNCHANGED <<file, previous, tainted>>
    BY DEF Undeploy
  <1>4. \A x \in live : x.provider \in Registered
    BY DEF TypeInv
  <1>5. CASE p \in Registered
    <2> PICK D : D = [n \in DOMAIN a.deployments \ {q} |-> a.deployments[n]]
      OBVIOUS
    <2>1. /\ live' = {x \in live : x.node # q \/ x.provider # p}
          /\ touched' = Put(touched, q, s) /\ Continue(s, D)
      BY <1>5 DEF Undeploy
    <2>2. Moves(s, Advanced(a, D))
      BY <2>1, ContinueStep
    <2>b. /\ DOMAIN touched' = DOMAIN touched \cup {q} /\ touched'[q] = s
          /\ \A y \in DOMAIN touched : y # q => touched'[y] = touched[y]
      BY <2>1 DEF Put
    <2>3. Touches(s, q)
      BY <2>1, <2>b DEF Touches
    <2>4. SameBut(q, a.deployments, D) /\ q \notin DOMAIN D
      BY DEF SameBut
    <2>5. q \notin strays' => q \notin NodesIn(live')
      BY <1>2, <2>1 DEF NodesIn, Others
    <2> QED  BY <1>1, <1>2, <1>3, <1>5, <2>1, <2>2, <2>3, <2>4, <2>5
  <1>6. CASE p \notin Registered
    <2>1. live' = live /\ touched' = touched /\ Continue(s, a.deployments)
      BY <1>6 DEF Undeploy
    <2>2. Moves(s, Advanced(a, a.deployments))
      BY <2>1, ContinueStep
    <2>3. q \notin strays' => q \notin NodesIn(live')
      BY <1>2, <1>4, <1>6, <2>1 DEF NodesIn, Others
    <2>4. Touches(s, q) /\ SameBut(q, a.deployments, a.deployments)
      BY <2>1 DEF Touches, SameBut
    <2> QED  BY <1>1, <1>2, <1>3, <1>6, <2>1, <2>2, <2>3, <2>4
  <1> QED  BY <1>5, <1>6

LEMMA TruncateStep ==
    ASSUME TypeInv, NEW s \in Operator, Truncate(s)
    PROVE  /\ apply[s].pc = "versioned" /\ file' = Empty
           /\ previous' = IF HasRecord THEN file ELSE previous
           /\ UNCHANGED <<live, touched, strays, tainted>>
           /\ DOMAIN apply' = Operator /\ apply'[s] = [apply[s] EXCEPT !.pc = "writing"]
           /\ \A x \in Operator : x # s => apply'[x] = Late(apply[x])
  <1>1. apply[s].pc \in Saving
    BY DEF Truncate, Saving
  <1> QED  BY <1>1, OvertakenStep DEF Truncate, TypeInv

LEMMA WriteStep ==
    ASSUME TypeInv, NEW s \in Operator, Write(s)
    PROVE  /\ apply[s].pc = "writing"
           /\ file' = [draft |-> apply[s].draft, version |-> apply[s].version,
                       deployments |-> apply[s].deployments]
           /\ tainted' = (tainted \/ apply[s].stale)
           /\ touched' = [q \in {n \in DOMAIN touched : touched[n] # s} |-> touched[q]]
           /\ UNCHANGED <<live, strays, previous>>
           /\ DOMAIN apply' = Operator /\ apply'[s] = Idle
           /\ \A x \in Operator : x # s => apply'[x] = Late(apply[x])
  <1>1. apply[s].pc \in Saving
    BY DEF Write, Saving
  <1> QED  BY <1>1, OvertakenStep DEF Write, TypeInv

\* When a command ends, the nodes it touched are nobody's.
LEMMA QuitStep ==
    ASSUME NEW s \in Operator, Quit(s), OperatorAssumption
    PROVE  /\ DOMAIN touched' = DOMAIN touched
           /\ \A q \in DOMAIN touched : touched'[q] = IF touched[q] = s THEN Debris ELSE touched[q]
           /\ \A q \in DOMAIN touched' : touched'[q] # s
  BY DEF Quit, Settle, OperatorAssumption

-----------------------------------------------------------------------------
(* Types.                                                                  *)

LEMMA IdleCommand == Command(Idle) /\ Idle.pc = "idle"
  BY DEF Command, Idle

LEMMA MovesTypes ==
    ASSUME TypeInv, NEW s \in Operator, NEW b, Moves(s, b), Command(b)
    PROVE  DOMAIN apply' = Operator /\ \A x \in Operator : Command(apply'[x])
  BY DEF TypeInv, Moves

LEMMA TypeStep ==
    ASSUME TypeInv, PlainInv, PlanInv, [Next]_vars, DraftAssumption, AlphabetAssumption,
           OperatorAssumption
    PROVE  TypeInv'
  <1>1. CASE UNCHANGED vars
    BY <1>1 DEF TypeInv, vars
  <1> SUFFICES ASSUME NEW s \in Operator, StepOf(s) PROVE TypeInv'
    BY <1>1 DEF Next, StepOf
  <1> PICK a : a = apply[s]
    OBVIOUS
  <1>c. Command(a)
    BY DEF TypeInv
  <1>2. ASSUME NEW d \in Draft, Load(s, d) PROVE TypeInv'
    <2> DEFINE b == [pc |-> "loaded", draft |-> d, old |-> Record, stale |-> FALSE]
    <2>1. Moves(s, b) /\ d \in Accepts /\ UNCHANGED <<file, live, touched, strays, previous, tainted>>
      BY <1>2, Steps DEF Load
    <2>2. Command(b)
      BY <2>1 DEF Command
    <2> HIDE DEF b
    <2>3. DOMAIN apply' = Operator /\ \A x \in Operator : Command(apply'[x])
      BY <2>1, <2>2, MovesTypes
    <2> QED  BY <2>1, <2>3 DEF TypeInv
  <1>3. CASE Plan(s)
    <2>1. a.pc = "loaded" /\ UNCHANGED <<file, live, touched, strays, previous, tainted>>
      BY <1>3 DEF Plan
    <2>2. a.draft \in Accepts /\ a.stale \in BOOLEAN
      BY <1>c, <2>1 DEF Command, Idle
    <2>3. \E b : Moves(s, b) /\ Command(b)
      <3>1. Command([pc |-> "unchanged", draft |-> a.draft, old |-> a.old])
        BY DEF Command
      <3>2. Command([pc |-> "planned", draft |-> a.draft, old |-> a.old,
                     plan |-> Diff(a.old, a.draft),
                     hash |-> RecordHash(Record), stale |-> a.stale])
        BY <2>2 DEF Command
      <3> QED  BY <1>3, <3>1, <3>2, PlanStep, IdleCommand
    <2>4. DOMAIN apply' = Operator /\ \A x \in Operator : Command(apply'[x])
      BY <2>3, MovesTypes
    <2> QED  BY <2>1, <2>4 DEF TypeInv
  <1>4. CASE Stop(s)
    <2>1. DOMAIN apply' = Operator /\ \A x \in Operator : Command(apply'[x])
      BY <1>4, Steps, IdleCommand, MovesTypes
    <2> QED  BY <1>4, <2>1 DEF TypeInv, Stop
  <1>5. CASE Confirm(s)
    <2>1. a.pc = "planned" /\ UNCHANGED <<file, live, touched, strays, previous, tainted>>
      BY <1>5 DEF Confirm
    <2>2. a.draft \in Accepts /\ a.stale \in BOOLEAN
      BY <1>c, <2>1 DEF Command, Idle
    <2>3. Todo(a) \in Seq(Op)
      <3>1. a.plan = Diff(a.old, a.draft)
        BY <2>1 DEF PlanInv, PlannedWell
      <3>2. a.old = None \/ (a.old.draft \in Accepts /\ Plain(Hash(a.old.draft)))
        BY <2>1 DEF PlainInv, PlainCommand, PlainOld, Stored
      <3> QED  BY <2>2, <3>1, <3>2, TodoOps
    <2>4. Command([pc |-> "deploying", draft |-> a.draft, old |-> a.old,
                   stale |-> a.stale \/ MidSave(s), todo |-> Todo(a),
                   deployments |-> IF HasRecord THEN file.deployments ELSE << >>])
      BY <2>2, <2>3 DEF Command, MidSave
    <2>5. \E b : Moves(s, b) /\ Command(b)
      BY <1>5, <2>4, ConfirmStep, IdleCommand
    <2>6. DOMAIN apply' = Operator /\ \A x \in Operator : Command(apply'[x])
      BY <2>5, MovesTypes
    <2> QED  BY <2>1, <2>6 DEF TypeInv
  <1>d. ASSUME NEW q, Touches(s, q), NEW D, a.pc = "deploying", a.todo # << >>,
               Moves(s, Advanced(a, D)),
               UNCHANGED <<file, previous, tainted>>, \A x \in live' : x.provider \in Registered
        PROVE  TypeInv'
    <2> PICK b : b = Advanced(a, D)
      OBVIOUS
    <2>1. Command(b)
      BY <1>c, <1>d, ContinueCommand
    <2>2. DOMAIN apply' = Operator /\ \A x \in Operator : Command(apply'[x])
      BY <1>d, <2>1, MovesTypes
    <2>3. \A y \in DOMAIN touched' : touched'[y] \in Operator \cup {Debris}
      BY <1>d DEF TypeInv, Touches
    <2> QED  BY <1>d, <2>2, <2>3 DEF TypeInv
  <1>6. CASE Deploy(s)
    <2> PICK q : q = Head(a.todo).node
      OBVIOUS
    <2> PICK def : def = Hash(a.draft)
      OBVIOUS
    <2>1. /\ a.pc = "deploying" /\ a.todo # << >> /\ Touches(s, q)
          /\ UNCHANGED <<file, previous, tainted>> /\ \A x \in live' : x.provider \in Registered
          /\ \E D : Moves(s, Advanced(a, D))
      BY <1>6, DeployStep
    <2> QED  BY <1>d, <2>1
  <1>7. CASE Undeploy(s)
    <2> PICK q : q = Head(a.todo).node
      OBVIOUS
    <2> PICK p : p = Provider(Hash(a.old.draft), q)
      OBVIOUS
    <2>1. /\ a.pc = "deploying" /\ a.todo # << >> /\ Touches(s, q)
          /\ UNCHANGED <<file, previous, tainted>> /\ live' \subseteq live
          /\ \E D : Moves(s, Advanced(a, D))
      BY <1>7, UndeployStep
    <2>2. \A x \in live' : x.provider \in Registered
      BY <2>1 DEF TypeInv
    <2> QED  BY <1>d, <2>1, <2>2
  <1>8. CASE Missing(s) \/ Crash(s)
    <2>1. DOMAIN apply' = Operator /\ \A x \in Operator : Command(apply'[x])
      BY <1>8, Steps, IdleCommand, MovesTypes
    <2>2. /\ file' = file /\ live' = live /\ tainted' = tainted
          /\ previous' = previous \/ previous' = None
      BY <1>8 DEF Missing, Crash
    <2>3. \A y \in DOMAIN touched' : touched'[y] \in Operator \cup {Debris}
      BY <1>8, QuitStep DEF TypeInv, Missing, Crash
    <2> QED  BY <2>1, <2>2, <2>3 DEF TypeInv
  <1>9. CASE ReadVersion(s)
    <2> DEFINE b == [pc |-> "versioned", draft |-> a.draft, deployments |-> a.deployments,
                     stale |-> a.stale, version |-> IF HasRecord THEN file.version + 1 ELSE 1]
    <2>1. Moves(s, b) /\ a.pc = "deploying" /\ UNCHANGED <<file, live, touched, strays, previous, tainted>>
      BY <1>9, Steps DEF ReadVersion
    <2>2. a.draft \in Accepts /\ a.stale \in BOOLEAN
      BY <1>c, <2>1 DEF Command, Idle
    <2>3. HasRecord => file.version \in Nat
      BY DEF TypeInv, HasRecord, Stored, None, Empty
    <2>4. Command(b)
      BY <2>2, <2>3 DEF Command
    <2> HIDE DEF b
    <2>5. DOMAIN apply' = Operator /\ \A x \in Operator : Command(apply'[x])
      BY <2>1, <2>4, MovesTypes
    <2> QED  BY <2>1, <2>5 DEF TypeInv
  <1>10. CASE Truncate(s)
    <2>1. HasRecord => Stored(file)
      BY DEF TypeInv, HasRecord, None, Empty
    <2>2. Command([a EXCEPT !.pc = "writing"])
      <3>1. a.pc = "versioned"
        BY <1>10 DEF Truncate
      <3> QED  BY <1>c, <3>1 DEF Command, Idle
    <2>3. \A x \in Operator : Command(apply'[x])
      BY <1>10, <2>2, TruncateStep, LateCommand DEF TypeInv
    <2> QED  BY <1>10, <2>1, <2>3, TruncateStep DEF TypeInv
  <1>11. CASE Write(s)
    <2>1. /\ a.pc = "writing"
          /\ file' = [draft |-> a.draft, version |-> a.version, deployments |-> a.deployments]
          /\ tainted' = (tainted \/ a.stale)
          /\ touched' = [q \in {n \in DOMAIN touched : touched[n] # s} |-> touched[q]]
          /\ UNCHANGED <<live, strays, previous>>
          /\ DOMAIN apply' = Operator /\ apply'[s] = Idle
          /\ \A x \in Operator : x # s => apply'[x] = Late(apply[x])
      BY <1>11, WriteStep, Zenon
    <2>2. a.draft \in Accepts /\ a.version \in Nat \ {0} /\ a.stale \in BOOLEAN
      BY <1>c, <2>1 DEF Command, Idle
    <2>3. \A x \in Operator : Command(apply'[x])
      BY <2>1, LateCommand, IdleCommand DEF TypeInv
    <2>4. Stored(file')
      BY <2>1, <2>2 DEF Stored
    <2>5. \A y \in DOMAIN touched' : touched'[y] \in Operator \cup {Debris}
      BY <2>1 DEF TypeInv
    <2>6. tainted' \in BOOLEAN
      BY <2>1, <2>2 DEF TypeInv
    <2> QED  BY <2>1, <2>3, <2>4, <2>5, <2>6 DEF TypeInv
  <1> QED  BY <1>2, <1>3, <1>4, <1>5, <1>6, <1>7, <1>8, <1>9, <1>10, <1>11 DEF StepOf

-----------------------------------------------------------------------------
(* No process with module instances is saved.                              *)

LEMMA TailRange ==
    ASSUME NEW T, NEW t \in Seq(T), t # << >>
    PROVE  Range(t) = {Head(t)} \cup Range(Tail(t))
  <1> PICK u : u = Tail(t)
    OBVIOUS
  <1>1. /\ Len(t) \in Nat /\ Len(t) > 0 /\ DOMAIN t = 1..Len(t) /\ DOMAIN u = 1..(Len(t) - 1)
        /\ t[1] = Head(t) /\ \A i \in DOMAIN u : u[i] = t[i + 1]
    OBVIOUS
  <1>2. 1 \in DOMAIN t /\ \A i \in DOMAIN u : i + 1 \in DOMAIN t
    BY <1>1
  <1>3. ASSUME NEW i \in DOMAIN t PROVE t[i] \in {Head(t)} \cup Range(u)
    <2>1. CASE i = 1
      BY <1>1, <2>1
    <2>2. CASE i # 1
      <3>1. i - 1 \in DOMAIN u /\ u[i - 1] = t[(i - 1) + 1] /\ (i - 1) + 1 = i
        BY <1>1, <2>2
      <3> QED  BY <3>1 DEF Range
    <2> QED  BY <2>1, <2>2
  <1> QED  BY <1>1, <1>2, <1>3 DEF Range

LEMMA NestedMissing ==
    ASSUME NEW a, a.draft \in Accepts, DraftAssumption, AlphabetAssumption,
           PlainOld(a.old), a.plan = Diff(a.old, a.draft), ~ Plain(Hash(a.draft))
    PROVE  \E x \in Range(Todo(a)) : x.op = "deploy" /\ ~ Found(Hash(a.draft), x.node)
  <1>1. \A q \in a.plan.added : [op |-> "deploy", node |-> q] \in Range(Todo(a))
    BY TodoOps DEF PlainOld, Stored
  <1>2. \E q \in a.plan.added : ~ Found(Hash(a.draft), q)
    <2>1. CASE a.old = None
      <3>1. PICK n \in DOMAIN Hash(a.draft).inst :
               IsModule(Hash(a.draft), Hash(a.draft).inst[n].type)
        BY DEF Plain
      <3>2. <<n>> \in a.plan.added
        BY <2>1 DEF Diff, Hash
      <3>3. ~ Found(Hash(a.draft), <<n>>)
        BY <3>1 DEF Found
      <3> QED  BY <3>2, <3>3
    <2>2. CASE a.old # None
      <3>1. PICK q \in DOMAIN IRs[a.draft].nodes : Len(q) # 1 /\ ~ Found(Hash(a.draft), q)
        BY NestedNode
      <3>2. DOMAIN IRs[a.old.draft].nodes = Nodes(Hash(a.old.draft))
        BY <2>2, PlainNodes DEF PlainOld, Stored
      <3>3. \A p \in Nodes(Hash(a.old.draft)) : Len(p) = 1
        BY DEF Nodes
      <3>4. q \notin Nodes(Hash(a.old.draft))
        BY <3>1, <3>3
      <3>5. a.plan.added = (DOMAIN IRs[a.draft].nodes) \ DOMAIN IRs[a.old.draft].nodes
        BY <2>2 DEF Diff
      <3>6. q \in a.plan.added
        BY <3>1, <3>2, <3>4, <3>5
      <3> QED  BY <3>1, <3>6
    <2> QED  BY <2>1, <2>2
  <1>3. PICK q \in a.plan.added : ~ Found(Hash(a.draft), q)
    BY <1>2
  <1> QED  BY <1>1, <1>3

LEMMA PlannedRemoves ==
    ASSUME NEW a, a.draft \in Accepts, DraftAssumption, AlphabetAssumption,
           PlainOld(a.old), a.plan = Diff(a.old, a.draft)
    PROVE  \A x \in Range(Todo(a)) : x.op = "undeploy" =>
               a.old # None /\ x.node \in Nodes(Hash(a.old.draft))
  <1>1. Range(Todo(a)) =
            {[op |-> "deploy", node |-> q] : q \in a.plan.added \cup a.plan.modified}
            \cup {[op |-> "undeploy", node |-> q] : q \in a.plan.removed}
    BY TodoOps DEF PlainOld, Stored
  <1>2. a.old = None => a.plan.removed = {}
    BY DEF Diff
  <1>3. a.old # None => a.plan.removed \subseteq Nodes(Hash(a.old.draft))
    <2>1. a.old # None => /\ a.plan.removed \subseteq DOMAIN IRs[a.old.draft].nodes
      BY DEF Diff
    <2>2. a.old # None => DOMAIN IRs[a.old.draft].nodes = Nodes(Hash(a.old.draft))
      BY PlainNodes DEF PlainOld, Stored
    <2> QED  BY <2>1, <2>2
  <1> QED  BY <1>1, <1>2, <1>3

LEMMA PlainMoves ==
    ASSUME TypeInv, PlainInv, NEW s \in Operator, NEW b, Moves(s, b), PlainCommand(b), file' = file
    PROVE  PlainInv'
  BY DEF TypeInv, PlainInv, Moves, HasRecord

LEMMA PlainLate ==
    ASSUME NEW a, Command(a), PlainCommand(a)
    PROVE  PlainCommand(Late(a))
  <1> PICK b : b = Late(a)
    OBVIOUS
  <1>1. Command(b) /\ b.pc = a.pc /\ DOMAIN b = DOMAIN a
        /\ \A f \in DOMAIN a : f # "stale" => b[f] = a[f]
    BY LateCommand
  <1>2. a.pc \in {"loaded", "planned", "deploying"} => b.old = a.old
    BY <1>1 DEF Command, Idle
  <1>3. a.pc \in {"deploying", "versioned", "writing"} => b.draft = a.draft
    BY <1>1 DEF Command, Idle
  <1>4. a.pc = "deploying" => b.todo = a.todo
    BY <1>1 DEF Command, Idle
  <1> QED  BY <1>1, <1>2, <1>3, <1>4 DEF PlainCommand, Blocked, RemovesOld

LEMMA PlainStep ==
    ASSUME TypeInv, PlainInv, PlanInv, [Next]_vars, DraftAssumption, AlphabetAssumption,
           OperatorAssumption
    PROVE  PlainInv'
  <1>1. CASE UNCHANGED vars
    BY <1>1 DEF PlainInv, HasRecord, vars
  <1> SUFFICES ASSUME NEW s \in Operator, StepOf(s) PROVE PlainInv'
    BY <1>1 DEF Next, StepOf
  <1> PICK a : a = apply[s]
    OBVIOUS
  <1>c. Command(a) /\ PlainCommand(a) /\ PlannedWell(a, Record, previous)
    BY DEF TypeInv, PlainInv, PlanInv
  <1>i. PlainCommand(Idle)
    BY DEF PlainCommand, Idle
  <1>2. ASSUME NEW d \in Draft, Load(s, d) PROVE PlainInv'
    <2> DEFINE b == [pc |-> "loaded", draft |-> d, old |-> Record, stale |-> FALSE]
    <2>1. Moves(s, b) /\ file' = file
      BY <1>2, Steps DEF Load
    <2>2. PlainOld(Record)
      BY DEF PlainOld, Record, HasRecord, TypeInv, PlainInv, None, Empty
    <2>3. PlainCommand(b)
      BY <2>2 DEF PlainCommand
    <2> HIDE DEF b
    <2> QED  BY <2>1, <2>3, PlainMoves
  <1>3. CASE Plan(s)
    <2>1. a.pc = "loaded" /\ file' = file
      BY <1>3 DEF Plan
    <2>2. PlainCommand([pc |-> "unchanged", draft |-> a.draft, old |-> a.old])
      BY DEF PlainCommand
    <2>3. PlainCommand([pc |-> "planned", draft |-> a.draft, old |-> a.old,
                        plan |-> Diff(a.old, a.draft),
                        hash |-> RecordHash(Record), stale |-> a.stale])
      BY <1>c, <2>1 DEF PlainCommand
    <2>4. \E b : Moves(s, b) /\ PlainCommand(b)
      BY <1>3, <1>i, <2>2, <2>3, PlanStep
    <2> QED  BY <2>1, <2>4, PlainMoves
  <1>4. CASE Stop(s) \/ Missing(s) \/ Crash(s)
    <2>1. Moves(s, Idle) /\ file' = file
      BY <1>4, Steps DEF Stop, Missing, Crash
    <2> QED  BY <1>i, <2>1, PlainMoves
  <1>5. CASE Confirm(s)
    <2> DEFINE b == [pc |-> "deploying", draft |-> a.draft, old |-> a.old,
                     stale |-> a.stale \/ MidSave(s), todo |-> Todo(a),
                     deployments |-> IF HasRecord THEN file.deployments ELSE << >>]
    <2>1. a.pc = "planned" /\ file' = file
      BY <1>5 DEF Confirm
    <2>2. a.draft \in Accepts /\ PlainOld(a.old) /\ a.plan = Diff(a.old, a.draft)
      BY <1>c, <2>1 DEF Command, PlainCommand, PlannedWell, Idle
    <2>3. Plain(Hash(a.draft)) \/ Blocked(b)
      BY <2>2, NestedMissing DEF Blocked
    <2>r. RemovesOld(b)
      BY <2>2, PlannedRemoves DEF RemovesOld
    <2>4. PlainCommand(b)
      BY <2>2, <2>3, <2>r DEF PlainCommand
    <2> HIDE DEF b
    <2>5. Moves(s, Idle) \/ Moves(s, b)
      BY <1>5, ConfirmStep DEF b
    <2> QED  BY <1>i, <2>1, <2>4, <2>5, PlainMoves
  <1>d. ASSUME NEW D, a.pc = "deploying", a.todo # << >>, file' = file,
               Moves(s, Advanced(a, D)),
               ~ (Head(a.todo).op = "deploy" /\ ~ Found(Hash(a.draft), Head(a.todo).node))
        PROVE  PlainInv'
    <2> PICK b : b = Advanced(a, D)
      OBVIOUS
    <2>a. Command(a)
      BY <1>c
    <2>1. b.pc = "deploying" /\ b.draft = a.draft /\ b.old = a.old /\ b.todo = Tail(a.todo)
      BY <1>d, <2>a, ContinueCommand
    <2>2. a.todo \in Seq(Op)
      BY <1>c, <1>d DEF Command, Idle
    <2>3. Range(a.todo) = {Head(a.todo)} \cup Range(Tail(a.todo))
      BY <1>d, <2>2, TailRange
    <2>4. (Plain(Hash(a.draft)) \/ Blocked(a)) /\ RemovesOld(a)
      BY <1>c, <1>d DEF PlainCommand
    <2>5. Blocked(a) => Blocked(b)
      BY <1>d, <2>1, <2>3 DEF Blocked
    <2>r. RemovesOld(b)
      BY <2>1, <2>3, <2>4 DEF RemovesOld
    <2>6. PlainCommand(b)
      BY <1>c, <1>d, <2>1, <2>4, <2>5, <2>r DEF PlainCommand
    <2> QED  BY <1>d, <2>6, PlainMoves
  <1>6. CASE Deploy(s)
    <2> PICK q : q = Head(a.todo).node
      OBVIOUS
    <2> PICK def : def = Hash(a.draft)
      OBVIOUS
    <2>1. /\ a.pc = "deploying" /\ a.todo # << >> /\ Found(def, q) /\ file' = file
          /\ \E D : Moves(s, Advanced(a, D))
      BY <1>6, DeployStep
    <2> QED  BY <1>d, <2>1
  <1>7. CASE Undeploy(s)
    <2> PICK q : q = Head(a.todo).node
      OBVIOUS
    <2> PICK p : p = Provider(Hash(a.old.draft), q)
      OBVIOUS
    <2>1. /\ a.pc = "deploying" /\ a.todo # << >> /\ Head(a.todo).op = "undeploy" /\ file' = file
          /\ \E D : Moves(s, Advanced(a, D))
      BY <1>7, UndeployStep
    <2> QED  BY <1>d, <2>1
  <1>8. CASE ReadVersion(s)
    <2> DEFINE b == [pc |-> "versioned", draft |-> a.draft, deployments |-> a.deployments,
                     stale |-> a.stale, version |-> IF HasRecord THEN file.version + 1 ELSE 1]
    <2>1. Moves(s, b) /\ a.pc = "deploying" /\ a.todo = << >> /\ file' = file
      BY <1>8, Steps DEF ReadVersion
    <2>2. ~ Blocked(a)
      BY <2>1 DEF Blocked, Range
    <2>3. PlainCommand(b)
      BY <1>c, <2>1, <2>2 DEF PlainCommand
    <2> HIDE DEF b
    <2> QED  BY <2>1, <2>3, PlainMoves
  <1>9. CASE Truncate(s)
    <2>1. /\ a.pc = "versioned" /\ file' = Empty
          /\ apply'[s] = [a EXCEPT !.pc = "writing"]
          /\ \A x \in Operator : x # s => apply'[x] = Late(apply[x])
      BY <1>9, TruncateStep
    <2>2. PlainCommand([a EXCEPT !.pc = "writing"])
      BY <1>c, <2>1 DEF PlainCommand, Command, Idle
    <2>3. \A x \in Operator : PlainCommand(apply'[x])
      BY <2>1, <2>2, PlainLate DEF PlainInv, TypeInv
    <2> QED  BY <2>1, <2>3 DEF PlainInv, HasRecord, Empty
  <1>10. CASE Write(s)
    <2>1. /\ a.pc = "writing" /\ apply'[s] = Idle
          /\ file' = [draft |-> a.draft, version |-> a.version, deployments |-> a.deployments]
          /\ \A x \in Operator : x # s => apply'[x] = Late(apply[x])
      BY <1>10, WriteStep, Zenon
    <2>2. \A x \in Operator : PlainCommand(apply'[x])
      BY <1>i, <2>1, PlainLate DEF PlainInv, TypeInv
    <2>3. Plain(Hash(file'.draft))
      BY <1>c, <2>1 DEF PlainCommand
    <2> QED  BY <2>2, <2>3 DEF PlainInv
  <1> QED  BY <1>2, <1>3, <1>4, <1>5, <1>6, <1>7, <1>8, <1>9, <1>10 DEF StepOf

-----------------------------------------------------------------------------
(* Who touches nodes, and who is late.                                     *)

\* What a step makes of the commands of the other operators, and of the step of its own.
LEMMA OtherCommands ==
    ASSUME TypeInv, NEW s \in Operator, StepOf(s)
    PROVE  \A x \in Operator : x # s =>
               /\ apply'[x].pc = apply[x].pc
               /\ (apply[x].pc \in Saving /\ apply[x].stale) => apply'[x].stale
  <1>1. CASE Truncate(s) \/ Write(s)
    <2>1. \A x \in Operator : x # s => apply'[x] = Late(apply[x])
      BY <1>1, TruncateStep, WriteStep, Zenon
    <2>2. \A x \in Operator : Command(apply[x])
      BY DEF TypeInv
    <2> QED  BY <2>1, <2>2, LateCommand
  <1>2. CASE ~ (Truncate(s) \/ Write(s))
    <2> SUFFICES \E b : Moves(s, b)
      BY DEF Moves
    <2>1. CASE \E d \in Draft : Load(s, d)
      BY <2>1, Steps
    <2>2. CASE Stop(s) \/ Missing(s) \/ Crash(s) \/ ReadVersion(s)
      BY <2>2, Steps
    <2>3. CASE Plan(s)
      BY <2>3, PlanStep
    <2>4. CASE Confirm(s)
      BY <2>4, ConfirmStep
    <2>5. CASE Deploy(s)
      BY <2>5 DEF Deploy, Continue, Moves, TypeInv
    <2>6. CASE Undeploy(s)
      BY <2>6 DEF Undeploy, Continue, Moves, TypeInv
    <2> QED  BY <1>2, <2>1, <2>2, <2>3, <2>4, <2>5, <2>6 DEF StepOf
  <1> QED  BY <1>1, <1>2

LEMMA OwnCommand ==
    ASSUME TypeInv, NEW s \in Operator
    PROVE  /\ \A d : Load(s, d) => apply[s].pc = "idle" /\ apply'[s].pc = "loaded"
           /\ Plan(s) => apply[s].pc = "loaded" /\ apply'[s].pc \in {"idle", "unchanged", "planned"}
           /\ Stop(s) => apply[s].pc \in {"unchanged", "planned"} /\ apply'[s].pc = "idle"
           /\ Confirm(s) =>
                /\ apply[s].pc = "planned" /\ apply'[s].pc \in {"idle", "deploying"}
                /\ (apply'[s].pc = "deploying" /\ MidSave(s)) => apply'[s].stale
           /\ Deploy(s) \/ Undeploy(s) =>
                /\ apply[s].pc = "deploying" /\ apply'[s].pc = "deploying"
                /\ apply'[s].stale = apply[s].stale /\ apply'[s].draft = apply[s].draft
           /\ Missing(s) => apply[s].pc = "deploying" /\ apply'[s].pc = "idle"
           /\ Crash(s) => apply'[s].pc = "idle"
           /\ ReadVersion(s) =>
                /\ apply[s].pc = "deploying" /\ apply'[s].pc = "versioned"
                /\ apply'[s].stale = apply[s].stale
           /\ Truncate(s) =>
                /\ apply[s].pc = "versioned" /\ apply'[s].pc = "writing"
                /\ apply'[s].stale = apply[s].stale
           /\ Write(s) => apply[s].pc = "writing" /\ apply'[s].pc = "idle"
  <1> PICK a : a = apply[s]
    OBVIOUS
  <1>c. Command(a)
    BY DEF TypeInv
  <1>1. \A d : Load(s, d) => apply[s].pc = "idle" /\ apply'[s].pc = "loaded"
    BY DEF TypeInv, Load, Idle
  <1>2. ASSUME Plan(s)
        PROVE  a.pc = "loaded" /\ apply'[s].pc \in {"idle", "unchanged", "planned"}
    <2>1. a.pc = "loaded"
      BY <1>2 DEF Plan
    <2>2. \E b : Moves(s, b) /\ b.pc \in {"idle", "unchanged", "planned"}
      <3> PICK u : u = [pc |-> "unchanged", draft |-> a.draft, old |-> a.old]
        OBVIOUS
      <3> PICK v : v = [pc |-> "planned", draft |-> a.draft, old |-> a.old,
                        plan |-> Diff(a.old, a.draft),
                        hash |-> RecordHash(Record), stale |-> a.stale]
        OBVIOUS
      <3>1. Moves(s, Idle) \/ Moves(s, u) \/ Moves(s, v)
        BY <1>2, PlanStep
      <3>2. u.pc = "unchanged" /\ v.pc = "planned"
        OBVIOUS
      <3> QED  BY <3>1, <3>2, IdleCommand
    <2> QED  BY <2>1, <2>2 DEF Moves
  <1>3. Stop(s) => a.pc \in {"unchanged", "planned"} /\ apply'[s].pc = "idle"
    BY Steps, IdleCommand DEF Moves, Stop
  <1>4. ASSUME Confirm(s)
        PROVE  /\ a.pc = "planned" /\ apply'[s].pc \in {"idle", "deploying"}
               /\ (apply'[s].pc = "deploying" /\ MidSave(s)) => apply'[s].stale
    <2>1. a.pc = "planned"
      BY <1>4 DEF Confirm
    <2>2. \E b : Moves(s, b) /\ b.pc \in {"idle", "deploying"}
                   /\ ((b.pc = "deploying" /\ MidSave(s)) => b.stale)
      <3> PICK v : v = [pc |-> "deploying", draft |-> a.draft, old |-> a.old,
                        stale |-> a.stale \/ MidSave(s), todo |-> Todo(a),
                        deployments |-> IF HasRecord THEN file.deployments ELSE << >>]
        OBVIOUS
      <3>1. Moves(s, Idle) \/ Moves(s, v)
        BY <1>4, ConfirmStep
      <3>2. v.pc = "deploying" /\ (MidSave(s) => v.stale)
        OBVIOUS
      <3> QED  BY <3>1, <3>2, IdleCommand
    <2> QED  BY <2>1, <2>2 DEF Moves
  <1>5. ASSUME Deploy(s) \/ Undeploy(s)
        PROVE  /\ a.pc = "deploying" /\ apply'[s].pc = "deploying"
               /\ apply'[s].stale = a.stale /\ apply'[s].draft = a.draft
    <2>1. a.pc = "deploying" /\ a.todo # << >>
      BY <1>5 DEF Deploy, Undeploy, Doing
    <2>2. \E D : Continue(s, D)
      BY <1>5 DEF Deploy, Undeploy
    <2>3. PICK D : apply'[s] = Advanced(a, D)
      BY <2>2, ContinueStep DEF Moves
    <2> QED  BY <1>c, <2>1, <2>3, ContinueCommand
  <1>6. Missing(s) => a.pc = "deploying" /\ apply'[s].pc = "idle"
    BY Steps, IdleCommand DEF Moves, Missing, Doing
  <1>7. Crash(s) => apply'[s].pc = "idle"
    BY Steps, IdleCommand DEF Moves
  <1>8. ReadVersion(s) => /\ a.pc = "deploying" /\ apply'[s].pc = "versioned"
                          /\ apply'[s].stale = a.stale
    BY DEF TypeInv, ReadVersion
  <1>9. ASSUME Truncate(s)
        PROVE  a.pc = "versioned" /\ apply'[s].pc = "writing" /\ apply'[s].stale = a.stale
    <2>1. a.pc = "versioned" /\ apply'[s] = [a EXCEPT !.pc = "writing"]
      BY <1>9, TruncateStep
    <2> QED  BY <1>c, <2>1 DEF Command, Idle
  <1>10. Write(s) => a.pc = "writing" /\ apply'[s].pc = "idle"
    BY WriteStep, IdleCommand, Zenon
  <1> QED  BY <1>1, <1>2, <1>3, <1>4, <1>5, <1>6, <1>7, <1>8, <1>9, <1>10

LEMMA OwnerStep ==
    ASSUME TypeInv, TypeInv', OwnerInv, [Next]_vars, OperatorAssumption
    PROVE  OwnerInv'
  <1>1. CASE UNCHANGED vars
    BY <1>1 DEF OwnerInv, vars
  <1> SUFFICES ASSUME NEW s \in Operator, StepOf(s) PROVE OwnerInv'
    BY <1>1 DEF Next, StepOf
  <1> DEFINE Held1(x) == \E q \in DOMAIN touched : touched[q] = x
             Held2(x) == \E q \in DOMAIN touched' : touched'[q] = x
             Good == /\ \A x \in Operator : (x # s /\ Held2(x)) => Held1(x)
                     /\ Held2(s) => apply'[s].pc \in Saving
  <1>h. \A x \in Operator : Held1(x) => apply[x].pc \in Saving
    BY DEF OwnerInv
  <1>o. \A x \in Operator : x # s => apply'[x].pc = apply[x].pc
    BY OtherCommands
  <1> SUFFICES Good
    BY <1>h, <1>o DEF OwnerInv
  <1>2. CASE \/ \E d \in Draft : Load(s, d)
             \/ Plan(s) \/ Stop(s) \/ Confirm(s) \/ ReadVersion(s) \/ Truncate(s)
    <2>1. touched' = touched
      BY <1>2 DEF Load, Plan, Stop, Confirm, ReadVersion, Truncate
    <2>2. apply[s].pc \in Saving => apply'[s].pc \in Saving
      BY <1>2, OwnCommand DEF Saving
    <2> QED  BY <1>h, <2>1, <2>2
  <1>3. CASE Deploy(s) \/ Undeploy(s)
    <2> PICK a : a = apply[s]
      OBVIOUS
    <2> PICK q : q = Head(a.todo).node
      OBVIOUS
    <2> PICK def : def = Hash(a.draft)
      OBVIOUS
    <2> PICK p : p = Provider(Hash(a.old.draft), q)
      OBVIOUS
    <2>1. Touches(s, q)
      BY <1>3, DeployStep, UndeployStep
    <2>2. apply'[s].pc \in Saving
      BY <1>3, OwnCommand DEF Saving
    <2> QED  BY <2>1, <2>2 DEF Touches
  <1>4. CASE Missing(s) \/ Crash(s)
    <2>1. Quit(s)
      BY <1>4 DEF Missing, Crash
    <2> QED  BY <2>1, QuitStep DEF OperatorAssumption
  <1>5. CASE Write(s)
    <2>1. touched' = [q \in {n \in DOMAIN touched : touched[n] # s} |-> touched[q]]
      BY <1>5 DEF Write
    <2> QED  BY <2>1
  <1> QED  BY <1>2, <1>3, <1>4, <1>5 DEF StepOf

LEMMA RaceStep ==
    ASSUME TypeInv, RaceInv, [Next]_vars
    PROVE  RaceInv'
  <1>1. CASE UNCHANGED vars
    BY <1>1 DEF RaceInv, vars
  <1> SUFFICES ASSUME NEW s \in Operator, StepOf(s) PROVE RaceInv'
    BY <1>1 DEF Next, StepOf
  <1>2. \A x \in Operator : x # s =>
            /\ apply'[x].pc = apply[x].pc
            /\ (apply[x].pc \in Saving /\ apply[x].stale) => apply'[x].stale
    BY OtherCommands
  <1>3. CASE Truncate(s)
    <2>1. file' = Empty /\ Empty # None
      BY <1>3 DEF Truncate, Empty, None
    <2>2. apply[s].pc \in Saving /\ apply'[s].stale = apply[s].stale
      BY <1>3, OwnCommand DEF Saving
    <2>3. \A x \in Operator : x # s => apply'[x] = Late(apply[x])
      BY <1>3, TruncateStep, Zenon
    <2>4. \A x \in Operator : Command(apply[x])
      BY DEF TypeInv
    <2>5. \A x \in Operator : (x # s /\ apply[x].pc \in Saving) => apply'[x].stale
      BY <2>3, <2>4, LateCommand
    <2> QED  BY <1>2, <2>1, <2>2, <2>5 DEF RaceInv
  <1>4. CASE ~ Truncate(s)
    <2>1. apply'[s].pc # "writing"
      BY <1>4, OwnCommand DEF StepOf
    <2>2. file' = file \/ file' # None
      <3>1. CASE Write(s)
        <4>1. "draft" \in DOMAIN file' /\ "draft" \notin DOMAIN None
          BY <3>1 DEF Write, None
        <4> QED  BY <4>1
      <3> QED  BY <1>4, <3>1 DEF StepOf, Load, Plan, Stop, Confirm, Deploy, Undeploy, Missing,
                                 ReadVersion, Crash
    <2>3. (apply'[s].pc \in Saving /\ MidSave(s)) => apply'[s].stale
      <3>1. (apply[s].pc \in Saving /\ MidSave(s)) => apply[s].stale
        BY DEF RaceInv, MidSave
      <3>2. CASE Confirm(s)
        BY <3>2, OwnCommand DEF Saving
      <3>3. CASE Deploy(s) \/ Undeploy(s) \/ ReadVersion(s)
        BY <3>1, <3>3, OwnCommand DEF Saving
      <3>4. CASE ~ (Confirm(s) \/ Deploy(s) \/ Undeploy(s) \/ ReadVersion(s))
        <4>1. apply'[s].pc \notin Saving
          BY <1>4, <3>4, OwnCommand DEF Saving, StepOf
        <4> QED  BY <4>1
      <3> QED  BY <3>2, <3>3, <3>4
    <2>4. \A x \in Operator : (x # s /\ apply[x].pc = "writing") => MidSave(s)
      BY DEF MidSave
    <2> QED  BY <1>2, <2>1, <2>2, <2>3, <2>4 DEF RaceInv
  <1> QED  BY <1>3, <1>4

-----------------------------------------------------------------------------
(* What a save replaces.                                                   *)

LEMMA SameHash ==
    ASSUME NEW r, NEW o, r = None \/ r.draft \in Accepts, o = None \/ o.draft \in Accepts,
           DraftAssumption, RecordHash(r) = RecordHash(o)
    PROVE  (r = None <=> o = None) /\ (r # None => Hash(r.draft) = Hash(o.draft))
  BY HashSame DEF RecordHash

LEMMA PlanMoves ==
    ASSUME TypeInv, PlanInv, NEW s \in Operator, NEW b, Moves(s, b), file' = file,
           previous' = previous, PlannedWell(b, Record, previous)
    PROVE  PlanInv'
  BY DEF TypeInv, PlanInv, Moves, Record, HasRecord

LEMMA LateWell ==
    ASSUME NEW a, Command(a), NEW r, NEW p, NEW r2, NEW p2, PlannedWell(a, r, p)
    PROVE  PlannedWell(Late(a), r2, p2)
  <1> PICK b : b = Late(a)
    OBVIOUS
  <1>1. /\ Command(b) /\ b.pc = a.pc /\ DOMAIN b = DOMAIN a
        /\ a.pc \in Saving => b.stale
        /\ a.pc = "loaded" => b.stale
    BY LateCommand
  <1>2. a.pc = "planned" => b = a
    BY DEF Late
  <1> QED  BY <1>1, <1>2 DEF PlannedWell, Saving

LEMMA RecordStored ==
    ASSUME TypeInv
    PROVE  Record = None \/ (HasRecord /\ Record = file /\ Stored(file))
  BY DEF TypeInv, Record, HasRecord, None, Empty

LEMMA PlanInvStep ==
    ASSUME TypeInv, PlainInv, RaceInv, PlanInv, LostInv, [Next]_vars, DraftAssumption
    PROVE  PlanInv'
  <1>1. CASE UNCHANGED vars
    BY <1>1 DEF PlanInv, Record, HasRecord, vars
  <1> SUFFICES ASSUME NEW s \in Operator, StepOf(s) PROVE PlanInv'
    BY <1>1 DEF Next, StepOf
  <1> PICK a : a = apply[s]
    OBVIOUS
  <1>c. Command(a) /\ PlainCommand(a) /\ PlannedWell(a, Record, previous)
    BY DEF TypeInv, PlainInv, PlanInv
  <1>i. \A r, p : PlannedWell(Idle, r, p)
    BY DEF PlannedWell, Idle
  <1>2. ASSUME NEW d \in Draft, Load(s, d) PROVE PlanInv'
    <2> DEFINE b == [pc |-> "loaded", draft |-> d, old |-> Record, stale |-> FALSE]
    <2>1. Moves(s, b) /\ file' = file /\ previous' = previous
      BY <1>2, Steps DEF Load
    <2>2. PlannedWell(b, Record, previous)
      BY DEF PlannedWell
    <2> HIDE DEF b
    <2> QED  BY <2>1, <2>2, PlanMoves
  <1>3. CASE Plan(s)
    <2> DEFINE b == [pc |-> "unchanged", draft |-> a.draft, old |-> a.old]
               c == [pc |-> "planned", draft |-> a.draft, old |-> a.old,
                     plan |-> Diff(a.old, a.draft),
                     hash |-> RecordHash(Record), stale |-> a.stale]
    <2>1. a.pc = "loaded" /\ file' = file /\ previous' = previous
      BY <1>3 DEF Plan
    <2>2. Moves(s, Idle) \/ Moves(s, b) \/ (Replaces(a.old, a.draft) /\ Moves(s, c))
      BY <1>3, PlanStep
    <2>3. PlannedWell(b, Record, previous)
      BY DEF PlannedWell
    <2>4. Replaces(a.old, a.draft) => PlannedWell(c, Record, previous)
      BY <1>c, <2>1 DEF PlannedWell
    <2> HIDE DEF b, c
    <2> QED  BY <1>i, <2>1, <2>2, <2>3, <2>4, PlanMoves
  <1>4. CASE Stop(s) \/ Missing(s)
    <2>1. Moves(s, Idle) /\ file' = file /\ previous' = previous
      BY <1>4, Steps DEF Stop, Missing
    <2> QED  BY <1>i, <2>1, PlanMoves
  <1>5. CASE Confirm(s)
    <2> DEFINE b == [pc |-> "deploying", draft |-> a.draft, old |-> a.old,
                     stale |-> a.stale \/ MidSave(s), todo |-> Todo(a),
                     deployments |-> IF HasRecord THEN file.deployments ELSE << >>]
    <2>1. a.pc = "planned" /\ file' = file /\ previous' = previous
      BY <1>5 DEF Confirm
    <2>2. Moves(s, Idle) \/ (RecordHash(Record) = a.hash /\ Moves(s, b))
      BY <1>5, ConfirmStep
    <2>3. ASSUME RecordHash(Record) = a.hash, ~ a.stale PROVE Replaces(Record, a.draft)
      <3>1. RecordHash(Record) = RecordHash(a.old) /\ Replaces(a.old, a.draft)
        BY <1>c, <2>1, <2>3 DEF PlannedWell
      <3>2. /\ Record = None \/ Record.draft \in Accepts
            /\ a.old = None \/ a.old.draft \in Accepts
        BY <1>c, <2>1, RecordStored DEF PlainCommand, PlainOld, Stored
      <3>3. /\ Record = None <=> a.old = None
            /\ Record # None => Hash(Record.draft) = Hash(a.old.draft)
        BY <3>1, <3>2, SameHash
      <3> QED  BY <3>1, <3>3 DEF Replaces
    <2>4. RecordHash(Record) = a.hash => PlannedWell(b, Record, previous)
      BY <2>3 DEF PlannedWell
    <2> HIDE DEF b
    <2> QED  BY <1>i, <2>1, <2>2, <2>4, PlanMoves
  <1>6. CASE Deploy(s) \/ Undeploy(s)
    <2> PICK b : b = apply'[s]
      OBVIOUS
    <2>1. /\ a.pc = "deploying" /\ b.pc = "deploying" /\ b.stale = a.stale /\ b.draft = a.draft
          /\ file' = file /\ previous' = previous
      BY <1>6, OwnCommand DEF Deploy, Undeploy
    <2>2. Moves(s, b)
      BY <1>6 DEF Deploy, Undeploy, Continue, Moves, TypeInv
    <2>3. PlannedWell(b, Record, previous)
      BY <1>c, <2>1 DEF PlannedWell
    <2> QED  BY <2>1, <2>2, <2>3, PlanMoves
  <1>7. CASE Crash(s)
    <2>1. Moves(s, Idle) /\ file' = file /\ (previous' = previous \/ previous' = None)
      BY <1>7, Steps DEF Crash
    <2>2. \A x \in Operator : PlannedWell(apply[x], Record, previous')
      BY <2>1 DEF PlanInv, PlannedWell
    <2>3. Record' = Record
      BY <2>1 DEF Record, HasRecord
    <2> QED  BY <1>i, <2>1, <2>2, <2>3 DEF PlanInv, Moves
  <1>8. CASE ReadVersion(s)
    <2> DEFINE b == [pc |-> "versioned", draft |-> a.draft, deployments |-> a.deployments,
                     stale |-> a.stale, version |-> IF HasRecord THEN file.version + 1 ELSE 1]
    <2>1. Moves(s, b) /\ a.pc = "deploying" /\ file' = file /\ previous' = previous
      BY <1>8, Steps DEF ReadVersion
    <2>2. PlannedWell(b, Record, previous)
      BY <1>c, <2>1, RecordStored DEF PlannedWell
    <2> HIDE DEF b
    <2> QED  BY <2>1, <2>2, PlanMoves
  <1>9. CASE Truncate(s)
    <2> PICK b : b = [a EXCEPT !.pc = "writing"]
      OBVIOUS
    <2>1. /\ a.pc = "versioned" /\ apply'[s] = b
          /\ previous' = IF HasRecord THEN file ELSE previous
          /\ \A x \in Operator : x # s => apply'[x] = Late(apply[x])
      BY <1>9, TruncateStep
    <2>2. b.pc = "writing" /\ b.stale = a.stale /\ b.draft = a.draft /\ b.version = a.version
      BY <1>c, <2>1 DEF Command, Idle
    <2>3. a.stale \/ previous' = None \/ (HasRecord /\ previous' = Record)
      <3>1. CASE ~ HasRecord /\ ~ a.stale
        <4>1. \A x \in Operator : apply[x].pc # "writing"
          BY <2>1, <3>1 DEF RaceInv, Saving
        <4> QED  BY <2>1, <3>1, <4>1 DEF LostInv
      <3> QED  BY <2>1, <3>1 DEF Record
    <2>4. PlannedWell(b, Record', previous')
      BY <1>c, <2>1, <2>2, <2>3, RecordStored DEF PlannedWell
    <2>5. \A x \in Operator : x # s => PlannedWell(apply'[x], Record', previous')
      <3>1. \A x \in Operator : Command(apply[x]) /\ PlannedWell(apply[x], Record, previous)
        BY DEF TypeInv, PlanInv
      <3> QED  BY <2>1, <3>1, LateWell
    <2> QED  BY <2>1, <2>4, <2>5 DEF PlanInv
  <1>10. CASE Write(s)
    <2>1. apply'[s] = Idle /\ \A x \in Operator : x # s => apply'[x] = Late(apply[x])
      BY <1>10, WriteStep, Zenon
    <2>2. \A x \in Operator : Command(apply[x]) /\ PlannedWell(apply[x], Record, previous)
      BY DEF TypeInv, PlanInv
    <2>3. \A x \in Operator : x # s => PlannedWell(apply'[x], Record', previous')
      BY <2>1, <2>2, LateWell
    <2> QED  BY <1>i, <2>1, <2>3 DEF PlanInv
  <1> QED  BY <1>2, <1>3, <1>4, <1>5, <1>6, <1>7, <1>8, <1>9, <1>10 DEF StepOf

LEMMA LostFrame ==
    ASSUME LostInv, file' = file, previous' = previous,
           (\A x \in Operator : apply'[x].pc # "writing") =>
               \A x \in Operator : apply[x].pc # "writing",
           NodesIn(live) \subseteq strays \cup DOMAIN touched =>
               NodesIn(live') \subseteq strays' \cup DOMAIN touched'
    PROVE  LostInv'
  BY DEF LostInv, HasRecord

LEMMA LostStep ==
    ASSUME TypeInv, RaceInv, LostInv, [Next]_vars, OperatorAssumption
    PROVE  LostInv'
  <1>1. CASE UNCHANGED vars
    BY <1>1 DEF LostInv, HasRecord, vars
  <1> SUFFICES ASSUME NEW s \in Operator, StepOf(s) PROVE LostInv'
    BY <1>1 DEF Next, StepOf
  <1>2. \A x \in Operator : x # s => apply'[x].pc = apply[x].pc
    BY OtherCommands
  <1>3. CASE \/ \E d \in Draft : Load(s, d)
             \/ Plan(s) \/ Stop(s) \/ Confirm(s) \/ ReadVersion(s)
    <2>1. UNCHANGED <<file, live, touched, strays, previous>>
      BY <1>3 DEF Load, Plan, Stop, Confirm, ReadVersion
    <2>2. apply[s].pc # "writing"
      BY <1>3, OwnCommand
    <2> QED  BY <1>2, <2>1, <2>2, LostFrame
  <1>4. CASE Deploy(s) \/ Undeploy(s)
    <2> PICK a : a = apply[s]
      OBVIOUS
    <2> PICK q : q = Head(a.todo).node
      OBVIOUS
    <2> PICK def : def = Hash(a.draft)
      OBVIOUS
    <2> PICK p : p = Provider(Hash(a.old.draft), q)
      OBVIOUS
    <2>1. Touches(s, q) /\ strays \subseteq strays' /\ file' = file /\ previous' = previous
      BY <1>4, DeployStep, UndeployStep
    <2>2. apply[s].pc # "writing"
      BY <1>4, OwnCommand
    <2>3. NodesIn(live') \subseteq NodesIn(live) \cup DOMAIN touched'
      BY <2>1 DEF Touches, NodesIn
    <2>4. DOMAIN touched \subseteq DOMAIN touched'
      BY <2>1 DEF Touches
    <2> QED  BY <1>2, <2>1, <2>2, <2>3, <2>4, LostFrame
  <1>5. CASE Missing(s)
    <2>1. UNCHANGED <<file, live, strays, previous>> /\ Quit(s)
      BY <1>5 DEF Missing
    <2>2. apply[s].pc # "writing" /\ DOMAIN touched' = DOMAIN touched
      BY <1>5, <2>1, OwnCommand, QuitStep
    <2> QED  BY <1>2, <2>1, <2>2, LostFrame
  <1>6. CASE Crash(s)
    <2>1. file' = file /\ live' = live /\ Quit(s)
      BY <1>6 DEF Crash
    <2>2. DOMAIN touched' = DOMAIN touched
      BY <2>1, QuitStep
    <2>3. CASE apply[s].pc = "writing" /\ file = Empty
      <3>1. previous' = None /\ strays' = strays \cup NodesIn(live)
        BY <1>6, <2>3 DEF Crash, NodesIn
      <3> QED  BY <2>1, <2>2, <3>1 DEF LostInv
    <2>4. CASE apply[s].pc = "writing" /\ file # Empty
      <3>1. HasRecord'
        BY <2>1, <2>4 DEF RaceInv, TypeInv, Stored, HasRecord
      <3> QED  BY <3>1 DEF LostInv
    <2>5. CASE apply[s].pc # "writing"
      <3>1. previous' = previous /\ strays' = strays
        BY <1>6, <2>5 DEF Crash
      <3> QED  BY <1>2, <2>1, <2>2, <2>5, <3>1, LostFrame
    <2> QED  BY <2>3, <2>4, <2>5
  <1>7. CASE Truncate(s)
    <2>1. apply'[s].pc = "writing"
      BY <1>7, OwnCommand
    <2> QED  BY <2>1 DEF LostInv
  <1>8. CASE Write(s)
    <2>1. HasRecord'
      BY <1>8 DEF Write, HasRecord
    <2> QED  BY <2>1 DEF LostInv
  <1> QED  BY <1>3, <1>4, <1>5, <1>6, <1>7, <1>8 DEF StepOf

-----------------------------------------------------------------------------
(* What is deployed of a node, and what is listed of it.                   *)

LEMMA ProvidedNodes ==
    ASSUME NEW def
    PROVE  /\ Provided(def) \subseteq Nodes(def)
           /\ \A q \in Provided(def) : Provider(def, q) \in Registered
           /\ Plain(def) => \A q \in Nodes(def) :
                 (q \in Provided(def) <=> Provider(def, q) \in Registered)
  <1>1. \A q : q \in Provided(def) <=>
            \E n \in DOMAIN def.inst : /\ q = <<n>> /\ ~ IsModule(def, def.inst[n].type)
                                       /\ Provider(def, <<n>>) \in Registered
    BY DEF Provided
  <1>2. \A q : q \in Nodes(def) <=> \E n \in DOMAIN def.inst : q = <<n>>
    BY DEF Nodes
  <1> QED  BY <1>1, <1>2 DEF Plain

\* A node that a plan does not mention is deployed as it was.
LEMMA SameNode ==
    ASSUME NEW o \in Accepts, NEW d \in Accepts, Plain(Hash(o)), Plain(Hash(d)),
           DraftAssumption, AlphabetAssumption,
           NEW q, q \notin (DOMAIN IRs[d].nodes) \ DOMAIN IRs[o].nodes,
           q \notin (DOMAIN IRs[o].nodes) \ DOMAIN IRs[d].nodes,
           q \in (DOMAIN IRs[d].nodes) \cap DOMAIN IRs[o].nodes => IRs[d].nodes[q] = IRs[o].nodes[q]
    PROVE  /\ q \in Provided(Hash(o)) <=> q \in Provided(Hash(d))
           /\ q \in Provided(Hash(o)) => /\ Provider(Hash(o), q) = Provider(Hash(d), q)
                                         /\ Config(Hash(o), q) = Config(Hash(d), q)
  <1>1. DOMAIN IRs[o].nodes = Nodes(Hash(o)) /\ DOMAIN IRs[d].nodes = Nodes(Hash(d))
    BY PlainNodes
  <1>2. CASE q \notin Nodes(Hash(o))
    BY <1>1, <1>2, ProvidedNodes
  <1>3. CASE q \in Nodes(Hash(o))
    <2>1. q \in Nodes(Hash(d)) /\ IRs[d].nodes[q] = IRs[o].nodes[q]
      BY <1>1, <1>3
    <2>2. PICK n \in DOMAIN Hash(o).inst : q = <<n>>
      BY <1>3 DEF Nodes
    <2>3. n \in DOMAIN Hash(d).inst
      BY <2>1, <2>2 DEF Nodes
    <2>4. /\ IRs[o].nodes[<<n>>].instance = Hash(o).inst[n]
          /\ IRs[o].nodes[<<n>>].nodeType = Hash(o).nodeTypes[Hash(o).inst[n].type]
      BY PlainNodes
    <2>5. /\ IRs[d].nodes[<<n>>].instance = Hash(d).inst[n]
          /\ IRs[d].nodes[<<n>>].nodeType = Hash(d).nodeTypes[Hash(d).inst[n].type]
      BY <2>3, PlainNodes
    <2>6. /\ Hash(o).inst[n] = Hash(d).inst[n]
          /\ Hash(o).nodeTypes[Hash(o).inst[n].type] = Hash(d).nodeTypes[Hash(d).inst[n].type]
      BY <2>1, <2>2, <2>4, <2>5
    <2>7. Provider(Hash(o), q) = Provider(Hash(d), q) /\ Config(Hash(o), q) = Config(Hash(d), q)
      BY <2>2, <2>6 DEF Provider, Config
    <2> QED  BY <1>3, <2>1, <2>7, ProvidedNodes
  <1> QED  BY <1>2, <1>3

\* RecordIsLive, node by node, for the record r.
Tells(r, L, T, X) ==
    \A q : q \notin X =>
        /\ q \in DOMAIN r.deployments <=> q \in Provided(Hash(r.draft))
        /\ q \notin DOMAIN T => Fits(Hash(r.draft), q, L)

LEMMA RecordNodes ==
    /\ RecordIsLive => (HasRecord /\ ~ tainted => Tells(file, live, touched, strays))
    /\ (HasRecord /\ ~ tainted => Tells(file, live, touched, strays))' => RecordIsLive'
  <1>1. ASSUME RecordIsLive, HasRecord, ~ tainted PROVE Tells(file, live, touched, strays)
    <2> PICK def : def = Hash(file.draft)
      OBVIOUS
    <2>1. /\ DOMAIN file.deployments \ strays = Provided(def) \ strays
          /\ \A q \in Provided(def) \ (strays \cup DOMAIN touched) :
                [node |-> q, provider |-> Provider(def, q), config |-> Config(def, q)] \in live
          /\ NodesIn(live) \ (strays \cup DOMAIN touched) \subseteq Provided(def)
      BY <1>1 DEF RecordIsLive, NodesIn
    <2> QED  BY <2>1 DEF Tells, Fits
  <1>2. ASSUME (HasRecord /\ ~ tainted => Tells(file, live, touched, strays))'
        PROVE  RecordIsLive'
    <2> SUFFICES ASSUME HasRecord', ~ tainted' PROVE RecordIsLive'
      BY DEF RecordIsLive
    <2> PICK def : def = Hash(file'.draft)
      OBVIOUS
    <2>1. Tells(file', live', touched', strays')
      BY <1>2
    <2>2. \A q : q \notin strays' =>
              /\ q \in DOMAIN file'.deployments <=> q \in Provided(def)
              /\ q \notin DOMAIN touched' => Fits(def, q, live')
      BY <2>1 DEF Tells
    <2>3. DOMAIN file'.deployments \ strays' = Provided(def) \ strays'
      BY <2>2
    <2>4. /\ \A q \in Provided(def) \ (strays' \cup DOMAIN touched') :
                [node |-> q, provider |-> Provider(def, q), config |-> Config(def, q)] \in live'
          /\ NodesIn(live') \ (strays' \cup DOMAIN touched') \subseteq Provided(def)
      BY <2>2 DEF Fits
    <2> QED  BY <2>3, <2>4 DEF RecordIsLive, NodesIn
  <1> QED  BY <1>1, <1>2

LEMMA OffNode ==
    ASSUME NEW s, NEW q, Touches(s, q), NEW y, y # q
    PROVE  /\ y \in DOMAIN touched' <=> y \in DOMAIN touched
           /\ y \in DOMAIN touched => touched'[y] = touched[y]
           /\ y \in NodesIn(live') <=> y \in NodesIn(live)
           /\ \A def : Fits(def, y, live') <=> Fits(def, y, live)
           /\ \A old : FitsOld(old, y, live') <=> FitsOld(old, y, live)
  <1>1. \A x : x.node = y => (x \in live' <=> x \in live)
    BY DEF Touches
  <1>2. y \in NodesIn(live') <=> y \in NodesIn(live)
    BY <1>1 DEF NodesIn
  <1>3. \A def : Fits(def, y, live') <=> Fits(def, y, live)
    <2> TAKE def
    <2> PICK r : r = [node |-> y, provider |-> Provider(def, y), config |-> Config(def, y)]
      OBVIOUS
    <2>1. r \in live' <=> r \in live
      BY <1>1
    <2> QED  BY <1>2, <2>1 DEF Fits
  <1> QED  BY <1>2, <1>3 DEF Touches, FitsOld

LEMMA TellsStep ==
    ASSUME NEW s, NEW q, Touches(s, q), strays \subseteq strays', NEW r,
           Tells(r, live, touched, strays)
    PROVE  Tells(r, live', touched', strays')
  <1> SUFFICES ASSUME NEW y, y \notin strays'
               PROVE  /\ y \in DOMAIN r.deployments <=> y \in Provided(Hash(r.draft))
                      /\ y \notin DOMAIN touched' => Fits(Hash(r.draft), y, live')
    BY DEF Tells
  <1>1. /\ y \in DOMAIN r.deployments <=> y \in Provided(Hash(r.draft))
        /\ y \notin DOMAIN touched => Fits(Hash(r.draft), y, live)
    BY DEF Tells
  <1>2. CASE y # q
    BY <1>1, <1>2, OffNode
  <1>3. CASE y = q
    BY <1>1, <1>3 DEF Touches
  <1> QED  BY <1>2, <1>3

LEMMA RecordStep ==
    ASSUME TypeInv, PlainInv, KeptInv, RecordIsLive, [Next]_vars, OperatorAssumption
    PROVE  RecordIsLive'
  <1>1. CASE UNCHANGED vars
    BY <1>1 DEF RecordIsLive, HasRecord, vars
  <1> SUFFICES ASSUME NEW s \in Operator, StepOf(s),
                      HasRecord', ~ tainted'
               PROVE  Tells(file', live', touched', strays')
    BY <1>1, RecordNodes DEF Next, StepOf
  <1> PICK a : a = apply[s]
    OBVIOUS
  <1>2. CASE ~ (Truncate(s) \/ Write(s))
    <2>1. file' = file /\ tainted' = tainted
      BY <1>2 DEF StepOf, Load, Plan, Stop, Confirm, Deploy, Undeploy, Missing, ReadVersion, Crash
    <2>2. HasRecord /\ ~ tainted
      BY <2>1 DEF HasRecord
    <2>3. Tells(file, live, touched, strays)
      BY <2>2, RecordNodes
    <2>4. CASE \/ \E d \in Draft : Load(s, d)
               \/ Plan(s) \/ Stop(s) \/ Confirm(s) \/ ReadVersion(s)
      <3>1. UNCHANGED <<live, touched, strays>>
        BY <2>4 DEF Load, Plan, Stop, Confirm, ReadVersion
      <3> QED  BY <2>1, <2>3, <3>1
    <2>5. CASE Deploy(s) \/ Undeploy(s)
      <3> PICK q : q = Head(a.todo).node
        OBVIOUS
      <3> PICK def : def = Hash(a.draft)
        OBVIOUS
      <3> PICK p : p = Provider(Hash(a.old.draft), q)
        OBVIOUS
      <3>1. Touches(s, q) /\ strays \subseteq strays'
        BY <2>5, DeployStep, UndeployStep
      <3> QED  BY <2>1, <2>3, <3>1, TellsStep
    <2>6. CASE Missing(s) \/ Crash(s)
      <3>1. live' = live /\ strays \subseteq strays' /\ DOMAIN touched' = DOMAIN touched
        BY <2>6, QuitStep DEF Missing, Crash
      <3> QED  BY <2>1, <2>3, <3>1 DEF Tells
    <2> QED  BY <1>2, <2>4, <2>5, <2>6 DEF StepOf
  <1>3. CASE Truncate(s)
    BY <1>3 DEF Truncate, HasRecord, Empty
  <1>4. CASE Write(s)
    <2>1. /\ a.pc = "writing"
          /\ file' = [draft |-> a.draft, version |-> a.version, deployments |-> a.deployments]
          /\ tainted' = (tainted \/ a.stale)
          /\ touched' = [q \in {n \in DOMAIN touched : touched[n] # s} |-> touched[q]]
          /\ live' = live /\ strays' = strays
      BY <1>4, WriteStep, Zenon
    <2>2. ~ a.stale /\ Plain(Hash(a.draft))
      BY <2>1 DEF PlainInv, PlainCommand
    <2>3. \A q : q \notin strays => Listed(a, q) /\ Held(s, a, q, live, touched)
      BY <2>1, <2>2 DEF KeptInv, Kept, Saving
    <2>4. Pending(a) = {}
      BY <2>1 DEF Pending
    <2>5. \A q : q \notin strays =>
              /\ q \in DOMAIN a.deployments <=> q \in Provided(Hash(a.draft))
              /\ (q \in DOMAIN touched /\ touched[q] # s) \/ Fits(Hash(a.draft), q, live)
      BY <2>3, <2>4 DEF Listed, Held
    <2>6. \A q : q \notin DOMAIN touched' => ~ (q \in DOMAIN touched /\ touched[q] # s)
      BY <2>1
    <2> QED  BY <2>1, <2>5, <2>6 DEF Tells
  <1> QED  BY <1>2, <1>3, <1>4

\* A step of another operator leaves what a command keeps.
LEMMA OtherKept ==
    ASSUME NEW s, NEW q, Touches(s, q), strays \subseteq strays', NEW x, x # s, NEW a,
           Kept(x, a, live, touched, strays)
    PROVE  Kept(x, a, live', touched', strays')
  <1> SUFFICES ASSUME ~ a.stale, NEW y, y \notin strays'
               PROVE  Held(x, a, y, live', touched')
    BY DEF Kept
  <1>1. Held(x, a, y, live, touched)
    BY DEF Kept
  <1>2. CASE y # q
    BY <1>1, <1>2, OffNode DEF Held
  <1>3. CASE y = q
    BY <1>1, <1>3 DEF Held, Touches
  <1> QED  BY <1>2, <1>3

LEMMA QuitKept ==
    ASSUME NEW s \in Operator, Quit(s), OperatorAssumption, live' = live, strays \subseteq strays',
           NEW x \in Operator, x # s, NEW a, Kept(x, a, live, touched, strays)
    PROVE  Kept(x, a, live', touched', strays')
  <1> SUFFICES ASSUME ~ a.stale, NEW y, y \notin strays'
               PROVE  Held(x, a, y, live', touched')
    BY DEF Kept
  <1>1. Held(x, a, y, live, touched)
    BY DEF Kept
  <1>2. /\ DOMAIN touched' = DOMAIN touched
        /\ \A q \in DOMAIN touched : touched'[q] = IF touched[q] = s THEN Debris ELSE touched[q]
    BY QuitStep
  <1>3. x # Debris
    BY DEF OperatorAssumption
  <1>4. (y \in DOMAIN touched /\ touched[y] # x) => (y \in DOMAIN touched' /\ touched'[y] # x)
    BY <1>2, <1>3
  <1> QED  BY <1>1, <1>2, <1>4 DEF Held

LEMMA LateKept ==
    ASSUME NEW x, NEW a, Command(a), a.pc \in Saving, NEW L, NEW T, NEW X, NEW L2, NEW T2, NEW X2,
           Kept(x, a, L, T, X)
    PROVE  Kept(x, Late(a), L2, T2, X2)
  <1> PICK b : b = Late(a)
    OBVIOUS
  <1>1. /\ b.pc = a.pc /\ DOMAIN b = DOMAIN a /\ b.stale
        /\ \A f \in DOMAIN a : f # "stale" => b[f] = a[f]
    BY LateCommand
  <1>2. a.pc = "deploying" => b.todo = a.todo /\ b.draft = a.draft /\ b.old = a.old
    BY <1>1 DEF Command, Idle
  <1> QED  BY <1>1, <1>2 DEF Kept, TodoFits

\* The node that a command has just called a provider for is done.
LEMMA DoneKept ==
    ASSUME NEW s \in Operator, NEW a, NEW q, NEW D, NEW b, b = Advanced(a, D), Command(a),
           a.pc = "deploying", a.todo # << >>, q = Head(a.todo).node,
           Touches(s, q), strays \subseteq strays', SameBut(q, a.deployments, D),
           Kept(s, a, live, touched, strays),
           (~ a.stale /\ q \notin strays') => /\ q \in DOMAIN D <=> q \in Provided(Hash(a.draft))
                                              /\ Fits(Hash(a.draft), q, live')
    PROVE  Kept(s, b, live', touched', strays')
  <1>1. /\ b.pc = "deploying" /\ b.draft = a.draft /\ b.old = a.old
        /\ b.stale = a.stale /\ b.todo = Tail(a.todo) /\ b.deployments = D
    BY ContinueCommand
  <1>2. a.todo \in Seq(Op)
    BY DEF Command, Idle
  <1>3. Range(a.todo) = {Head(a.todo)} \cup Range(Tail(a.todo))
    BY <1>2, TailRange
  <1>4. TodoFits(b)
    BY <1>1, <1>3 DEF Kept, TodoFits
  <1>5. \A y : y # q => (y \in Pending(b) <=> y \in Pending(a))
    BY <1>1, <1>3 DEF Pending
  <1>6. ASSUME ~ b.stale, NEW y, y \notin strays'
        PROVE  Listed(b, y) /\ Held(s, b, y, live', touched')
    <2>1. Listed(a, y) /\ Held(s, a, y, live, touched)
      BY <1>1, <1>6 DEF Kept
    <2>2. CASE y = q
      BY <1>1, <1>6, <2>2 DEF Listed, Held
    <2>3. CASE y # q
      <3>1. Listed(b, y)
        BY <1>1, <1>5, <2>1, <2>3 DEF Listed, SameBut
      <3>2. Held(s, b, y, live', touched')
        BY <1>1, <1>5, <2>1, <2>3, OffNode DEF Held
      <3> QED  BY <3>1, <3>2
    <2> QED  BY <2>2, <2>3
  <1> QED  BY <1>4, <1>6 DEF Kept

\* What a plan is about to do, for a command that starts from the deployments and the
\* artifacts of the record it was planned against.
LEMMA PlannedKept ==
    ASSUME NEW a, a.draft \in Accepts, PlainOld(a.old), a.plan = Diff(a.old, a.draft),
           Plain(Hash(a.draft)), DraftAssumption, AlphabetAssumption,
           NEW b, b.pc = "deploying", b.draft = a.draft, b.old = a.old, b.todo = Todo(a),
           NEW s, NEW L, NEW T, NEW X,
           ~ b.stale => \A q : q \notin X =>
               /\ q \in DOMAIN b.deployments <=> q \in ProvidedBy(a.old)
               /\ IF q \in DOMAIN T THEN T[q] # s ELSE FitsOld(a.old, q, L)
    PROVE  Kept(s, b, L, T, X)
  <1> DEFINE d == a.draft
             plan == a.plan
             mentioned == plan.added \cup plan.modified \cup plan.removed
  <1>1. Range(Todo(a)) =
            {[op |-> "deploy", node |-> q] : q \in plan.added \cup plan.modified}
            \cup {[op |-> "undeploy", node |-> q] : q \in plan.removed}
    BY TodoOps DEF PlainOld, Stored
  <1>2. Pending(b) = mentioned
    <2> PICK ops : ops = Range(Todo(a))
      OBVIOUS
    <2>1. \A x \in ops : x.node \in mentioned
      BY <1>1
    <2>2. ASSUME NEW q \in mentioned PROVE \E x \in ops : x.node = q
      <3>1. CASE q \in plan.removed
        <4>1. [op |-> "undeploy", node |-> q] \in ops
          BY <1>1, <3>1
        <4> QED  BY <4>1
      <3>2. CASE q \in plan.added \cup plan.modified
        <4>1. [op |-> "deploy", node |-> q] \in ops
          BY <1>1, <3>2
        <4> QED  BY <4>1
      <3> QED  BY <3>1, <3>2
    <2>3. Pending(b) = {x.node : x \in ops}
      BY DEF Pending
    <2> HIDE DEF mentioned
    <2> QED  BY <2>1, <2>2, <2>3
  <1>n. DOMAIN IRs[d].nodes = Nodes(Hash(d))
    BY PlainNodes
  <1>3. CASE a.old = None
    <2>1. plan.added = Nodes(Hash(d)) /\ plan.modified = {} /\ plan.removed = {}
      BY <1>3 DEF Diff, Nodes, Hash
    <2>2. TodoFits(b)
      BY <1>1, <2>1 DEF TodoFits
    <2>3. ASSUME ~ b.stale, NEW q, q \notin X PROVE Listed(b, q) /\ Held(s, b, q, L, T)
      <3>1. /\ q \notin DOMAIN b.deployments
            /\ IF q \in DOMAIN T THEN T[q] # s ELSE q \notin NodesIn(L)
        BY <1>3, <2>3 DEF ProvidedBy, FitsOld
      <3>2. CASE q \in Nodes(Hash(d))
        BY <1>2, <1>3, <2>1, <3>1, <3>2 DEF Listed, Held, ProvidedBy, FitsOld
      <3>3. CASE q \notin Nodes(Hash(d))
        <4>1. q \notin Provided(Hash(d))
          BY <3>3, ProvidedNodes
        <4> QED  BY <3>1, <4>1 DEF Listed, Held, Fits
      <3> QED  BY <3>2, <3>3
    <2> QED  BY <2>2, <2>3 DEF Kept
  <1>4. CASE a.old # None
    <2> DEFINE o == a.old.draft
    <2>1. o \in Accepts /\ Plain(Hash(o)) /\ DOMAIN IRs[o].nodes = Nodes(Hash(o))
      BY <1>4, PlainNodes DEF PlainOld, Stored
    <2>2. /\ plan.added = (DOMAIN IRs[d].nodes) \ DOMAIN IRs[o].nodes
          /\ plan.removed = (DOMAIN IRs[o].nodes) \ DOMAIN IRs[d].nodes
          /\ plan.modified = {q \in (DOMAIN IRs[d].nodes) \cap DOMAIN IRs[o].nodes :
                                  IRs[d].nodes[q] # IRs[o].nodes[q]}
      BY <1>4 DEF Diff
    <2>3. TodoFits(b)
      <3>1. \A x \in Range(b.todo) :
               \/ x.op = "deploy" /\ x.node \in Nodes(Hash(d))
               \/ x.op = "undeploy" /\ x.node \in Nodes(Hash(o)) \ Nodes(Hash(d))
        BY <1>1, <1>n, <2>1, <2>2
      <3> QED  BY <1>4, <3>1 DEF TodoFits
    <2> HIDE DEF o
    <2>4. ASSUME ~ b.stale, NEW q, q \notin X PROVE Listed(b, q) /\ Held(s, b, q, L, T)
      <3>1. /\ q \in DOMAIN b.deployments <=> q \in Provided(Hash(o))
            /\ IF q \in DOMAIN T THEN T[q] # s ELSE Fits(Hash(o), q, L)
        BY <1>4, <2>4 DEF ProvidedBy, FitsOld, o
      <3>2. CASE q \in mentioned
        <4>1. q \in Pending(b)
          BY <1>2, <3>2
        <4>2. ProvidedBy(b.old) = Provided(Hash(o)) /\ (FitsOld(b.old, q, L) <=> Fits(Hash(o), q, L))
          BY <1>4 DEF ProvidedBy, FitsOld, o
        <4> QED  BY <3>1, <4>1, <4>2 DEF Listed, Held
      <3>3. CASE q \notin mentioned
        <4>1. /\ q \in Provided(Hash(o)) <=> q \in Provided(Hash(d))
              /\ q \in Provided(Hash(o)) => /\ Provider(Hash(o), q) = Provider(Hash(d), q)
                                            /\ Config(Hash(o), q) = Config(Hash(d), q)
          BY <2>1, <2>2, <3>3, SameNode
        <4>2. Fits(Hash(o), q, L) => Fits(Hash(d), q, L)
          BY <4>1 DEF Fits
        <4> QED  BY <3>1, <4>1, <4>2 DEF Listed, Held
      <3> QED  BY <3>2, <3>3
    <2> QED  BY <2>3, <2>4 DEF Kept
  <1> QED  BY <1>3, <1>4

LEMMA ConfirmKept ==
    ASSUME Inv, NEW s \in Operator, Confirm(s), NEW a, a = apply[s], Plain(Hash(a.draft)),
           DraftAssumption, AlphabetAssumption,
           RecordHash(Record) = a.hash,
           NEW b, b = [pc |-> "deploying", draft |-> a.draft, old |-> a.old,
                       stale |-> a.stale \/ MidSave(s), todo |-> Todo(a),
                       deployments |-> IF HasRecord THEN file.deployments ELSE << >>]
    PROVE  Kept(s, b, live, touched, strays)
  <1>1. a.pc = "planned" /\ ~ tainted
    BY DEF Confirm, Bounded
  <1>2. Command(a) /\ PlainCommand(a) /\ PlannedWell(a, Record, previous)
    BY DEF Inv, TypeInv, PlainInv, PlanInv
  <1>3. a.draft \in Accepts /\ PlainOld(a.old) /\ a.plan = Diff(a.old, a.draft)
    BY <1>1, <1>2 DEF Command, PlainCommand, PlannedWell, Idle
  <1>4. \A q \in DOMAIN touched : touched[q] # s
    BY <1>1 DEF Inv, OwnerInv, Saving
  <1>5. ASSUME ~ b.stale, NEW q, q \notin strays
        PROVE  /\ q \in DOMAIN b.deployments <=> q \in ProvidedBy(a.old)
               /\ IF q \in DOMAIN touched THEN touched[q] # s ELSE FitsOld(a.old, q, live)
    <2>1. ~ a.stale /\ ~ MidSave(s)
      BY <1>5
    <2>2. \A x \in Operator : apply[x].pc # "writing"
      BY <1>1, <2>1 DEF MidSave
    <2>3. /\ Record = None <=> a.old = None
          /\ Record # None => Hash(Record.draft) = Hash(a.old.draft)
      <3>1. RecordHash(Record) = RecordHash(a.old)
        BY <1>1, <1>2, <2>1 DEF PlannedWell
      <3>2. /\ Record = None \/ Record.draft \in Accepts
            /\ a.old = None \/ a.old.draft \in Accepts
        BY <1>3, RecordStored DEF PlainOld, Stored, Inv
      <3> QED  BY <3>1, <3>2, SameHash
    <2>4. CASE HasRecord
      <3>1. Record = file /\ file # None
        BY <2>4 DEF Record, HasRecord, None
      <3>2. a.old # None /\ Hash(file.draft) = Hash(a.old.draft)
        BY <2>3, <3>1
      <3>3. Tells(file, live, touched, strays)
        BY <1>1, <2>4, RecordNodes DEF Inv
      <3>4. b.deployments = file.deployments
        BY <2>4
      <3> QED  BY <1>4, <1>5, <3>2, <3>3, <3>4 DEF Tells, ProvidedBy, FitsOld
    <2>5. CASE ~ HasRecord
      <3>1. a.old = None
        BY <2>3, <2>5 DEF Record
      <3>2. NodesIn(live) \subseteq strays \cup DOMAIN touched
        BY <2>2, <2>5 DEF Inv, LostInv
      <3>3. b.deployments = << >>
        BY <2>5
      <3>4. q \notin DOMAIN b.deployments
        BY <3>3
      <3> QED  BY <1>4, <1>5, <3>1, <3>2, <3>4 DEF ProvidedBy, FitsOld
    <2> QED  BY <2>4, <2>5
  <1>6. b.pc = "deploying" /\ b.draft = a.draft /\ b.old = a.old /\ b.todo = Todo(a)
    OBVIOUS
  <1> QED  BY <1>3, <1>5, <1>6, PlannedKept

LEMMA KeptMoves ==
    ASSUME Inv, NEW s \in Operator, NEW b, Moves(s, b),
           UNCHANGED <<live, touched, strays>>,
           (b.pc \in Saving /\ Plain(Hash(b.draft))) => Kept(s, b, live, touched, strays)
    PROVE  KeptInv'
  BY DEF Inv, TypeInv, KeptInv, Moves

LEMMA KeptStep ==
    ASSUME Inv, [Next]_vars, DraftAssumption, AlphabetAssumption, OperatorAssumption
    PROVE  KeptInv'
  <1>0. TypeInv /\ KeptInv /\ PlainInv
    BY DEF Inv
  <1>1. CASE UNCHANGED vars
    BY <1>0, <1>1 DEF KeptInv, vars
  <1> SUFFICES ASSUME NEW s \in Operator, StepOf(s) PROVE KeptInv'
    BY <1>1 DEF Next, StepOf
  <1> PICK a : a = apply[s]
    OBVIOUS
  <1>c. Command(a)
    BY <1>0 DEF TypeInv
  <1>k. (a.pc \in Saving /\ Plain(Hash(a.draft))) => Kept(s, a, live, touched, strays)
    BY <1>0 DEF KeptInv
  <1>2. CASE (\E d \in Draft : Load(s, d)) \/ Plan(s) \/ Stop(s)
    <2>1. UNCHANGED <<live, touched, strays>>
      BY <1>2 DEF Load, Plan, Stop
    <2>2. apply'[s].pc \notin Saving
      BY <1>0, <1>2, OwnCommand DEF Saving
    <2>3. \A x \in Operator : x # s => apply'[x] = apply[x]
      BY <1>0, <1>2 DEF Load, Plan, Stop, Leave, TypeInv
    <2> QED  BY <1>0, <2>1, <2>2, <2>3 DEF KeptInv
  <1>3. CASE Confirm(s)
    <2> PICK b : b = [pc |-> "deploying", draft |-> a.draft, old |-> a.old,
                      stale |-> a.stale \/ MidSave(s), todo |-> Todo(a),
                      deployments |-> IF HasRecord THEN file.deployments ELSE << >>]
      OBVIOUS
    <2>1. UNCHANGED <<live, touched, strays>>
      BY <1>3 DEF Confirm
    <2>2. Moves(s, Idle) \/ (RecordHash(Record) = a.hash /\ Moves(s, b))
      BY <1>0, <1>3, ConfirmStep
    <2>3. b.draft = a.draft
      OBVIOUS
    <2>4. (RecordHash(Record) = a.hash /\ Plain(Hash(b.draft))) =>
              Kept(s, b, live, touched, strays)
      BY <1>3, <2>3, ConfirmKept
    <2>5. Idle.pc \notin Saving
      BY DEF Idle, Saving
    <2> QED  BY <2>1, <2>2, <2>4, <2>5, KeptMoves
  <1>4. ASSUME NEW q, q = Head(a.todo).node, NEW D, Moves(s, Advanced(a, D)),
               a.pc = "deploying", a.todo # << >>,
               Touches(s, q), strays \subseteq strays', SameBut(q, a.deployments, D),
               (Plain(Hash(a.draft)) /\ ~ a.stale /\ q \notin strays') =>
                   /\ q \in DOMAIN D <=> q \in Provided(Hash(a.draft))
                   /\ Fits(Hash(a.draft), q, live')
        PROVE  KeptInv'
    <2> PICK b : b = Advanced(a, D)
      OBVIOUS
    <2>1. b.draft = a.draft
      BY <1>c, <1>4, ContinueCommand
    <2>2. Plain(Hash(a.draft)) => Kept(s, b, live', touched', strays')
      BY <1>c, <1>k, <1>4, DoneKept DEF Saving
    <2>3. ASSUME NEW x \in Operator, x # s, apply[x].pc \in Saving, Plain(Hash(apply[x].draft))
          PROVE  Kept(x, apply[x], live', touched', strays')
      <3>1. Kept(x, apply[x], live, touched, strays)
        BY <1>0, <2>3 DEF KeptInv
      <3> QED  BY <1>4, <2>3, <3>1, OtherKept
    <2> QED  BY <1>4, <2>1, <2>2, <2>3 DEF KeptInv, Moves
  <1>5. CASE Deploy(s)
    <2> PICK q : q = Head(a.todo).node
      OBVIOUS
    <2> PICK def : def = Hash(a.draft)
      OBVIOUS
    <2>1. /\ a.pc = "deploying" /\ a.todo # << >> /\ Head(a.todo).op = "deploy"
          /\ Touches(s, q) /\ strays \subseteq strays'
          /\ \E D : /\ Moves(s, Advanced(a, D)) /\ SameBut(q, a.deployments, D)
                    /\ q \notin strays' => Placed(def, q, D)
      BY <1>0, <1>5, DeployStep
    <2>2. PICK D : /\ Moves(s, Advanced(a, D)) /\ SameBut(q, a.deployments, D)
                   /\ q \notin strays' => Placed(def, q, D)
      BY <2>1
    <2>3. ASSUME Plain(def), ~ a.stale, q \notin strays'
          PROVE  (q \in DOMAIN D <=> q \in Provided(def)) /\ Fits(def, q, live')
      <3>1. TodoFits(a)
        BY <1>k, <2>1, <2>3 DEF Kept, Saving
      <3>2. q \in Nodes(def)
        <4>1. a.todo \in Seq(Op)
          BY <1>c, <2>1 DEF Command, Idle
        <4>2. Head(a.todo) \in Range(a.todo)
          BY <2>1, <4>1, TailRange
        <4> QED  BY <2>1, <3>1, <4>2 DEF TodoFits
      <3>3. q \in Provided(def) <=> Provider(def, q) \in Registered
        BY <2>3, <3>2, ProvidedNodes
      <3> QED  BY <2>2, <2>3, <3>3 DEF Placed, Fits
    <2> QED  BY <1>4, <2>1, <2>2, <2>3
  <1>6. CASE Undeploy(s)
    <2> PICK q : q = Head(a.todo).node
      OBVIOUS
    <2> PICK old : old = Hash(a.old.draft)
      OBVIOUS
    <2> PICK p : p = Provider(old, q)
      OBVIOUS
    <2>1. /\ a.pc = "deploying" /\ a.todo # << >> /\ Head(a.todo).op = "undeploy"
          /\ Touches(s, q) /\ strays \subseteq strays'
          /\ \E D : /\ Moves(s, Advanced(a, D)) /\ SameBut(q, a.deployments, D)
                    /\ q \notin strays' =>
                         /\ q \notin NodesIn(live')
                         /\ p \in Registered => q \notin DOMAIN D
                         /\ p \notin Registered => D = a.deployments
      BY <1>0, <1>6, UndeployStep
    <2>2. PICK D : /\ Moves(s, Advanced(a, D)) /\ SameBut(q, a.deployments, D)
                   /\ q \notin strays' =>
                        /\ q \notin NodesIn(live')
                        /\ p \in Registered => q \notin DOMAIN D
                        /\ p \notin Registered => D = a.deployments
      BY <2>1
    <2>3. ASSUME Plain(Hash(a.draft)), ~ a.stale, q \notin strays'
          PROVE  /\ q \in DOMAIN D <=> q \in Provided(Hash(a.draft))
                 /\ Fits(Hash(a.draft), q, live')
      <3>1. TodoFits(a) /\ Listed(a, q)
        BY <1>k, <2>1, <2>3 DEF Kept, Saving
      <3>2. a.old # None /\ q \notin Nodes(Hash(a.draft))
        <4>1. a.todo \in Seq(Op)
          BY <1>c, <2>1 DEF Command, Idle
        <4>2. Head(a.todo) \in Range(a.todo)
          BY <2>1, <4>1, TailRange
        <4> QED  BY <2>1, <3>1, <4>2 DEF TodoFits
      <3>3. q \notin Provided(Hash(a.draft))
        BY <3>2, ProvidedNodes
      <3>4. p \notin Registered => q \notin Provided(old)
        BY ProvidedNodes
      <3>5. q \notin DOMAIN D
        <4>1. CASE p \in Registered
          BY <2>2, <2>3, <4>1
        <4>2. CASE p \notin Registered
          BY <2>2, <2>3, <3>1, <3>2, <3>3, <3>4, <4>2 DEF Listed, ProvidedBy
        <4> QED  BY <4>1, <4>2
      <3> QED  BY <2>2, <2>3, <3>3, <3>5 DEF Fits
    <2> QED  BY <1>4, <2>1, <2>2, <2>3
  <1>7. CASE Missing(s) \/ Crash(s)
    <2>1. Quit(s) /\ live' = live /\ strays \subseteq strays'
      BY <1>7 DEF Missing, Crash
    <2>2. Moves(s, Idle) /\ Idle.pc \notin Saving
      BY <1>0, <1>7, Steps DEF Idle, Saving
    <2>3. ASSUME NEW x \in Operator, x # s, apply[x].pc \in Saving, Plain(Hash(apply[x].draft))
          PROVE  Kept(x, apply[x], live', touched', strays')
      <3>1. Kept(x, apply[x], live, touched, strays)
        BY <1>0, <2>3 DEF KeptInv
      <3> QED  BY <2>1, <2>3, <3>1, QuitKept
    <2> QED  BY <2>2, <2>3 DEF KeptInv, Moves
  <1>8. CASE ReadVersion(s)
    <2> PICK b : b = [pc |-> "versioned", draft |-> a.draft, deployments |-> a.deployments,
                      stale |-> a.stale, version |-> IF HasRecord THEN file.version + 1 ELSE 1]
      OBVIOUS
    <2>1. /\ Moves(s, b) /\ a.pc = "deploying" /\ a.todo = << >>
          /\ UNCHANGED <<live, touched, strays>>
      BY <1>0, <1>8, Steps DEF ReadVersion
    <2>2. /\ b.pc = "versioned" /\ b.draft = a.draft /\ b.deployments = a.deployments
          /\ b.stale = a.stale
      OBVIOUS
    <2>3. Pending(a) = {}
      BY <2>1 DEF Pending, Range
    <2>4. Plain(Hash(b.draft)) => Kept(s, b, live, touched, strays)
      BY <1>k, <2>1, <2>2, <2>3 DEF Kept, Listed, Held, Saving
    <2> QED  BY <2>1, <2>4, KeptMoves
  <1>9. CASE Truncate(s) \/ Write(s)
    <2>1. UNCHANGED <<live, strays>> /\ \A x \in Operator : x # s => apply'[x] = Late(apply[x])
      BY <1>0, <1>9, TruncateStep, WriteStep, Zenon
    <2>2. ASSUME NEW x \in Operator, x # s,
                 apply'[x].pc \in Saving, Plain(Hash(apply'[x].draft))
          PROVE  Kept(x, apply'[x], live', touched', strays')
      <3>1. Command(apply[x]) /\ apply'[x] = Late(apply[x])
        BY <1>0, <2>1, <2>2 DEF TypeInv
      <3>2. apply[x].pc \in Saving /\ "draft" \in DOMAIN apply[x] /\ apply'[x].draft = apply[x].draft
        <4> PICK c : c = apply[x]
          OBVIOUS
        <4>1. Late(c).pc = c.pc /\ \A f \in DOMAIN c : f # "stale" => Late(c)[f] = c[f]
          BY <3>1, LateCommand
        <4>2. c.pc \in Saving
          BY <2>2, <3>1, <4>1
        <4>3. "draft" \in DOMAIN c
          BY <3>1, <4>2 DEF Command, Idle, Saving
        <4> QED  BY <3>1, <4>1, <4>2, <4>3
      <3>3. Kept(x, apply[x], live, touched, strays)
        BY <1>0, <2>2, <3>2 DEF KeptInv
      <3> QED  BY <3>1, <3>2, <3>3, LateKept
    <2>3. CASE Truncate(s)
      <3> PICK b : b = [a EXCEPT !.pc = "writing"]
        OBVIOUS
      <3>1. a.pc = "versioned" /\ apply'[s] = b /\ touched' = touched
        BY <1>0, <2>3, TruncateStep
      <3>2. /\ b.pc = "writing" /\ b.draft = a.draft /\ b.deployments = a.deployments
            /\ b.stale = a.stale
        BY <1>c, <3>1 DEF Command, Idle
      <3>3. Pending(a) = {}
        BY <3>1 DEF Pending
      <3>4. Plain(Hash(b.draft)) => Kept(s, b, live, touched, strays)
        BY <1>k, <3>1, <3>2, <3>3 DEF Kept, Listed, Held, Saving
      <3> QED  BY <2>1, <2>2, <3>1, <3>4 DEF KeptInv
    <2>4. CASE Write(s)
      <3>1. apply'[s].pc \notin Saving
        BY <1>0, <2>4, OwnCommand DEF Saving
      <3> QED  BY <2>2, <3>1 DEF KeptInv
    <2> QED  BY <1>9, <2>3, <2>4
  <1> QED  BY <1>2, <1>3, <1>5, <1>6, <1>7, <1>8, <1>9 DEF StepOf

-----------------------------------------------------------------------------
(* The theorems.                                                           *)

LEMMA InitInv ==
    ASSUME Init, OperatorAssumption
    PROVE  Inv
  <1>1. \A s \in Operator : apply[s] = Idle
    BY DEF Init
  <1>2. Idle.pc = "idle" /\ Command(Idle) /\ PlainCommand(Idle) /\ \A r, p : PlannedWell(Idle, r, p)
    BY DEF Idle, Command, PlainCommand, PlannedWell
  <1>3. ~ HasRecord
    BY DEF Init, HasRecord, None
  <1>4. TypeInv
    <2>1. DOMAIN apply = Operator /\ DOMAIN touched = {} /\ live = {} /\ tainted = FALSE
      BY DEF Init
    <2>2. file = None /\ previous = None
      BY DEF Init
    <2> QED  BY <1>1, <1>2, <2>1, <2>2 DEF TypeInv
  <1>5. PlainInv /\ PlanInv /\ RaceInv /\ KeptInv
    BY <1>1, <1>2, <1>3 DEF PlainInv, PlanInv, RaceInv, KeptInv, Saving
  <1>6. OwnerInv /\ LostInv
    BY DEF Init, OwnerInv, LostInv, NodesIn
  <1>7. RecordIsLive
    BY <1>3 DEF RecordIsLive
  <1> QED  BY <1>4, <1>5, <1>6, <1>7 DEF Inv

\* What the commands do to one another and to the record is kept by every step, for any
\* operators, drafts and providers.
THEOREM DeployInvariant == Spec => []Inv
  <1>1. Init => Inv
    BY InitInv, OperatorAssumption
  <1>2. Inv /\ [Next]_vars => Inv'
    <2> SUFFICES ASSUME Inv, [Next]_vars PROVE Inv'
      OBVIOUS
    <2>1. /\ TypeInv /\ PlainInv /\ OwnerInv /\ RaceInv /\ PlanInv /\ LostInv
          /\ RecordIsLive /\ KeptInv
      BY DEF Inv
    <2>2. TypeInv' /\ PlainInv'
      BY <2>1, TypeStep, PlainStep, DraftAssumption, AlphabetAssumption, OperatorAssumption
    <2>3. OwnerInv' /\ RaceInv' /\ LostInv'
      BY <2>1, <2>2, OwnerStep, RaceStep, LostStep, OperatorAssumption
    <2>4. PlanInv'
      BY <2>1, PlanInvStep, DraftAssumption
    <2>5. RecordIsLive'
      BY <2>1, RecordStep, OperatorAssumption
    <2>6. KeptInv'
      BY KeptStep, DraftAssumption, AlphabetAssumption, OperatorAssumption
    <2> QED  BY <2>2, <2>3, <2>4, <2>5, <2>6 DEF Inv
  <1> QED  BY <1>1, <1>2, PTL DEF Spec

\* The file holds a record of an accepted draft or none that can be read, and every command
\* is at one of its steps.
THEOREM DeployTypeCorrect == Spec => []TypeOK
  <1>1. Inv => TypeOK
    <2> SUFFICES ASSUME TypeInv PROVE TypeOK
      BY DEF Inv
    <2>1. \A s \in Operator : apply[s].pc \in
              {"idle", "loaded", "unchanged", "planned", "deploying", "versioned", "writing"}
      BY DEF TypeInv, Command, Idle
    <2> QED  BY <2>1 DEF TypeInv, TypeOK, Stored
  <1> QED  BY <1>1, DeployInvariant, PTL

\* Every definition that validation accepts compiles into one the runtimes can execute, module
\* instances and all, for any process files (validate_process, compile_process).
THEOREM CompiledForRuntimeCorrect == Spec => []CompiledForRuntime
  <1>1. Inv => CompiledForRuntime
    <2> SUFFICES ASSUME TypeInv, NEW s \in Operator, apply[s].pc = "loaded"
                 PROVE  apply[s].draft \in Executable
      BY DEF Inv, CompiledForRuntime
    <2>1. PICK d \in Accepts : apply[s].draft = d
      BY DEF TypeInv, Command, Idle
    <2>2. PICK def : def = Definition[d]
      OBVIOUS
    <2>3. WellFormed(def) /\ Valid(def) /\ Compilable(def)
      BY <2>2, DraftAssumption DEF DraftAssumption, Accepts
    <2>4. Sound(Compile(def))
      BY <2>3, AlphabetAssumption, CompileSound
    <2>5. Sound(IRs[d])
      BY <2>2, <2>4 DEF IRs
    <2> QED  BY <2>1, <2>5 DEF Executable
  <1> QED  BY <1>1, DeployInvariant, PTL

\* The stored record tells what the providers hold, whatever the commands that run beside
\* each other do and wherever one of them dies (the deployment loop of apply).
THEOREM RecordIsLiveCorrect == Spec => []RecordIsLive
  <1>1. Inv => RecordIsLive
    BY DEF Inv
  <1> QED  BY <1>1, DeployInvariant, PTL

\* A process with module instances is never applied: the stored record has none, because
\* the deployment of what is inside of one does not find it (the deployment loop of apply).
ModulesStayOut == HasRecord => Plain(Hash(file.draft))
THEOREM ModulesStayOutCorrect == Spec => []ModulesStayOut
  <1>1. Inv => ModulesStayOut
    BY DEF Inv, PlainInv, ModulesStayOut
  <1> QED  BY <1>1, DeployInvariant, PTL

\* What apply takes away is in the definition the plan was made against: the look-up of a
\* removed node never fails, so that every step of a command is one of the model.
UndeployFinds ==
    \A s \in Operator : Doing(s, "undeploy") =>
        Found(Hash(apply[s].old.draft), Head(apply[s].todo).node)
THEOREM UndeployFindsCorrect == Spec => []UndeployFinds
  <1>1. Inv => UndeployFinds
    <2> SUFFICES ASSUME Inv, NEW s \in Operator, Doing(s, "undeploy")
                 PROVE  Found(Hash(apply[s].old.draft), Head(apply[s].todo).node)
      BY DEF UndeployFinds
    <2> PICK a : a = apply[s]
      OBVIOUS
    <2>1. /\ a.pc = "deploying" /\ a.todo # << >> /\ Head(a.todo).op = "undeploy"
          /\ Command(a) /\ PlainCommand(a)
      BY DEF Doing, Inv, TypeInv, PlainInv
    <2>2. a.todo \in Seq(Op)
      BY <2>1 DEF Command, Idle
    <2>3. Head(a.todo) \in Range(a.todo)
      BY <2>1, <2>2, TailRange
    <2>4. /\ a.old # None /\ Plain(Hash(a.old.draft))
          /\ Head(a.todo).node \in Nodes(Hash(a.old.draft))
      BY <2>1, <2>3 DEF PlainCommand, RemovesOld, PlainOld
    <2>5. PICK n \in DOMAIN Hash(a.old.draft).inst : Head(a.todo).node = <<n>>
      BY <2>4 DEF Nodes
    <2>6. Found(Hash(a.old.draft), <<n>>)
      BY <2>4 DEF Found, Plain
    <2> QED  BY <2>5, <2>6
  <1> QED  BY <1>1, DeployInvariant, PTL

\* A record that replaces another one keeps its published types and counts one more, unless
\* the save raced or the record was lost (Plan._validate_immutability, save_process).
THEOREM PublishedStaysCorrect == Spec => PublishedStays
  <1> DEFINE Keeps == Written /\ ~ tainted' /\ previous # None =>
                        /\ Compatible(Hash(previous.draft), Hash(file'.draft))
                        /\ file'.version = previous.version + 1
  <1>1. Inv /\ [Next]_vars => [Keeps]_vars
    <2> SUFFICES ASSUME Inv, Next PROVE Keeps
      OBVIOUS
    <2> PICK s \in Operator : StepOf(s)
      BY DEF Next, StepOf
    <2> PICK a : a = apply[s]
      OBVIOUS
    <2>0. TypeInv
      BY DEF Inv
    <2>1. CASE Write(s)
      <3>1. /\ a.pc = "writing" /\ tainted' = (tainted \/ a.stale)
            /\ file' = [draft |-> a.draft, version |-> a.version, deployments |-> a.deployments]
        BY <2>0, <2>1, WriteStep, Zenon
      <3>2. PlannedWell(a, Record, previous)
        BY DEF Inv, PlanInv
      <3>3. file'.draft = a.draft /\ file'.version = a.version
        BY <3>1
      <3> QED  BY <3>1, <3>2, <3>3 DEF PlannedWell, Replaces
    <2>2. CASE Truncate(s)
      BY <2>2 DEF Truncate, Written, Empty
    <2>3. CASE ~ (Write(s) \/ Truncate(s))
      <3>1. file' = file
        BY <2>3 DEF StepOf, Load, Plan, Stop, Confirm, Deploy, Undeploy, Missing, ReadVersion, Crash
      <3> QED  BY <3>1 DEF Written
    <2> QED  BY <2>1, <2>2, <2>3
  <1> QED  BY <1>1, DeployInvariant, PTL DEF Spec, PublishedStays

=============================================================================
