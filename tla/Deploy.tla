------------------------------- MODULE Deploy -------------------------------
(***************************************************************************)
(* bpg apply (src/src/bpg/cli.py) over the stored record of one process    *)
(* (src/src/bpg/state/store.py) and the diff of src/src/bpg/compiler/      *)
(* planner.py.  Several operators apply drafts of the process; between two *)
(* reads of the record, two deployments, or the truncation and the writing *)
(* of the file, the others run, and the command may die or a provider      *)
(* fail.  live is what the providers hold, which no process reads back.    *)
(*                                                                         *)
(* A draft stands for the file an operator applies, Definition[draft] for  *)
(* what it holds; the hash of a record stands for its normalised           *)
(* definition, and the artifacts of a deployment for the configuration     *)
(* they were made from.                                                    *)
(***************************************************************************)
EXTENDS Compiler

CONSTANTS
    Operator,       \* concurrent bpg apply commands
    Draft,          \* the process files
    Definition,     \* [Draft -> definition]
    Files,          \* bound, [Operator -> SUBSET Draft]: what each one may apply
    Registered,     \* the providers in PROVIDER_REGISTRY
    MaxVersion      \* bound: nobody confirms a plan over a record of this version

VARIABLES
    file,           \* the record file: None, Empty or a record
    live,           \* artifacts in the providers: [node, provider, config]
    apply,          \* [Operator -> a command's local state]
    touched,        \* history: nodes deployed or undeployed by an apply that has not
                    \* saved: node -> that operator, or Debris once it is over
    strays,         \* history: nodes with artifacts that no record will list again, or with
                    \* an entry in it for a provider they no longer have
    previous,       \* history: the record the file last held
    tainted         \* history: a save replaced a record it was not planned against

vars == <<file, live, apply, touched, strays, previous, tainted>>

None == [kind |-> "none"]           \* no file
\* Truncated, or in part written: it reads as no record.  (A part that ends where it can
\* be parsed, or where it raises, is not modelled.)
Empty == [kind |-> "empty"]
Idle == [pc |-> "idle"]
Debris == "debris"

ASSUME DraftAssumption == DOMAIN Definition = Draft /\ \A d \in Draft : WellFormed(Definition[d])
ASSUME OperatorAssumption == Debris \notin Operator

Accepts == {d \in Draft : Valid(Definition[d]) /\ Compilable(Definition[d])}
IRs == [d \in Accepts |-> Compile(Definition[d])]
Hash(d) == IRs[d].process

(***************************************************************************)
(* The plan.                                                               *)
(***************************************************************************)
\* Neither the mapping nor the settings of an edge are part of its identity.
EdgeIds(ir) == {<<e.source, e.target, e.when>> : e \in Range(ir.process.edges)}

\* The names are sorted; old is None on the first apply, when the names are those of the
\* process, and not yet flattened.
Diff(old, new) ==
    IF old = None
    THEN [added |-> {<<n>> : n \in DOMAIN IRs[new].process.inst},
          removed |-> {}, modified |-> {}, rewired |-> TRUE]
    ELSE LET o == IRs[old.draft]
             n == IRs[new]
         IN [added |-> (DOMAIN n.nodes) \ DOMAIN o.nodes,
             removed |-> (DOMAIN o.nodes) \ DOMAIN n.nodes,
             modified |-> {q \in (DOMAIN n.nodes) \cap DOMAIN o.nodes : n.nodes[q] # o.nodes[q]},
             rewired |-> EdgeIds(n) # EdgeIds(o) \/ n.process.trigger # o.process.trigger]

IsEmpty(plan) == plan.added \cup plan.removed \cup plan.modified = {} /\ ~plan.rewired

Breaking(o, n) ==
    \/ o.in # n.in \/ o.out # n.out \/ o.provider # n.provider
    \/ \E f \in DOMAIN o.schema :
          f \notin DOMAIN n.schema \/ (n.schema[f] /\ ~o.schema[f])

Shared(f, g) == (DOMAIN f) \cap DOMAIN g

\* What _validate_immutability lets a definition n that replaces o do.  Only names that
\* both have are compared: one that is dropped breaks nothing.  Of a configuration field
\* the model has whether it is required, and not its type, so that a field of a published
\* node type breaks it by being dropped or becoming required only.
Compatible(o, n) ==
    /\ \A t \in Shared(o.types, n.types) : o.types[t] = n.types[t]
    /\ \A t \in Shared(o.nodeTypes, n.nodeTypes) :
          o.nodeTypes[t].version = n.nodeTypes[t].version =>
              ~Breaking(o.nodeTypes[t], n.nodeTypes[t])
    /\ \A m \in Shared(o.modules, n.modules) :
          o.modules[m].version = n.modules[m].version => o.modules[m] = n.modules[m]

(***************************************************************************)
(* The command, one action from a read or write of the file, or a call of  *)
(* a provider, to the next.                                                *)
(***************************************************************************)
HasRecord == "draft" \in DOMAIN file
Record == IF HasRecord THEN file ELSE None          \* load_record
RecordHash(r) == IF r = None THEN None ELSE Hash(r.draft)

Put(f, x, value) == [y \in DOMAIN f \cup {x} |-> IF y = x THEN value ELSE f[y]]
Settle(t, s, as) == [q \in DOMAIN t |-> IF t[q] = s THEN as ELSE t[q]]
Leave(s) == apply' = [apply EXCEPT ![s] = Idle]

\* The command ends before it has saved: with an error, or killed.
Quit(s) ==
    /\ Leave(s)
    /\ touched' = Settle(touched, s, Debris)

Init ==
    /\ file = None /\ live = {}
    /\ apply = [s \in Operator |-> Idle]
    /\ touched = << >> /\ strays = {}
    /\ previous = None /\ tainted = FALSE

\* parse, validate and load_process: a draft that is not valid ends the command here, and one
\* that does not compile a step later, before it has done anything.
Load(s, d) ==
    /\ apply[s] = Idle
    /\ d \in Files[s] \cap Accepts
    /\ apply' = [apply EXCEPT ![s] =
                    [pc |-> "loaded", draft |-> d, old |-> Record, stale |-> FALSE]]
    /\ UNCHANGED <<file, live, touched, strays, previous, tainted>>

\* The record is read again for its hash; then the plan is made, which may be refused or
\* empty.
Plan(s) ==
    /\ apply[s].pc = "loaded"
    /\ LET a == apply[s]
           plan == Diff(a.old, a.draft)
       IN apply' = [apply EXCEPT ![s] =
            IF a.old # None /\ ~Compatible(Hash(a.old.draft), Hash(a.draft)) THEN Idle
            ELSE IF IsEmpty(plan)
            THEN [pc |-> "unchanged", draft |-> a.draft, old |-> a.old]
            ELSE [pc |-> "planned", draft |-> a.draft, old |-> a.old, plan |-> plan,
                  hash |-> RecordHash(Record), stale |-> a.stale]]
    /\ UNCHANGED <<file, live, touched, strays, previous, tainted>>

\* "No changes to apply", or the operator declines.
Stop(s) ==
    /\ apply[s].pc \in {"unchanged", "planned"}
    /\ Leave(s)
    /\ UNCHANGED <<file, live, touched, strays, previous, tainted>>

\* The plan's nodes in sorted order, those to deploy first.
Todo(a) ==
    LET top == Top(Hash(a.draft)).nodes
        Ordered(names, S, op) ==
            LET nodes == Select(names, S)
            IN [i \in DOMAIN nodes |-> [op |-> op, node |-> nodes[i]]]
    IN  IF a.old = None THEN Ordered(top, a.plan.added, "deploy")
        ELSE Ordered(IRs[a.draft].names, a.plan.added, "deploy")
             \o Ordered(IRs[a.draft].names, a.plan.modified, "deploy")
             \o Ordered(IRs[a.old.draft].names, a.plan.removed, "undeploy")

\* The bounds: versions written or about to be, and nothing after a save that raced.
Bounded == /\ HasRecord => file.version < MaxVersion
           /\ \A x \in Operator :
                 apply[x].pc \in {"versioned", "writing"} => apply[x].version < MaxVersion
           /\ ~tainted

\* History: the record is between the truncation and the writing of another save, and
\* read as missing.
MidSave(s) == \E x \in Operator \ {s} : apply[x].pc = "writing"

\* Mutant: no drift check.
Confirm_Unchecked(s) ==
    /\ apply[s].pc = "planned"
    /\ Bounded
    /\ LET a == apply[s] IN
       apply' = [apply EXCEPT ![s] =
                [pc |-> "deploying", draft |-> a.draft, old |-> a.old, stale |-> a.stale \/ MidSave(s),
                 todo |-> Todo(a),
                 deployments |-> IF HasRecord THEN file.deployments ELSE << >>]]
    /\ UNCHANGED <<file, live, touched, strays, previous, tainted>>
\* The operator confirms: the record is read a third time for the drift check, and its
\* deployments are the ones to amend.  The check of the artifacts that follows is left out:
\* every save computes the checksums it stores (store.py:150-156), so it refuses nothing
\* but a record that something else than the program wrote.
Confirm(s) ==
    /\ apply[s].pc = "planned"
    /\ Bounded
    /\ LET a == apply[s] IN
       apply' = [apply EXCEPT ![s] =
            IF RecordHash(Record) # a.hash THEN Idle
            ELSE [pc |-> "deploying", draft |-> a.draft, old |-> a.old, stale |-> a.stale \/ MidSave(s),
                  todo |-> Todo(a),
                  deployments |-> IF HasRecord THEN file.deployments ELSE << >>]]
    /\ UNCHANGED <<file, live, touched, strays, previous, tainted>>

Doing(s, op) ==
    /\ apply[s].pc = "deploying"
    /\ apply[s].todo # << >>
    /\ Head(apply[s].todo).op = op

\* process.nodes[node] and process.node_types[type]: neither the contents of a module
\* instance nor the instance itself are found there.
Found(def, q) == Len(q) = 1 /\ ~IsModule(def, def.inst[q[1]].type)
Provider(def, q) == def.nodeTypes[def.inst[q[1]].type].provider
Config(def, q) == def.inst[q[1]].config

Continue(s, deployments) ==
    apply' = [apply EXCEPT ![s].todo = Tail(@), ![s].deployments = deployments]

\* What other providers hold for the node.
Others(q, provider) == {x \in live : x.node = q /\ x.provider # provider}

\* Mutant: a modified node is not deployed again when the record lists it.
Deploy_Once(s) ==
    /\ Doing(s, "deploy")
    /\ LET a == apply[s]
           q == Head(a.todo).node
           def == Hash(a.draft)
           provider == Provider(def, q)
       IN  /\ Found(def, q)
           /\ IF provider \in Registered /\ q \notin DOMAIN a.deployments
              THEN /\ live' = {x \in live : x.node # q \/ x.provider # provider}
                              \cup {[node |-> q, provider |-> provider, config |-> Config(def, q)]}
                   /\ touched' = Put(touched, q, s)
                   /\ Continue(s, Put(a.deployments, q,
                                     [provider |-> provider, config |-> Config(def, q)]))
              ELSE /\ Continue(s, a.deployments)
                   /\ UNCHANGED <<live, touched>>
           /\ strays' = strays \cup
                {n \in {q} : \/ Others(n, provider) # {}
                             \/ provider \notin Registered /\ n \in DOMAIN a.deployments}
    /\ UNCHANGED <<file, previous, tainted>>
\* An added or modified node.  The artifacts of another provider stay, and so does its
\* record when the new one is not registered.
Deploy(s) ==
    /\ Doing(s, "deploy")
    /\ LET a == apply[s]
           q == Head(a.todo).node
           def == Hash(a.draft)
           provider == Provider(def, q)
       IN  /\ Found(def, q)
           /\ IF provider \in Registered
              THEN /\ live' = {x \in live : x.node # q \/ x.provider # provider}
                              \cup {[node |-> q, provider |-> provider, config |-> Config(def, q)]}
                   /\ touched' = Put(touched, q, s)
                   /\ Continue(s, Put(a.deployments, q,
                                     [provider |-> provider, config |-> Config(def, q)]))
              ELSE /\ Continue(s, a.deployments)
                   /\ UNCHANGED <<live, touched>>
           /\ strays' = strays \cup
                {n \in {q} : \/ Others(n, provider) # {}
                             \/ provider \notin Registered /\ n \in DOMAIN a.deployments}
    /\ UNCHANGED <<file, previous, tainted>>

\* A removed node, with the provider of the definition the plan was made against.
Undeploy(s) ==
    /\ Doing(s, "undeploy")
    /\ LET a == apply[s]
           q == Head(a.todo).node
           def == Hash(a.old.draft)
           provider == Provider(def, q)
       IN  /\ Found(def, q)
           /\ IF provider \in Registered
              THEN /\ live' = {x \in live : x.node # q \/ x.provider # provider}
                   /\ touched' = Put(touched, q, s)
                   /\ Continue(s, [n \in DOMAIN a.deployments \ {q} |-> a.deployments[n]])
              ELSE /\ Continue(s, a.deployments)
                   /\ UNCHANGED <<live, touched>>
           /\ strays' = strays \cup {n \in {q} : Others(n, provider) # {}}
    /\ UNCHANGED <<file, previous, tainted>>

\* A KeyError: the node is part of a module instance, or is one.
Missing(s) ==
    /\ Doing(s, "deploy")
    /\ ~Found(Hash(apply[s].draft), Head(apply[s].todo).node)
    /\ Quit(s)
    /\ UNCHANGED <<file, live, strays, previous, tainted>>

\* Mutant: the first version is 0.
ReadVersion_Zero(s) ==
    /\ apply[s].pc = "deploying" /\ apply[s].todo = << >>
    /\ LET a == apply[s] IN
       apply' = [apply EXCEPT ![s] =
                    [pc |-> "versioned", draft |-> a.draft, deployments |-> a.deployments,
                     stale |-> a.stale, version |-> IF HasRecord THEN file.version + 1 ELSE 0]]
    /\ UNCHANGED <<file, live, touched, strays, previous, tainted>>
\* save_process: one more than the version that is there, or than 0 when none can be read.
ReadVersion(s) ==
    /\ apply[s].pc = "deploying" /\ apply[s].todo = << >>
    /\ LET a == apply[s] IN
       apply' = [apply EXCEPT ![s] =
                    [pc |-> "versioned", draft |-> a.draft, deployments |-> a.deployments,
                     stale |-> a.stale, version |-> IF HasRecord THEN file.version + 1 ELSE 1]]
    /\ UNCHANGED <<file, live, touched, strays, previous, tainted>>

\* The record of the others changes under them: between their first two reads, or after
\* the drift check.
Overtaken(s) ==
    [x \in Operator |->
        IF x # s /\ apply[x].pc \in {"loaded", "deploying", "versioned", "writing"}
        THEN [apply[x] EXCEPT !.stale = TRUE] ELSE apply[x]]

\* open(record_path, "w") empties the file ...
Truncate(s) ==
    /\ apply[s].pc = "versioned"
    /\ file' = Empty
    /\ previous' = IF HasRecord THEN file ELSE previous
    /\ apply' = [Overtaken(s) EXCEPT ![s].pc = "writing"]
    /\ UNCHANGED <<live, touched, strays, tainted>>

\* ... and the record is dumped into it.
Write(s) ==
    /\ apply[s].pc = "writing"
    /\ LET a == apply[s] IN
       /\ file' = [draft |-> a.draft, version |-> a.version, deployments |-> a.deployments]
       /\ tainted' = (tainted \/ a.stale)
    /\ apply' = [Overtaken(s) EXCEPT ![s] = Idle]
    /\ touched' = [q \in {n \in DOMAIN touched : touched[n] # s} |-> touched[q]]
    /\ UNCHANGED <<live, strays, previous>>

\* The command is killed, or a provider raises.  An empty file it leaves is a record lost,
\* and with it the deployments that only it listed.
Crash(s) ==
    /\ apply[s] # Idle
    /\ Quit(s)
    /\ IF apply[s].pc = "writing" /\ file = Empty
       THEN /\ previous' = None
            /\ strays' = strays \cup {x.node : x \in live}
       ELSE UNCHANGED <<previous, strays>>
    /\ UNCHANGED <<file, live, tainted>>

Next == \E s \in Operator :
    \/ \E d \in Draft : Load(s, d)
    \/ Plan(s) \/ Stop(s) \/ Confirm(s)
    \/ Deploy(s) \/ Undeploy(s) \/ Missing(s)
    \/ ReadVersion(s) \/ Truncate(s) \/ Write(s)
    \/ Crash(s)

Spec == Init /\ [][Next]_vars

(***************************************************************************)
(* Properties.                                                             *)
(***************************************************************************)
\* The file holds no record, none that can be read, or one of an accepted draft; a
\* version counts from 1; an operator's command is at one of its steps.
TypeOK ==
    /\ \/ file \in {None, Empty}
       \/ file.draft \in Accepts /\ file.version \in Nat \ {0}
    /\ \A x \in live : x.provider \in Registered
    /\ \A s \in Operator : apply[s].pc \in
          {"idle", "loaded", "unchanged", "planned", "deploying", "versioned", "writing"}
    /\ \A q \in DOMAIN touched : touched[q] \in Operator \cup {Debris}
    /\ tainted \in BOOLEAN

\* Every definition that validation accepts compiles into one the runtimes can execute,
\* module instances and all (validate_process, compile_process).
Executable == {d \in Accepts : Sound(IRs[d])}
CompiledForRuntime ==
    \A s \in Operator : apply[s].pc = "loaded" => apply[s].draft \in Executable

Provided(def) == {<<n>> : n \in {m \in DOMAIN def.inst :
                    ~IsModule(def, def.inst[m].type) /\ Provider(def, <<m>>) \in Registered}}

\* The stored record tells what the providers hold (the deployment loop of apply): the
\* nodes it lists are those its definition has deployed, each with that provider and
\* configuration, and nothing else is live.  Excepted are the nodes an unsaved apply
\* has touched since, the artifacts a node left with another provider or a lost record
\* listed, the entry it keeps when its new provider is not there, and every record after
\* a save over one that was not planned against.
RecordIsLive ==
    HasRecord /\ ~tainted =>
        LET def == Hash(file.draft)
            sure(S) == S \ (strays \cup DOMAIN touched)
        IN  /\ DOMAIN file.deployments \ strays = Provided(def) \ strays
            /\ \A q \in sure(Provided(def)) :
                  [node |-> q, provider |-> Provider(def, q), config |-> Config(def, q)] \in live
            /\ sure({x.node : x \in live}) \subseteq Provided(def)

\* A record that replaces another one keeps its published types, bumps the versions of
\* node types and modules that break, and counts one more, unless the save raced with
\* another one in the gaps the drift check leaves or the record was lost
\* (Plan._validate_immutability, the drift check of apply, save_process).
Written == "draft" \in DOMAIN file' /\ file' # file
PublishedStays ==
    [][Written /\ ~tainted' /\ previous # None =>
            /\ Compatible(Hash(previous.draft), Hash(file'.draft))
            /\ file'.version = previous.version + 1]_vars

\* "No changes to apply" is said of a draft that is deployed ("mapping and when are part
\* of the edge identity for diffing purposes", src/src/bpg/compiler/planner.py).
UnchangedIsDeployed ==
    \A s \in Operator : apply[s].pc = "unchanged" => Hash(apply[s].draft) = Hash(apply[s].old.draft)
=============================================================================
