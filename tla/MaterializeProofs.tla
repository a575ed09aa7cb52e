--------------------------- MODULE MaterializeProofs ---------------------------
(***************************************************************************)
(* What is proved of Materialize, for any number of approvals at once, any  *)
(* extractions and any seeded nodes: no node has two active versions; an    *)
(* answer means that what was found or made is in the graph; types; a retry *)
(* repairs what a broken-off approval left, and a repeated approval changes *)
(* nothing, but for what concerns contested proposals.  Each invariant      *)
(* contains the ones before it: Inv, WrittenInv, TypeInv, RetryInv,         *)
(* AgainInv.                                                                *)
(***************************************************************************)
EXTENDS Materialize, TLAPS, WellFoundedInduction

(***************************************************************************)
(* One active version.  What an approval found missing it creates only      *)
(* later; NothingElse is what makes that safe: until then no node of that   *)
(* key can become active but the one with the id made from the key, and     *)
(* the database admits an id once.                                          *)
(***************************************************************************)
Typing ==
    /\ nodes \subseteq Node
    /\ pc \in [Runs -> PC]
    /\ ext \in [Runs -> Extractions]
    /\ pos \in [Runs -> Nat \ {0}]
    /\ uuid \in [Runs -> Seq(Ids)]
    /\ plan \in [Runs -> Seq(Plan)]

\* places and plans belong to proposals
Places ==
    \A r \in Runs :
      /\ Len(plan[r]) = Len(uuid[r])
      /\ Len(plan[r]) <= Len(Props(r))
      /\ pc[r] = "idle" => plan[r] = <<>> /\ uuid[r] = <<>> /\ pos[r] = 1
      /\ pc[r] \in {"hash", "name"} => pos[r] <= Len(Props(r)) /\ Len(plan[r]) = pos[r] - 1
      /\ pc[r] = "create" => pos[r] <= Len(Props(r)) /\ Len(plan[r]) = Len(Props(r))

\* node_id_unique, and an id never changes its key
IdsUnique == \A n, m \in nodes : n.id = m.id => n = m

\* what is to be created has the id made from its key
NewIsNamed ==
    \A r \in Runs : \A i \in DOMAIN plan[r] :
      plan[r][i] = "new" => uuid[r][i] = NodeId(Props(r)[i].key)

\* and no other node of that key is active
NothingElse ==
    \A r \in Runs : \A i \in DOMAIN plan[r] : plan[r][i] = "new" =>
      \A n \in nodes : n.live /\ n.key = Props(r)[i].key => n.id = NodeId(n.key)

Inv == Typing /\ Places /\ IdsUnique /\ NewIsNamed /\ NothingElse /\ OneActiveVersion

-----------------------------------------------------------------------------
LEMMA ProposedTypes ==
    ASSUME NEW e \in Extractions
    PROVE  /\ Proposed[e] \in Seq(Proposal)
           /\ Len(Proposed[e]) \in Nat /\ Len(Proposed[e]) >= 1
           /\ \A i \in 1..Len(Proposed[e]) : Proposed[e][i].key \in Keys
                                             /\ Proposed[e][i].hash \in STRING
<1>1. Proposed[e] \in Seq(Proposal) /\ Proposed[e] # <<>>
  BY MaterializeAssumption
<1>2. \A i \in 1..Len(Proposed[e]) : Proposed[e][i] \in Proposal
  BY <1>1
<1> QED
  BY <1>1, <1>2 DEF Proposal

LEMMA NoneType == None \in Extractions
  BY MaterializeAssumption DEF None

\* The initial graph holds the seeded nodes, one of each key.
LEMMA InitInv == Init => Inv
<1> SUFFICES ASSUME Init PROVE Inv
  OBVIOUS
<1> USE DEF Init
<1>1. Typing
  BY MaterializeAssumption, NoneType DEF Typing, PC, Plan
<1>2. Places
  BY NoneType, ProposedTypes DEF Places, Props
<1>3. IdsUnique /\ OneActiveVersion
  BY MaterializeAssumption DEF IdsUnique, OneActiveVersion
<1>4. NewIsNamed /\ NothingElse
  BY DEF NewIsNamed, NothingElse
<1> QED
  BY <1>1, <1>2, <1>3, <1>4 DEF Inv

\* A request that ends forgets what it planned.
LEMMA EndInv ==
    ASSUME Inv, NEW r \in Runs, End(r), UNCHANGED nodes
    PROVE  Inv'
<1> USE DEF Inv, End, Goto
<1>1. Typing'
  BY NoneType DEF Typing, PC
<1>2. Places'
  BY NoneType, ProposedTypes DEF Typing, Places, Props
<1>3. IdsUnique' /\ OneActiveVersion'
  BY DEF IdsUnique, OneActiveVersion
<1>4. plan'[r] = <<>> /\ \A q \in Runs \ {r} : plan'[q] = plan[q] /\ uuid'[q] = uuid[q]
                                               /\ Props(q)' = Props(q)
  BY DEF Typing, Props
<1>5. NewIsNamed' /\ NothingElse'
  BY <1>4 DEF NewIsNamed, NothingElse
<1> QED
  BY <1>1, <1>2, <1>3, <1>5

\* A request that begins has planned nothing yet.
LEMMA ApproveInv ==
    ASSUME Inv, NEW r \in Runs, NEW e \in Extractions, Approve(r, e)
    PROVE  Inv'
<1> USE DEF Inv, Approve, Goto, graph
<1>1. Typing'
  BY DEF Typing, PC
<1>2. Places'
  BY ProposedTypes DEF Typing, Places, Props
<1>3. IdsUnique' /\ OneActiveVersion'
  BY DEF IdsUnique, OneActiveVersion
<1>4. plan[r] = <<>> /\ \A q \in Runs \ {r} : Props(q)' = Props(q)
  BY DEF Typing, Places, Props
<1>5. NewIsNamed' /\ NothingElse'
  BY <1>4 DEF NewIsNamed, NothingElse
<1> QED
  BY <1>1, <1>2, <1>3, <1>5

\* A proposal is resolved; one that is to be created was found nowhere.
LEMMA ResolveInv ==
    ASSUME Inv, NEW r \in Runs, NEW id \in Ids, NEW how \in Plan,
           pc[r] \in {"hash", "name"}, Resolve(r, id, how),
           how = "new" => /\ id = NodeId(Props(r)[pos[r]].key)
                          /\ Existing(Props(r)[pos[r]].key) = {}
    PROVE  Inv'
<1> USE DEF Inv
<1>a. /\ uuid' = [uuid EXCEPT ![r] = Append(@, id)]
      /\ plan' = [plan EXCEPT ![r] = Append(@, how)]
      /\ UNCHANGED <<nodes, ext>>
  BY DEF Resolve, graph
<1>b. Props(r) = Proposed[ext[r]] /\ ext[r] \in Extractions
  BY DEF Typing, Props
<1>c. /\ Len(Props(r)) \in Nat /\ pos[r] \in Nat \ {0} /\ pos[r] <= Len(Props(r))
      /\ uuid[r] \in Seq(Ids) /\ plan[r] \in Seq(Plan)
      /\ Len(plan[r]) = pos[r] - 1 /\ Len(uuid[r]) = pos[r] - 1
  BY <1>b, ProposedTypes DEF Typing, Places
<1>d. Work(r) = Props(r) /\ After(r) = "create"
  BY DEF Work, After
<1>e. \/ pos[r] < Len(Props(r)) /\ pos' = [pos EXCEPT ![r] = @ + 1]
           /\ pc' = [pc EXCEPT ![r] = "hash"]
      \/ pos[r] = Len(Props(r)) /\ pos' = [pos EXCEPT ![r] = 1]
           /\ pc' = [pc EXCEPT ![r] = "create"]
  BY <1>c, <1>d DEF Resolve, Advance, Goto
<1>f. \A q \in Runs : Props(q)' = Props(q)
  BY <1>a DEF Props
<1>1. Typing'
  <2>1. uuid' \in [Runs -> Seq(Ids)]
    <3>1. Append(uuid[r], id) \in Seq(Ids)
      BY <1>c
    <3> QED
      BY <3>1, <1>a DEF Typing
  <2>2. plan' \in [Runs -> Seq(Plan)]
    <3>1. Append(plan[r], how) \in Seq(Plan)
      BY <1>c
    <3> QED
      BY <3>1, <1>a DEF Typing
  <2>3. pc' \in [Runs -> PC] /\ pos' \in [Runs -> Nat \ {0}]
    <3>1. pos[r] + 1 \in Nat \ {0} /\ 1 \in Nat \ {0} /\ {"hash", "create"} \subseteq PC
      BY <1>c DEF PC
    <3>2. pos \in [Runs -> Nat \ {0}] /\ pc \in [Runs -> PC]
      BY DEF Typing
    <3> HIDE DEF Inv
    <3> QED
      BY <3>1, <3>2, <1>e
  <2> QED
    BY <2>1, <2>2, <2>3, <1>a DEF Typing
<1>2. Places'
  <2>1. ASSUME NEW q \in Runs, q # r
        PROVE  /\ plan'[q] = plan[q] /\ uuid'[q] = uuid[q] /\ pos'[q] = pos[q]
               /\ pc'[q] = pc[q]
    BY <1>a, <1>e, <2>1 DEF Typing
  <2>2. /\ Len(plan'[r]) = pos[r] /\ Len(uuid'[r]) = pos[r]
        /\ pc'[r] \in {"hash", "create"}
        /\ pc'[r] = "hash" => pos'[r] = pos[r] + 1 /\ pos[r] < Len(Props(r))
        /\ pc'[r] = "create" => pos'[r] = 1 /\ pos[r] = Len(Props(r))
    BY <1>a, <1>c, <1>e DEF Typing
  <2> QED
    BY <2>1, <2>2, <1>c, <1>f, SMTT(40) DEF Places
<1>3. IdsUnique' /\ OneActiveVersion'
  BY <1>a DEF IdsUnique, OneActiveVersion
<1>4. ASSUME NEW q \in Runs, NEW i \in DOMAIN plan'[q]
      PROVE  \/ q = r /\ i = pos[r] /\ plan'[q][i] = how /\ uuid'[q][i] = id
             \/ i \in DOMAIN plan[q] /\ plan'[q][i] = plan[q][i] /\ uuid'[q][i] = uuid[q][i]
  <2>1. CASE q # r
    BY <2>1, <1>a DEF Typing
  <2>2. CASE q = r
    BY <2>2, <1>a, <1>c DEF Typing
  <2> QED
    BY <2>1, <2>2
<1>5. NewIsNamed'
  BY <1>4, <1>f DEF NewIsNamed
<1>6. NothingElse'
  BY <1>4, <1>f, <1>a DEF NothingElse, Existing
<1> QED
  BY <1>1, <1>2, <1>3, <1>5, <1>6

\* What a request does after its resolutions leaves them alone, but for one plan.
LEMMA AdvanceInv ==
    ASSUME Inv, NEW r \in Runs, NEW p \in {"create", "link", "cite"}, pc[r] = p,
           Advance(r, p), UNCHANGED <<ext, uuid>>
    PROVE  /\ pc' \in [Runs -> PC] /\ pos' \in [Runs -> Nat \ {0}]
           /\ \A q \in Runs : q # r => pc'[q] = pc[q] /\ pos'[q] = pos[q]
           /\ pc'[r] \in {"create", "link", "cite", "answer"}
           /\ pc'[r] = "create" => p = "create" /\ pos'[r] <= Len(Props(r))
<1> USE DEF Inv
<1>1. ext[r] \in Extractions /\ Len(Props(r)) \in Nat
  BY ProposedTypes DEF Typing, Props
<1>2. p = "create" => Work(r) = Props(r)
  BY DEF Work
<1>3. After(r) \in {"link", "cite", "answer"}
  BY DEF After
<1>4. \/ pos' = [pos EXCEPT ![r] = @ + 1] /\ pc' = [pc EXCEPT ![r] = p]
           /\ pos[r] < Len(Work(r))
      \/ pos' = [pos EXCEPT ![r] = 1] /\ pc' = [pc EXCEPT ![r] = After(r)]
  BY DEF Advance, Goto
<1>5. CASE pos' = [pos EXCEPT ![r] = @ + 1] /\ pc' = [pc EXCEPT ![r] = p]
             /\ pos[r] < Len(Work(r))
  BY <1>1, <1>2, <1>5 DEF Typing, PC
<1>6. CASE pos' = [pos EXCEPT ![r] = 1] /\ pc' = [pc EXCEPT ![r] = After(r)]
  BY <1>3, <1>6 DEF Typing, PC
<1> QED
  BY <1>4, <1>5, <1>6

\* A proposal is passed over, or a relationship or citation written.
LEMMA PassInv ==
    ASSUME Inv, NEW r \in Runs, NEW p \in {"create", "link", "cite"}, pc[r] = p,
           Advance(r, p), UNCHANGED <<nodes, ext, uuid, plan>>
    PROVE  Inv'
<1> USE DEF Inv
<1>1. /\ pc' \in [Runs -> PC] /\ pos' \in [Runs -> Nat \ {0}]
      /\ \A q \in Runs : q # r => pc'[q] = pc[q] /\ pos'[q] = pos[q]
      /\ pc'[r] \in {"create", "link", "cite", "answer"}
      /\ pc'[r] = "create" => p = "create" /\ pos'[r] <= Len(Props(r))
  BY AdvanceInv
<1>2. \A q \in Runs : Props(q)' = Props(q)
  BY DEF Props
<1>3. Typing'
  BY <1>1 DEF Typing
<1>4. Places'
  BY <1>1, <1>2 DEF Places
<1>5. IdsUnique' /\ OneActiveVersion'
  BY DEF IdsUnique, OneActiveVersion
<1>6. NewIsNamed' /\ NothingElse'
  BY <1>2 DEF NewIsNamed, NothingElse
<1> QED
  BY <1>3, <1>4, <1>5, <1>6

\* A proposal of the list is skipped or made.
LEMMA DecideInv ==
    ASSUME Inv, NEW r \in Runs, NEW how \in {"skipped", "made"}, pc[r] = "create",
           Decide(r, how), nodes' \subseteq Node
    PROVE  /\ Typing' /\ Places' /\ NewIsNamed'
           /\ \A q \in Runs : \A i \in DOMAIN plan'[q] : plan'[q][i] = "new" =>
                i \in DOMAIN plan[q] /\ plan[q][i] = "new" /\ Props(q)' = Props(q)
<1> USE DEF Inv
<1>a. /\ plan' = [plan EXCEPT ![r][pos[r]] = how]
      /\ Advance(r, "create") /\ UNCHANGED <<ext, uuid>>
  BY DEF Decide, local
<1>b. /\ pc' \in [Runs -> PC] /\ pos' \in [Runs -> Nat \ {0}]
      /\ \A q \in Runs : q # r => pc'[q] = pc[q] /\ pos'[q] = pos[q]
      /\ pc'[r] \in {"create", "link", "cite", "answer"}
      /\ pc'[r] = "create" => pos'[r] <= Len(Props(r))
  BY <1>a, AdvanceInv DEF Decide
<1>c. \A q \in Runs : Props(q)' = Props(q)
  BY <1>a DEF Props
<1>d. plan[r] \in Seq(Plan) /\ pos[r] \in DOMAIN plan[r]
  <2>1. plan[r] \in Seq(Plan) /\ pos[r] \in Nat \ {0} /\ pos[r] <= Len(plan[r])
    BY DEF Typing, Places
  <2> QED
    BY <2>1
<1>e. /\ plan'[r] = [plan[r] EXCEPT ![pos[r]] = how]
      /\ plan'[r] \in Seq(Plan) /\ Len(plan'[r]) = Len(plan[r])
      /\ \A q \in Runs : q # r => plan'[q] = plan[q]
  <2>1. /\ plan'[r] = [plan[r] EXCEPT ![pos[r]] = how]
        /\ \A q \in Runs : q # r => plan'[q] = plan[q]
    BY <1>a DEF Typing
  <2>2. how \in Plan
    BY DEF Plan
  <2>3. plan'[r] \in Seq(Plan) /\ Len(plan'[r]) = Len(plan[r])
    BY <2>1, <2>2, <1>d
  <2> QED
    BY <2>1, <2>3
<1>1. Typing'
  BY <1>a, <1>b, <1>e DEF Typing
<1>2. Places'
  <2>1. /\ uuid' = uuid /\ \A q \in Runs : Len(plan'[q]) = Len(plan[q]) /\ Props(q)' = Props(q)
        /\ \A q \in Runs : q # r => plan'[q] = plan[q]
    BY <1>a, <1>c, <1>e
  <2>2. pc'[r] = "create" => pos'[r] <= Len(Props(r)) /\ Len(plan[r]) = Len(Props(r))
    BY <1>b DEF Places
  <2>3. pc'[r] \notin {"idle", "hash", "name"}
    BY <1>b
  <2> QED
    BY <1>b, <2>1, <2>2, <2>3 DEF Places
<1>3. \A q \in Runs : \A i \in DOMAIN plan'[q] : plan'[q][i] = "new" =>
                i \in DOMAIN plan[q] /\ plan[q][i] = "new"
  <2> SUFFICES ASSUME NEW q \in Runs, NEW i \in DOMAIN plan'[q], plan'[q][i] = "new"
               PROVE  i \in DOMAIN plan[q] /\ plan[q][i] = "new"
    OBVIOUS
  <2>1. CASE q # r
    BY <1>e, <2>1
  <2>2. CASE q = r
    <3>1. DOMAIN plan'[r] = DOMAIN plan[r] /\ how # "new"
      BY <1>e
    <3> QED
      BY <1>d, <1>e, <2>2, <3>1
  <2> QED
    BY <2>1, <2>2
<1>4. NewIsNamed'
  BY <1>3, <1>c, <1>a DEF NewIsNamed
<1> QED
  BY <1>1, <1>2, <1>3, <1>4, <1>c

\* A node is created where nothing else of its key is active and its id is free.
LEMMA CreateInv ==
    ASSUME Inv, NEW r \in Runs, Create(r)
    PROVE  Inv'
<1> USE DEF Inv
<1> DEFINE p == Props(r)[pos[r]]
           n == New(r, p)
<1>0. pc[r] = "create"
  BY DEF Create
<1>1. CASE plan[r][pos[r]] # "new"
  BY <1>0, <1>1, PassInv DEF Create, graph, local
<1>2. CASE plan[r][pos[r]] = "new" /\ ~Converts(r, p)
  <2>1. Decide(r, "skipped") /\ UNCHANGED nodes
    BY <1>2 DEF Create
  <2>2. nodes' \subseteq Node
    BY <2>1 DEF Typing
  <2>3. /\ Typing' /\ Places' /\ NewIsNamed'
        /\ \A q \in Runs : \A i \in DOMAIN plan'[q] : plan'[q][i] = "new" =>
             i \in DOMAIN plan[q] /\ plan[q][i] = "new" /\ Props(q)' = Props(q)
    BY <1>0, <2>1, <2>2, DecideInv
  <2>4. NothingElse'
    BY <2>1, <2>3 DEF NothingElse
  <2>5. IdsUnique' /\ OneActiveVersion'
    BY <2>1 DEF IdsUnique, OneActiveVersion
  <2> QED
    BY <2>3, <2>4, <2>5
<1>3. CASE plan[r][pos[r]] = "new" /\ Converts(r, p) /\ Unique(uuid[r][pos[r]], p)
  <2>1. nodes' = nodes \union {n} /\ Decide(r, "made")
    BY <1>3 DEF Create
  <2>2. /\ pos[r] \in DOMAIN plan[r] /\ pos[r] \in DOMAIN uuid[r] /\ p.key \in Keys
        /\ p.hash \in STRING /\ uuid[r] \in Seq(Ids) /\ ext[r] \in Extractions
    BY <1>0, ProposedTypes, SMTT(40) DEF Typing, Places, Props
  <2>3. n \in Node
    <3>1. uuid[r][pos[r]] \in Ids /\ \A i \in DOMAIN uuid[r] : uuid[r][i] \in Ids
      BY <2>2
    <3> QED
      BY <2>2, <3>1 DEF New, Node
  <2>4. nodes' \subseteq Node
    BY <2>1, <2>3 DEF Typing
  <2>5. /\ Typing' /\ Places' /\ NewIsNamed'
        /\ \A q \in Runs : \A i \in DOMAIN plan'[q] : plan'[q][i] = "new" =>
             i \in DOMAIN plan[q] /\ plan[q][i] = "new" /\ Props(q)' = Props(q)
    BY <1>0, <2>1, <2>4, DecideInv
  <2>6. /\ n.id = NodeId(p.key) /\ n.key = p.key /\ n.live
        /\ \A m \in nodes : m.id # n.id
        /\ \A m \in nodes : m.live /\ m.key = n.key => m.id = n.id
    BY <1>3, <2>2 DEF New, NewIsNamed, NothingElse, Unique
  <2>7. NothingElse'
    BY <2>1, <2>5, <2>6 DEF NothingElse
  <2>8. IdsUnique' /\ OneActiveVersion'
    BY <2>1, <2>6 DEF IdsUnique, OneActiveVersion
  <2> QED
    BY <2>5, <2>7, <2>8
<1>4. CASE plan[r][pos[r]] = "new" /\ Converts(r, p) /\ ~Unique(uuid[r][pos[r]], p)
  <2>1. End(r) /\ UNCHANGED nodes
    BY <1>4 DEF Create, graph
  <2> QED
    BY <2>1, EndInv
<1> QED
  BY <1>1, <1>2, <1>3, <1>4

\* Superseding a version makes no other one active.
LEMMA BumpInv ==
    ASSUME Inv, NEW n \in nodes, Bump(n)
    PROVE  Inv'
<1> USE DEF Inv
<1> DEFINE old == [n EXCEPT !.live = FALSE]
<1>1. nodes' = (nodes \ {n}) \union {old} /\ UNCHANGED <<pc, ext, pos, uuid, plan>>
  BY DEF Bump
<1>2. n \in Node
  BY DEF Typing
<1>3. old \in Node /\ old.id = n.id /\ old.key = n.key /\ ~old.live
  BY <1>2 DEF Node
<1> HIDE DEF old
<1>4. Typing'
  BY <1>1, <1>3 DEF Typing
<1>5. Places'
  BY <1>1 DEF Places, Props
<1>6. IdsUnique' /\ OneActiveVersion'
  BY <1>1, <1>3 DEF IdsUnique, OneActiveVersion
<1>7. NewIsNamed'
  BY <1>1 DEF NewIsNamed, Props
<1>8. NothingElse'
  BY <1>1, <1>3 DEF NothingElse, Props
<1> QED
  BY <1>4, <1>5, <1>6, <1>7, <1>8

LEMMA StepInv == Inv /\ [Next]_vars => Inv'
<1> SUFFICES ASSUME Inv, [Next]_vars PROVE Inv'
  OBVIOUS
<1>1. CASE UNCHANGED vars
  BY <1>1 DEF vars, Inv, Typing, Places, Props, IdsUnique, NewIsNamed, NothingElse,
              OneActiveVersion
<1>2. ASSUME NEW n \in nodes, Bump(n) PROVE Inv'
  BY <1>2, BumpInv
<1>3. ASSUME NEW r \in Runs, Step(r) PROVE Inv'
  <2>1. ASSUME NEW e \in Extractions, Approve(r, e) PROVE Inv'
    BY <2>1, ApproveInv
  <2>2. ASSUME NEW n \in nodes, pc[r] \in {"hash", "name"}, Adopt(r, n) PROVE Inv'
    <3>1. n.id \in Ids /\ "found" \in Plan
      BY DEF Inv, Typing, Node, Plan
    <3> QED
      BY <2>2, <3>1, ResolveInv DEF Adopt
  <2>3. CASE FindHash(r)
    <3>1. CASE \E n \in WithHash(Props(r)[pos[r]]) : Adopt(r, n)
      BY <2>3, <3>1, <2>2 DEF FindHash, WithHash
    <3>2. CASE Goto(r, "name") /\ UNCHANGED <<graph, pos, plan, local>>
      <4>1. pc[r] = "hash" /\ pc' = [pc EXCEPT ![r] = "name"]
            /\ UNCHANGED <<nodes, pos, plan, ext, uuid>>
        BY <2>3, <3>2 DEF FindHash, Goto, graph, local
      <4> QED
        BY <4>1 DEF Inv, Typing, PC, Places, Props, IdsUnique, NewIsNamed, NothingElse,
                    OneActiveVersion
    <3> QED
      BY <2>3, <3>1, <3>2 DEF FindHash
  <2>4. CASE FindName(r)
    <3> DEFINE k == Props(r)[pos[r]].key
    <3>1. pc[r] \in {"hash", "name"}
      BY <2>4 DEF FindName
    <3>2. CASE \E n \in Existing(k) : Adopt(r, n)
      BY <3>1, <3>2, <2>2 DEF Existing
    <3>3. ASSUME NEW i \in Earlier(r), Resolve(r, uuid[r][i], "dup") PROVE Inv'
      <4>1. uuid[r][i] \in Ids /\ "dup" \in Plan
        BY <3>1 DEF Earlier, Inv, Typing, Places, Plan
      <4> QED
        BY <3>1, <3>3, <4>1, ResolveInv
    <3>4. CASE Existing(k) = {} /\ Resolve(r, NodeId(k), "new")
      <4>1. k \in Keys
        BY <3>1, ProposedTypes DEF Inv, Typing, Places, Props
      <4>2. NodeId(k) \in Ids /\ "new" \in Plan
        BY <4>1 DEF NodeId, Ids, Plan
      <4> QED
        BY <3>1, <3>4, <4>2, ResolveInv
    <3> QED
      BY <2>4, <3>2, <3>3, <3>4 DEF FindName
  <2>5. CASE Create(r)
    BY <2>5, CreateInv
  <2>6. CASE Link(r)
    BY <2>6, PassInv DEF Link, local
  <2>7. CASE Cite(r)
    BY <2>7, PassInv DEF Cite, local
  <2>8. CASE Answer(r) \/ Fails(r)
    BY <2>8, EndInv DEF Answer, Fails, graph
  <2> QED
    BY <1>3, <2>1, <2>3, <2>4, <2>5, <2>6, <2>7, <2>8 DEF Step
<1> QED
  BY <1>1, <1>2, <1>3 DEF Next

\* However approvals overlap, break off and are repeated, and whatever is superseded
\* meanwhile, no node has two active versions.
THEOREM NoTwoVersions == Spec => []OneActiveVersion
<1>1. Inv => OneActiveVersion
  BY DEF Inv
<1> QED
  BY InitInv, StepInv, <1>1, PTL DEF Spec

-----------------------------------------------------------------------------
(***************************************************************************)
(* What an approval has written by the time it answers.                    *)
(***************************************************************************)
PlacedThere(r) ==
    \A i \in DOMAIN plan[r] : plan[r][i] \in {"found", "made"} => There(uuid[r][i])

LinksWritten(r) ==
    \A i \in DOMAIN Links[ext[r]] :
      pc[r] \in {"cite", "answer"} \/ (pc[r] = "link" /\ i < pos[r]) =>
        (Placed(r, Links[ext[r]][i].src) /\ Placed(r, Links[ext[r]][i].dst)
           => LinkEdge(r, Links[ext[r]][i]) \in DOMAIN edges)

CitesWritten(r) ==
    \A i \in DOMAIN Cited[ext[r]] :
      pc[r] = "answer" \/ (pc[r] = "cite" /\ i < pos[r]) =>
        (Placed(r, Cited[ext[r]][i]) /\ Placed(r, DocumentAt(r))
           => CiteEdge(r, i) \in DOMAIN edges)

Written(r) == PlacedThere(r) /\ LinksWritten(r) /\ CitesWritten(r)
WrittenInv == Inv /\ \A r \in Runs : Written(r)

\* nothing an approval depends on is taken from the graph
Grows ==
    /\ \A n \in nodes : \E m \in nodes' : m.id = n.id
    /\ DOMAIN edges \subseteq DOMAIN edges'

Kept(r) == /\ pc'[r] = pc[r] /\ ext'[r] = ext[r] /\ pos'[r] = pos[r]
           /\ uuid'[r] = uuid[r] /\ plan'[r] = plan[r]

LEMMA PlacedIsThere ==
    ASSUME NEW r \in Runs, NEW i, PlacedThere(r), Placed(r, i),
           Len(plan[r]) = Len(uuid[r]), uuid[r] \in Seq(Ids), plan[r] \in Seq(Plan)
    PROVE  There(uuid[r][i])
<1>1. PICK j \in 1..i : plan[r][j] \in {"found", "made"} /\ uuid[r][j] = uuid[r][i]
  BY DEF Placed
<1>2. i \in 1..Len(plan[r]) /\ j \in DOMAIN plan[r]
  BY <1>1 DEF Placed
<1> QED
  BY <1>1, <1>2 DEF PlacedThere

\* What an approval has written stays written while others move.
LEMMA OthersKeep ==
    ASSUME NEW r \in Runs, Written(r), Kept(r), Grows
    PROVE  Written(r)'
<1>1. /\ Props(r)' = Props(r) /\ DocumentAt(r)' = DocumentAt(r)
      /\ \A i : Placed(r, i)' = Placed(r, i) /\ CiteEdge(r, i)' = CiteEdge(r, i)
      /\ \A l : LinkEdge(r, l)' = LinkEdge(r, l)
  BY DEF Kept, Props, DocumentAt, Placed, CiteEdge, LinkEdge
<1>2. PlacedThere(r)'
  BY DEF Written, PlacedThere, There, Kept, Grows
<1>3. LinksWritten(r)'
  BY <1>1 DEF Written, LinksWritten, Kept, Grows
<1>4. CitesWritten(r)'
  BY <1>1 DEF Written, CitesWritten, Kept, Grows
<1> QED
  BY <1>2, <1>3, <1>4 DEF Written

LEMMA WriteGrows ==
    ASSUME NEW x, Write(x), UNCHANGED nodes
    PROVE  Grows /\ (There(x.src) /\ There(x.dst) => x \in DOMAIN edges')
  BY DEF Write, MergeEdge, There, Grows

\* A request that has written nothing since its last resolution.
LEMMA EarlyWritten ==
    ASSUME NEW r \in Runs, PlacedThere(r)', pc'[r] \in {"idle", "hash", "name", "create"}
    PROVE  Written(r)'
  BY DEF Written, LinksWritten, CitesWritten

\* The step from the proposals to what is written about them.
LEMMA LateWritten ==
    ASSUME Inv, NEW r \in Runs, pc[r] = "create", Advance(r, "create"), PlacedThere(r)',
           UNCHANGED ext
    PROVE  Written(r)'
<1>1. MaterializeAssumption /\ ext[r] \in Extractions
  BY MaterializeAssumption DEF Inv, Typing
<1>2. \/ pc'[r] = "create"
      \/ pc'[r] = "link" /\ pos'[r] = 1
      \/ pc'[r] = "cite" /\ pos'[r] = 1 /\ Links[ext[r]] = <<>>
      \/ pc'[r] = "answer" /\ Links[ext[r]] = <<>> /\ Cited[ext[r]] = <<>>
  BY DEF Advance, Goto, After, Inv, Typing
<1>3. /\ Links[ext[r]] \in Seq([type : STRING, src : Nat, dst : Nat])
      /\ Cited[ext[r]] \in Seq(Nat)
  BY <1>1, MaterializeAssumption
<1>4. LinksWritten(r)'
  BY <1>2, <1>3 DEF LinksWritten
<1>5. CitesWritten(r)'
  BY <1>2, <1>3 DEF CitesWritten
<1> QED
  BY <1>4, <1>5 DEF Written

LEMMA ResolveWritten ==
    ASSUME WrittenInv, NEW r \in Runs, NEW id \in Ids, NEW how \in Plan,
           pc[r] \in {"hash", "name"}, Resolve(r, id, how),
           how = "found" => There(id), how # "made"
    PROVE  Written(r)' /\ Grows /\ \A q \in Runs \ {r} : Kept(q)
<1> USE DEF Inv, WrittenInv
<1>a. /\ uuid' = [uuid EXCEPT ![r] = Append(@, id)]
      /\ plan' = [plan EXCEPT ![r] = Append(@, how)]
      /\ UNCHANGED <<nodes, edges, ext>> /\ Advance(r, "hash")
  BY DEF Resolve, graph
<1>b. /\ uuid[r] \in Seq(Ids) /\ plan[r] \in Seq(Plan) /\ Len(plan[r]) = Len(uuid[r])
  BY DEF Typing, Places
<1>1. uuid'[r] = Append(uuid[r], id) /\ plan'[r] = Append(plan[r], how)
  BY <1>a DEF Typing
<1>2. PlacedThere(r)
  BY DEF Written
<1>3. ASSUME NEW i \in DOMAIN plan'[r], plan'[r][i] \in {"found", "made"}
      PROVE  There(uuid'[r][i])
  <2>1. CASE i = Len(plan[r]) + 1
    BY <2>1, <1>1, <1>3, <1>b
  <2>2. CASE i # Len(plan[r]) + 1
    <3>1. i \in DOMAIN plan[r] /\ plan'[r][i] = plan[r][i] /\ uuid'[r][i] = uuid[r][i]
      BY <2>2, <1>1, <1>b
    <3> QED
      BY <3>1, <1>2, <1>3 DEF PlacedThere
  <2> QED
    BY <2>1, <2>2
<1>4. PlacedThere(r)'
  BY <1>3, <1>a DEF PlacedThere, There
<1>5. pc'[r] \in {"hash", "create"}
  BY <1>a DEF Advance, Goto, After, Typing
<1>6. Grows /\ \A q \in Runs \ {r} : Kept(q)
  BY <1>a DEF Grows, Kept, Advance, Goto, Typing
<1> QED
  BY <1>4, <1>5, <1>6, EarlyWritten

LEMMA CreateWritten ==
    ASSUME WrittenInv, NEW r \in Runs, Create(r), ~(End(r) /\ UNCHANGED graph)
    PROVE  Written(r)' /\ Grows /\ \A q \in Runs \ {r} : Kept(q)
<1> USE DEF Inv, WrittenInv
<1> DEFINE p == Props(r)[pos[r]]
<1>a. /\ pc[r] = "create" /\ PlacedThere(r)
      /\ uuid[r] \in Seq(Ids) /\ plan[r] \in Seq(Plan) /\ pos[r] \in DOMAIN plan[r]
  <2>1. pc[r] = "create" /\ PlacedThere(r)
    BY DEF Create, Written
  <2>2. /\ uuid[r] \in Seq(Ids) /\ plan[r] \in Seq(Plan) /\ pos[r] \in Nat \ {0}
        /\ pos[r] <= Len(plan[r])
    BY <2>1 DEF Typing, Places
  <2> QED
    BY <2>1, <2>2
<1>b. \/ UNCHANGED <<nodes, edges, plan, ext, uuid>> /\ Advance(r, "create")
      \/ UNCHANGED nodes /\ Decide(r, "skipped")
      \/ nodes' = nodes \union {New(r, p)} /\ Decide(r, "made")
  BY DEF Create, graph, local
<1>c. /\ Advance(r, "create") /\ UNCHANGED <<edges, ext, uuid>>
      /\ \A q \in Runs \ {r} : plan'[q] = plan[q]
  BY <1>b DEF Decide, local, Typing
<1>1. ASSUME NEW how \in {"skipped", "made"}, Decide(r, how)
      PROVE  /\ DOMAIN plan'[r] = DOMAIN plan[r]
             /\ plan'[r][pos[r]] = how
             /\ \A i \in DOMAIN plan[r] : i # pos[r] => plan'[r][i] = plan[r][i]
  BY <1>1, <1>a DEF Decide, Typing
<1>2. nodes \subseteq nodes'
  BY <1>b
<1>3. \/ plan'[r] = plan[r]
      \/ /\ DOMAIN plan'[r] = DOMAIN plan[r]
         /\ \A i \in DOMAIN plan[r] : i # pos[r] => plan'[r][i] = plan[r][i]
         /\ plan'[r][pos[r]] = "made" => New(r, p) \in nodes'
         /\ plan'[r][pos[r]] # "found"
  BY <1>b, <1>1
<1>4. ASSUME NEW i \in DOMAIN plan'[r], plan'[r][i] \in {"found", "made"}
      PROVE  \E n \in nodes' : n.id = uuid[r][i]
  <2>1. CASE i \in DOMAIN plan[r] /\ plan'[r][i] = plan[r][i]
    BY <2>1, <1>4, <1>2, <1>a DEF PlacedThere, There
  <2>2. CASE i = pos[r] /\ New(r, p) \in nodes'
    BY <2>2 DEF New
  <2> QED
    BY <2>1, <2>2, <1>3, <1>4
<1>5. PlacedThere(r)'
  BY <1>4, <1>c DEF PlacedThere, There
<1>6. Written(r)'
  BY <1>a, <1>c, <1>5, LateWritten
<1>7. Grows
  BY <1>b, <1>c DEF Grows
<1>8. \A q \in Runs \ {r} : Kept(q)
  BY <1>c DEF Kept, Advance, Goto, Typing
<1> QED
  BY <1>6, <1>7, <1>8

LEMMA LinkWritten ==
    ASSUME WrittenInv, NEW r \in Runs, Link(r)
    PROVE  Written(r)' /\ Grows /\ \A q \in Runs \ {r} : Kept(q)
<1> USE DEF WrittenInv
<1> DEFINE links == Links[ext[r]]
<1>a. /\ pc[r] = "link" /\ Advance(r, "link") /\ UNCHANGED <<nodes, plan, ext, uuid>>
      /\ IF Linked(r, links[pos[r]]) THEN Write(LinkEdge(r, links[pos[r]]))
         ELSE UNCHANGED edges
  BY DEF Link, local
<1>b. /\ uuid[r] \in Seq(Ids) /\ plan[r] \in Seq(Plan) /\ Len(plan[r]) = Len(uuid[r])
      /\ ext[r] \in Extractions /\ pos[r] \in Nat \ {0} /\ Written(r)
  BY DEF Inv, Typing, Places
<1>c. links \in Seq([type : STRING, src : Nat, dst : Nat]) /\ Cited[ext[r]] \in Seq(Nat)
  BY <1>b, MaterializeAssumption
<1>d. \/ pc'[r] = "link" /\ pos'[r] = pos[r] + 1
      \/ pc'[r] \in {"cite", "answer"} /\ pos'[r] = 1 /\ ~(pos[r] < Len(links))
           /\ (pc'[r] = "answer" => Cited[ext[r]] = <<>>)
  BY <1>a DEF Advance, Goto, After, Work, Inv, Typing
<1>1. Grows
  BY <1>a, WriteGrows DEF Grows
<1>2. /\ \A i : Placed(r, i)' = Placed(r, i)
      /\ \A l : LinkEdge(r, l)' = LinkEdge(r, l)
  BY <1>a DEF Placed, LinkEdge
<1>3. PlacedThere(r)'
  BY <1>a, <1>b DEF Written, PlacedThere, There
<1>4. ASSUME NEW i \in DOMAIN links, i <= pos[r],
             Placed(r, links[i].src), Placed(r, links[i].dst)
      PROVE  LinkEdge(r, links[i]) \in DOMAIN edges'
  <2>1. CASE i < pos[r]
    BY <2>1, <1>4, <1>a, <1>b, <1>1 DEF Written, LinksWritten, Grows
  <2>2. CASE i = pos[r]
    <3>1. /\ There(uuid[r][links[i].src]) /\ There(uuid[r][links[i].dst])
          /\ Linked(r, links[i])
      BY <1>4, <1>b, PlacedIsThere DEF Written, Linked, Placed
    <3>2. /\ LinkEdge(r, links[i]).src = uuid[r][links[i].src]
          /\ LinkEdge(r, links[i]).dst = uuid[r][links[i].dst]
      BY DEF LinkEdge
    <3> QED
      BY <2>2, <3>1, <3>2, <1>a, WriteGrows
  <2> QED
    BY <1>4, <2>1, <2>2, <1>b, <1>c
<1>5. LinksWritten(r)'
  <2>1. ASSUME NEW i \in DOMAIN links, pc'[r] \in {"cite", "answer"}
                                        \/ (pc'[r] = "link" /\ i < pos'[r])
        PROVE  i <= pos[r]
    <3>1. i \in 1..Len(links) /\ Len(links) \in Nat
      BY <1>c
    <3>2. pos[r] \in Nat
      BY <1>b
    <3> HIDE DEF links
    <3>3. CASE pc'[r] = "link" /\ pos'[r] = pos[r] + 1
      BY <2>1, <3>1, <3>2, <3>3
    <3>4. CASE ~(pos[r] < Len(links))
      BY <3>1, <3>2, <3>4
    <3> QED
      BY <1>d, <3>3, <3>4
  <2>2. ext' = ext /\ uuid' = uuid /\ plan' = plan
    BY <1>a
  <2>3. ASSUME NEW i \in DOMAIN links, i <= pos[r]
        PROVE  (Placed(r, links[i].src) /\ Placed(r, links[i].dst)
                  => LinkEdge(r, links[i]) \in DOMAIN edges)'
    BY <2>2, <2>3, <1>4 DEF Placed, LinkEdge
  <2> QED
    BY <2>1, <2>2, <2>3 DEF LinksWritten, Placed, LinkEdge
<1>6. CitesWritten(r)'
  BY <1>a, <1>c, <1>d DEF CitesWritten
<1>7. \A q \in Runs \ {r} : Kept(q)
  BY <1>a DEF Kept, Advance, Goto, Inv, Typing
<1> QED
  BY <1>1, <1>3, <1>5, <1>6, <1>7 DEF Written

LEMMA CiteWritten ==
    ASSUME WrittenInv, NEW r \in Runs, Cite(r)
    PROVE  Written(r)' /\ Grows /\ \A q \in Runs \ {r} : Kept(q)
<1> USE DEF WrittenInv
<1> DEFINE cited == Cited[ext[r]]
<1>a. /\ pc[r] = "cite" /\ Advance(r, "cite") /\ UNCHANGED <<nodes, plan, ext, uuid>>
      /\ IF DocumentAt(r) # 0 /\ cited[pos[r]] \in DOMAIN uuid[r]
         THEN Write(CiteEdge(r, pos[r])) ELSE UNCHANGED edges
  BY DEF Cite, local
<1>b. /\ uuid[r] \in Seq(Ids) /\ plan[r] \in Seq(Plan) /\ Len(plan[r]) = Len(uuid[r])
      /\ ext[r] \in Extractions /\ pos[r] \in Nat \ {0} /\ Written(r)
  BY DEF Inv, Typing, Places
<1>c. cited \in Seq(Nat)
  BY <1>b, MaterializeAssumption
<1>d. \/ pc'[r] = "cite" /\ pos'[r] = pos[r] + 1
      \/ pc'[r] = "answer" /\ pos'[r] = 1 /\ ~(pos[r] < Len(cited))
  BY <1>a DEF Advance, Goto, After, Work, Inv, Typing
<1>1. Grows
  BY <1>a, WriteGrows DEF Grows
<1>2. /\ \A i : Placed(r, i)' = Placed(r, i)
      /\ \A l : LinkEdge(r, l)' = LinkEdge(r, l)
      /\ DocumentAt(r)' = DocumentAt(r)
      /\ \A i : CiteEdge(r, i)' = CiteEdge(r, i)
  <2>1. /\ \A i : Placed(r, i)' = Placed(r, i)
        /\ \A l : LinkEdge(r, l)' = LinkEdge(r, l)
    BY <1>a DEF Placed, LinkEdge
  <2>2. DocumentAt(r)' = DocumentAt(r)
    BY <1>a DEF DocumentAt
  <2>3. \A i : CiteEdge(r, i)' = CiteEdge(r, i)
    BY <1>a, <2>2 DEF CiteEdge
  <2> QED
    BY <2>1, <2>2, <2>3
<1>3. PlacedThere(r)'
  BY <1>a, <1>b DEF Written, PlacedThere, There
<1>4. ASSUME NEW i \in DOMAIN cited, i <= pos[r],
             Placed(r, cited[i]), Placed(r, DocumentAt(r))
      PROVE  CiteEdge(r, i) \in DOMAIN edges'
  <2>1. CASE i < pos[r]
    BY <2>1, <1>4, <1>a, <1>b, <1>1 DEF Written, CitesWritten, Grows
  <2>2. CASE i = pos[r]
    <3>1. /\ There(uuid[r][cited[i]]) /\ There(uuid[r][DocumentAt(r)])
          /\ cited[i] \in DOMAIN uuid[r] /\ DocumentAt(r) \in DOMAIN uuid[r]
      BY <1>4, <1>b, PlacedIsThere DEF Written, Placed
    <3>2. DocumentAt(r) # 0
      BY <3>1, <1>b
    <3>3. CiteEdge(r, i).src = uuid[r][cited[i]] /\ CiteEdge(r, i).dst = uuid[r][DocumentAt(r)]
      BY DEF CiteEdge
    <3> QED
      BY <2>2, <3>1, <3>2, <3>3, <1>a, WriteGrows
  <2> QED
    BY <1>4, <2>1, <2>2, <1>b, <1>c
<1>5. LinksWritten(r)'
  BY <1>a, <1>b, <1>d, <1>1, <1>2 DEF LinksWritten, Written, Grows
<1>6. CitesWritten(r)'
  <2>1. ASSUME NEW i \in DOMAIN cited, pc'[r] = "answer"
                                        \/ (pc'[r] = "cite" /\ i < pos'[r])
        PROVE  i <= pos[r]
    BY <2>1, <1>b, <1>c, <1>d
  <2> QED
    BY <2>1, <1>a, <1>2, <1>4 DEF CitesWritten
<1>7. \A q \in Runs \ {r} : Kept(q)
  BY <1>a DEF Kept, Advance, Goto, Inv, Typing
<1> QED
  BY <1>1, <1>3, <1>5, <1>6, <1>7 DEF Written

LEMMA EndWritten ==
    ASSUME WrittenInv, NEW r \in Runs, End(r), UNCHANGED graph
    PROVE  Written(r)' /\ Grows /\ \A q \in Runs \ {r} : Kept(q)
<1> USE DEF WrittenInv
<1>a. /\ pc' = [pc EXCEPT ![r] = "idle"] /\ ext' = [ext EXCEPT ![r] = None]
      /\ pos' = [pos EXCEPT ![r] = 1] /\ uuid' = [uuid EXCEPT ![r] = <<>>]
      /\ plan' = [plan EXCEPT ![r] = <<>>] /\ UNCHANGED <<nodes, edges>>
  BY DEF End, Goto, graph
<1>1. pc'[r] = "idle" /\ plan'[r] = <<>>
  BY <1>a DEF Inv, Typing
<1>2. PlacedThere(r)'
  BY <1>1 DEF PlacedThere
<1>3. Written(r)'
  BY <1>1, <1>2, EarlyWritten
<1>4. Grows /\ \A q \in Runs \ {r} : Kept(q)
  BY <1>a DEF Grows, Kept, Inv, Typing
<1> QED
  BY <1>3, <1>4

\* A step that only moves an approval on, before it has written anything.
LEMMA MoveWritten ==
    ASSUME WrittenInv, NEW r \in Runs, NEW p \in {"hash", "name"}, Goto(r, p),
           UNCHANGED <<graph, pos, uuid, plan>>,
           \A q \in Runs \ {r} : ext'[q] = ext[q]
    PROVE  Written(r)' /\ Grows /\ \A q \in Runs \ {r} : Kept(q)
<1> USE DEF WrittenInv
<1>a. pc' = [pc EXCEPT ![r] = p] /\ UNCHANGED <<nodes, edges, pos, uuid, plan>>
  BY DEF Goto, graph
<1>1. pc'[r] = p
  BY <1>a DEF Inv, Typing
<1>2. PlacedThere(r)'
  BY <1>a DEF Written, PlacedThere, There
<1>3. Written(r)'
  BY <1>1, <1>2, EarlyWritten
<1>4. Grows /\ \A q \in Runs \ {r} : Kept(q)
  BY <1>a DEF Grows, Kept, Inv, Typing
<1> QED
  BY <1>3, <1>4

\* Whatever an approval does, it keeps its own word and the others'.
LEMMA StepWritten ==
    ASSUME WrittenInv, NEW r \in Runs, Step(r)
    PROVE  Written(r)' /\ Grows /\ \A q \in Runs \ {r} : Kept(q)
<1> DEFINE Goal == Written(r)' /\ Grows /\ \A q \in Runs \ {r} : Kept(q)
<1>1. ASSUME NEW e \in Extractions, Approve(r, e) PROVE Goal
  <2>1. /\ Goto(r, "hash") /\ UNCHANGED <<graph, pos, uuid, plan>>
        /\ \A q \in Runs \ {r} : ext'[q] = ext[q]
    BY <1>1 DEF Approve, WrittenInv, Inv, Typing
  <2> QED
    BY <2>1, MoveWritten
<1>2. ASSUME NEW n \in nodes, pc[r] \in {"hash", "name"}, Adopt(r, n) PROVE Goal
  <2>1. n.id \in Ids /\ "found" \in Plan /\ There(n.id)
    BY DEF WrittenInv, Inv, Typing, Node, Plan, There
  <2> QED
    BY <1>2, <2>1, ResolveWritten DEF Adopt
<1>3. CASE FindHash(r)
  <2>1. CASE \E n \in WithHash(Props(r)[pos[r]]) : Adopt(r, n)
    BY <1>3, <2>1, <1>2 DEF FindHash, WithHash
  <2>2. CASE Goto(r, "name") /\ UNCHANGED <<graph, pos, plan, local>>
    <3>1. /\ UNCHANGED <<graph, pos, uuid, plan>>
          /\ \A q \in Runs \ {r} : ext'[q] = ext[q]
      BY <2>2 DEF local
    <3> QED
      BY <2>2, <3>1, MoveWritten
  <2> QED
    BY <1>3, <2>1, <2>2 DEF FindHash
<1>4. CASE FindName(r)
  <2> DEFINE k == Props(r)[pos[r]].key
  <2>1. pc[r] \in {"hash", "name"}
    BY <1>4 DEF FindName
  <2>2. CASE \E n \in Existing(k) : Adopt(r, n)
    BY <2>1, <2>2, <1>2 DEF Existing
  <2>3. ASSUME NEW i \in Earlier(r), Resolve(r, uuid[r][i], "dup") PROVE Goal
    <3>1. uuid[r][i] \in Ids /\ "dup" \in Plan
      BY <2>1 DEF Earlier, WrittenInv, Inv, Typing, Places, Plan
    <3> QED
      BY <2>1, <2>3, <3>1, ResolveWritten
  <2>4. CASE Existing(k) = {} /\ Resolve(r, NodeId(k), "new")
    <3>1. k \in Keys
      BY <2>1, ProposedTypes DEF WrittenInv, Inv, Typing, Places, Props
    <3>2. NodeId(k) \in Ids /\ "new" \in Plan
      BY <3>1 DEF NodeId, Ids, Plan
    <3> QED
      BY <2>1, <2>4, <3>2, ResolveWritten
  <2> QED
    BY <1>4, <2>2, <2>3, <2>4 DEF FindName
<1>5. CASE Create(r)
  <2>1. CASE ~(End(r) /\ UNCHANGED graph)
    BY <1>5, <2>1, CreateWritten
  <2>2. CASE End(r) /\ UNCHANGED graph
    BY <2>2, EndWritten
  <2> QED
    BY <2>1, <2>2
<1>6. CASE Link(r)
  BY <1>6, LinkWritten
<1>7. CASE Cite(r)
  BY <1>7, CiteWritten
<1>8. CASE Answer(r) \/ Fails(r)
  BY <1>8, EndWritten DEF Answer, Fails
<1> QED
  BY <1>1, <1>3, <1>4, <1>5, <1>6, <1>7, <1>8 DEF Step

LEMMA WrittenStep == WrittenInv /\ [Next]_vars => WrittenInv'
<1> SUFFICES ASSUME WrittenInv, [Next]_vars PROVE WrittenInv'
  OBVIOUS
<1>1. Inv'
  BY StepInv DEF WrittenInv
<1>2. ASSUME NEW r \in Runs, Step(r), NEW q \in Runs PROVE Written(q)'
  <2>1. Written(r)' /\ Grows /\ \A s \in Runs \ {r} : Kept(s)
    BY <1>2, StepWritten
  <2>2. CASE q = r
    BY <2>1, <2>2
  <2>3. CASE q # r
    BY <2>1, <2>3, OthersKeep DEF WrittenInv
  <2> QED
    BY <2>2, <2>3
<1>3. ASSUME Grows, UNCHANGED <<pc, ext, pos, uuid, plan>>, NEW q \in Runs PROVE Written(q)'
  BY <1>3, OthersKeep DEF WrittenInv, Kept
<1>4. ASSUME NEW n \in nodes, Bump(n) PROVE Grows /\ UNCHANGED <<pc, ext, pos, uuid, plan>>
  <2> DEFINE old == [n EXCEPT !.live = FALSE]
  <2>1. nodes' = (nodes \ {n}) \union {old} /\ UNCHANGED <<edges, pc, ext, pos, uuid, plan>>
    BY <1>4 DEF Bump
  <2>2. old.id = n.id
    BY DEF WrittenInv, Inv, Typing, Node
  <2> HIDE DEF old
  <2> QED
    BY <2>1, <2>2 DEF Grows
<1>5. CASE UNCHANGED vars
  BY <1>1, <1>3, <1>5 DEF WrittenInv, vars, Grows
<1> QED
  BY <1>1, <1>2, <1>3, <1>4, <1>5 DEF WrittenInv, Next

LEMMA WrittenInit == Init => WrittenInv
<1> SUFFICES ASSUME Init, NEW r \in Runs PROVE Written(r)
  BY InitInv DEF WrittenInv
<1>1. pc[r] = "idle" /\ plan[r] = <<>>
  BY DEF Init
<1> QED
  BY <1>1 DEF Written, PlacedThere, LinksWritten, CitesWritten

\* When an approval answers, the nodes it found or made are in the graph, and so are the
\* relationships and citations between them, whatever others did meanwhile.
THEOREM AnswersAreTrue == Spec => []AnswerIsInGraph
<1>1. WrittenInv => AnswerIsInGraph
  <2> SUFFICES ASSUME WrittenInv, NEW r \in Runs, pc[r] = "answer"
               PROVE  /\ \A i \in DOMAIN uuid[r] : Placed(r, i) => There(uuid[r][i])
                      /\ \A i \in DOMAIN Links[ext[r]] :
                           Placed(r, Links[ext[r]][i].src) /\ Placed(r, Links[ext[r]][i].dst)
                             => LinkEdge(r, Links[ext[r]][i]) \in DOMAIN edges
                      /\ \A i \in DOMAIN Cited[ext[r]] :
                           Placed(r, Cited[ext[r]][i]) /\ Placed(r, DocumentAt(r))
                             => CiteEdge(r, i) \in DOMAIN edges
    BY DEF AnswerIsInGraph
  <2>1. /\ Written(r) /\ uuid[r] \in Seq(Ids) /\ plan[r] \in Seq(Plan)
        /\ Len(plan[r]) = Len(uuid[r])
    BY DEF WrittenInv, Inv, Typing, Places
  <2>2. \A i \in DOMAIN uuid[r] : Placed(r, i) => There(uuid[r][i])
    BY <2>1, PlacedIsThere DEF Written
  <2> QED
    BY <2>1, <2>2 DEF Written, LinksWritten, CitesWritten
<1> QED
  BY WrittenInit, <1>1, WrittenStep, PTL DEF Spec

-----------------------------------------------------------------------------
(***************************************************************************)
(* Types of the rest: relationships and the history of approvals.          *)
(***************************************************************************)
EdgesTyped ==
    /\ DOMAIN edges \subseteq Edge
    /\ \A x \in DOMAIN edges : edges[x] \in Nat
    /\ edges = [x \in DOMAIN edges |-> edges[x]]

HistoryTyped ==
    /\ history \in [Extractions -> History]
    /\ again \in [Runs -> History]
    /\ quiet \in [Runs -> BOOLEAN]

\* every proposal is resolved before the first is created, and what is written next is
\* in the list
InList(r) ==
    /\ pc[r] \in {"create", "link", "cite", "answer"} => Len(plan[r]) = Len(Props(r))
    /\ pc[r] = "link" => pos[r] <= Len(Links[ext[r]])
    /\ pc[r] = "cite" => pos[r] <= Len(Cited[ext[r]])

TypeInv == WrittenInv /\ EdgesTyped /\ HistoryTyped /\ \A r \in Runs : InList(r)

LEMMA TypeInvImplies == TypeInv => TypeOK
<1> SUFFICES ASSUME TypeInv PROVE TypeOK
  OBVIOUS
<1>1. pos \in [Runs -> Nat] /\ \A r \in Runs : uuid[r] \in Seq(Ids) /\ plan[r] \in Seq(Plan)
  BY DEF TypeInv, WrittenInv, Inv, Typing
<1> QED
  BY <1>1 DEF TypeInv, WrittenInv, Inv, Typing, Places, EdgesTyped, HistoryTyped, TypeOK

LEMMA WriteTyped ==
    ASSUME EdgesTyped, NEW x, There(x.src) /\ There(x.dst) => x \in Edge, Write(x)
    PROVE  EdgesTyped'
<1>1. CASE There(x.src) /\ There(x.dst)
  <2>1. edges' = [y \in DOMAIN edges \union {x} |-> IF y \in DOMAIN edges THEN edges[y] ELSE 1]
    BY <1>1 DEF Write, MergeEdge
  <2> QED
    BY <1>1, <2>1 DEF EdgesTyped
<1>2. CASE ~(There(x.src) /\ There(x.dst))
  BY <1>2 DEF Write, EdgesTyped
<1> QED
  BY <1>1, <1>2

LEMMA ListTypes ==
    ASSUME NEW e \in Extractions
    PROVE  /\ Links[e] \in Seq([type : STRING, src : Nat, dst : Nat])
           /\ Len(Links[e]) \in Nat /\ (Links[e] # <<>> => 1 <= Len(Links[e]))
           /\ Cited[e] \in Seq(Nat)
           /\ Len(Cited[e]) \in Nat /\ (Cited[e] # <<>> => 1 <= Len(Cited[e]))
           /\ \A i \in 1..Len(Links[e]) : Links[e][i] \in [type : STRING, src : Nat, dst : Nat]
           /\ \A i \in 1..Len(Cited[e]) : Cited[e][i] \in Nat
<1>1. Links[e] \in Seq([type : STRING, src : Nat, dst : Nat]) /\ Cited[e] \in Seq(Nat)
  BY MaterializeAssumption
<1>2. \A T, s : s \in Seq(T) =>
        /\ Len(s) \in Nat /\ (s # <<>> => 1 <= Len(s))
        /\ \A i \in 1..Len(s) : s[i] \in T
  OBVIOUS
<1> QED
  BY <1>1, <1>2

LEMMA EdgeTyped ==
    ASSUME NEW t \in EdgeType, NEW a \in Ids, NEW b \in Ids, NEW n \in Nat
    PROVE  [type |-> t, src |-> a, dst |-> b, span |-> n] \in Edge
  BY DEF Edge

LEMMA LinkTyped ==
    ASSUME TypeInv, NEW r \in Runs, Link(r)
    PROVE  EdgesTyped'
<1> DEFINE l == Links[ext[r]][pos[r]]
<1>1. ext[r] \in Extractions /\ pos[r] \in 1..Len(Links[ext[r]]) /\ uuid[r] \in Seq(Ids)
  BY ListTypes DEF TypeInv, WrittenInv, Inv, Typing, Link, InList
<1>2. l \in [type : STRING, src : Nat, dst : Nat]
  BY <1>1, ListTypes
<1>3. IF Linked(r, l) THEN Write(LinkEdge(r, l)) ELSE UNCHANGED edges
  BY DEF Link
<1> HIDE DEF l
<1>4. CASE Linked(r, l)
  <2>1. l.src \in DOMAIN uuid[r] /\ l.dst \in DOMAIN uuid[r]
    BY <1>4 DEF Linked
  <2>2. uuid[r][l.src] \in Ids /\ uuid[r][l.dst] \in Ids
    BY <1>1, <2>1
  <2>3. l.type \in EdgeType /\ 0 \in Nat
    BY <1>1 DEF l, EdgeType
  <2>4. LinkEdge(r, l) \in Edge
    BY <2>2, <2>3, EdgeTyped DEF LinkEdge
  <2> QED
    BY <1>3, <1>4, <2>4, WriteTyped DEF TypeInv
<1>5. CASE ~Linked(r, l)
  BY <1>3, <1>5 DEF TypeInv, EdgesTyped
<1> QED
  BY <1>4, <1>5

LEMMA LeastOf ==
    ASSUME NEW S, S \subseteq Nat, S # {}
    PROVE  \E i \in S : \A j \in S : i <= j
<1>1. PICK i \in S : \A j \in S : <<j, i>> \notin OpToRel(<, Nat)
  BY NatLessThanWellFounded, WFMin
<1>2. \A j \in S : ~(j < i)
  BY <1>1 DEF OpToRel
<1> QED
  BY <1>2

\* DocumentOf gives a place in the extraction, or 0.
LEMMA DocumentPlace ==
    ASSUME NEW e \in Extractions
    PROVE  DocumentOf(e) \in DOMAIN Proposed[e] \union {0}
<1>1. DOMAIN Proposed[e] \subseteq Nat
  BY MaterializeAssumption
<1>2. \A S : S \subseteq DOMAIN Proposed[e] /\ S # {} =>
        (CHOOSE i \in S : \A j \in S : i <= j) \in S
  BY <1>1, LeastOf
<1> QED
  BY <1>2 DEF DocumentOf

LEMMA CiteTyped ==
    ASSUME TypeInv, NEW r \in Runs, Cite(r)
    PROVE  EdgesTyped'
<1> DEFINE x == CiteEdge(r, pos[r])
           d == DocumentAt(r)
           c == Cited[ext[r]][pos[r]]
<1>1. /\ ext[r] \in Extractions /\ pos[r] \in Nat
      /\ uuid[r] \in Seq(Ids)
  BY DEF TypeInv, WrittenInv, Inv, Typing
<1>2. IF d # 0 /\ c \in DOMAIN uuid[r] THEN Write(x) ELSE UNCHANGED edges
  BY DEF Cite
<1>3. x = [type |-> "CITES", src |-> uuid[r][c], dst |-> uuid[r][d], span |-> pos[r]]
  BY DEF CiteEdge
<1> HIDE DEF x, d, c
<1>4. CASE d # 0 /\ c \in DOMAIN uuid[r]
  <2>1. uuid[r][c] \in Ids
    BY <1>1, <1>4
  <2>2. uuid[r][d] \in Ids
    <3>1. Len(uuid[r]) = Len(Proposed[ext[r]]) /\ Proposed[ext[r]] \in Seq(Proposal)
      BY <1>1, MaterializeAssumption DEF TypeInv, WrittenInv, Inv, Places, InList, Cite, Props
    <3>2. d \in DOMAIN Proposed[ext[r]]
      BY <1>1, <1>4, DocumentPlace DEF d, DocumentAt
    <3> QED
      BY <1>1, <3>1, <3>2
  <2>3. x \in Edge
    <3>1. "CITES" \in EdgeType
      BY DEF EdgeType
    <3>2. [type |-> "CITES", src |-> uuid[r][c], dst |-> uuid[r][d], span |-> pos[r]] \in Edge
      BY <1>1, <2>1, <2>2, <3>1, EdgeTyped
    <3> QED
      BY <1>3, <3>2, Zenon
  <2> QED
    BY <1>2, <1>4, <2>3, WriteTyped DEF TypeInv
<1>5. CASE ~(d # 0 /\ c \in DOMAIN uuid[r])
  BY <1>2, <1>5 DEF TypeInv, EdgesTyped
<1> QED
  BY <1>4, <1>5

LEMMA AdvanceList ==
    ASSUME TypeInv, NEW r \in Runs, NEW p \in {"create", "link", "cite"}, pc[r] = p,
           Advance(r, p), UNCHANGED ext, Len(plan'[r]) = Len(plan[r])
    PROVE  InList(r)'
<1>1. /\ ext[r] \in Extractions /\ pos[r] \in Nat \ {0} /\ pc \in [Runs -> PC]
      /\ pos \in [Runs -> Nat \ {0}] /\ Len(plan'[r]) = Len(Props(r))
  BY DEF TypeInv, WrittenInv, Inv, Typing, InList
<1>2. Props(r)' = Props(r)
  BY DEF Props
<1>3. \/ pos'[r] = pos[r] + 1 /\ pc'[r] = p /\ pos[r] < Len(Work(r))
      \/ pos'[r] = 1 /\ pc'[r] = After(r)
  BY <1>1 DEF Advance, Goto
<1>4. CASE pos'[r] = pos[r] + 1 /\ pc'[r] = p /\ pos[r] < Len(Work(r))
  <2>1. (p = "link" => Work(r) = Links[ext[r]]) /\ (p = "cite" => Work(r) = Cited[ext[r]])
    BY DEF Work
  <2> QED
    BY <1>1, <1>2, <1>4, <2>1, ListTypes DEF InList
<1>5. CASE pos'[r] = 1 /\ pc'[r] = After(r)
  <2>1. After(r) \in {"link", "cite", "answer"}
    BY DEF After
  <2>2. /\ After(r) = "link" => Links[ext[r]] # <<>>
        /\ After(r) = "cite" => Cited[ext[r]] # <<>>
    BY DEF After
  <2> QED
    BY <1>1, <1>2, <1>5, <2>1, <2>2, ListTypes DEF InList
<1> QED
  BY <1>3, <1>4, <1>5

\* A request that resolves, or has ended, is where Places says it is.
LEMMA EarlyList ==
    ASSUME Inv', NEW r \in Runs, pc'[r] \in {"idle", "hash", "name", "create"}
    PROVE  InList(r)'
  BY DEF Inv, Places, InList

LEMMA EndEarly ==
    ASSUME TypeInv, NEW r \in Runs, End(r)
    PROVE  pc'[r] = "idle"
  BY DEF TypeInv, WrittenInv, Inv, Typing, End, Goto

LEMMA ResolveEarly ==
    ASSUME TypeInv, NEW r \in Runs, pc[r] \in {"hash", "name"}, Advance(r, "hash")
    PROVE  pc'[r] \in {"hash", "create"}
  BY DEF TypeInv, WrittenInv, Inv, Typing, Advance, After, Goto

LEMMA DecideLength ==
    ASSUME TypeInv, NEW r \in Runs, NEW how, Decide(r, how)
    PROVE  /\ Advance(r, "create") /\ UNCHANGED <<edges, ext, uuid, history, again, quiet>>
           /\ Len(plan'[r]) = Len(plan[r])
<1>1. plan[r] \in Seq(Plan) /\ plan \in [Runs -> Seq(Plan)]
  BY DEF TypeInv, WrittenInv, Inv, Typing
<1>2. plan'[r] = [plan[r] EXCEPT ![pos[r]] = how]
  BY <1>1 DEF Decide
<1>3. Len(plan'[r]) = Len(plan[r])
  BY <1>1, <1>2
<1> QED
  BY <1>3 DEF Decide, local

LEMMA ListStep ==
    ASSUME TypeInv, Inv', NEW r \in Runs, Step(r)
    PROVE  InList(r)'
<1> USE DEF local, graph
<1>1. pc \in [Runs -> PC]
  BY DEF TypeInv, WrittenInv, Inv, Typing
<1>2. ASSUME NEW e \in Extractions, Approve(r, e) PROVE InList(r)'
  BY <1>1, <1>2, EarlyList DEF Approve, Goto
<1>3. ASSUME FindHash(r) \/ FindName(r) PROVE InList(r)'
  <2>1. CASE Goto(r, "name")
    BY <1>1, <2>1, EarlyList DEF Goto
  <2>2. CASE pc[r] \in {"hash", "name"} /\ Advance(r, "hash")
    BY <2>2, ResolveEarly, EarlyList
  <2> QED
    BY <1>3, <2>1, <2>2 DEF FindHash, FindName, Adopt, Resolve
<1>4. ASSUME Create(r) PROVE InList(r)'
  <2>0. pc[r] = "create"
    BY <1>4 DEF Create
  <2>1. CASE Advance(r, "create") /\ UNCHANGED <<plan, local>>
    BY <2>0, <2>1, AdvanceList
  <2>2. ASSUME NEW how, Decide(r, how) PROVE InList(r)'
    BY <2>0, <2>2, DecideLength, AdvanceList
  <2>3. CASE End(r)
    BY <2>3, EndEarly, EarlyList
  <2> QED
    BY <1>4, <2>1, <2>2, <2>3 DEF Create
<1>5. ASSUME Link(r) PROVE InList(r)'
  BY <1>5, AdvanceList DEF Link
<1>6. ASSUME Cite(r) PROVE InList(r)'
  BY <1>6, AdvanceList DEF Cite
<1>7. ASSUME Answer(r) \/ Fails(r) PROVE InList(r)'
  BY <1>7, EndEarly, EarlyList DEF Answer, Fails
<1> QED
  BY <1>2, <1>3, <1>4, <1>5, <1>6, <1>7 DEF Step

LEMMA EdgesStep ==
    ASSUME TypeInv, NEW r \in Runs, Step(r)
    PROVE  EdgesTyped'
<1>1. CASE UNCHANGED edges
  BY <1>1 DEF TypeInv, EdgesTyped
<1>2. CASE Link(r)
  BY <1>2, LinkTyped
<1>3. CASE Cite(r)
  BY <1>3, CiteTyped
<1>4. CASE ~Link(r) /\ ~Cite(r)
  BY <1>1, <1>4 DEF Step, Approve, FindHash, FindName, Adopt, Resolve, Create, Decide, Answer,
                    Fails, graph
<1> QED
  BY <1>2, <1>3, <1>4

LEMMA HistoryStep ==
    ASSUME TypeInv, NEW r \in Runs, Step(r)
    PROVE  HistoryTyped'
<1> USE DEF TypeInv, HistoryTyped, local, graph
<1>0. {"first", "approved", "bumped"} = History
  BY DEF History
<1>1. CASE UNCHANGED <<history, again, quiet>>
  BY <1>1
<1>2. ASSUME End(r) PROVE again' \in [Runs -> History] /\ quiet' \in [Runs -> BOOLEAN]
  BY <1>0, <1>2 DEF End
<1>3. ASSUME NEW e \in Extractions, Approve(r, e) PROVE HistoryTyped'
  BY <1>3 DEF Approve
<1>4. CASE End(r) /\ UNCHANGED history
  BY <1>2, <1>4
<1>5. CASE Answer(r)
  <2>1. history' = [history EXCEPT ![ext[r]] = IF quiet[r] THEN "approved" ELSE "bumped"]
    BY <1>5 DEF Answer
  <2>2. history' \in [Extractions -> History]
    BY <1>0, <2>1
  <2> QED
    BY <1>2, <1>5, <2>2 DEF Answer
<1>6. CASE Create(r)
  BY <1>1, <1>4, <1>6 DEF Create, Decide
<1>7. CASE FindHash(r) \/ FindName(r) \/ Link(r) \/ Cite(r)
  BY <1>1, <1>7 DEF FindHash, FindName, Adopt, Resolve, Link, Cite
<1>8. CASE Fails(r)
  BY <1>4, <1>8 DEF Fails
<1> QED
  BY <1>3, <1>5, <1>6, <1>7, <1>8 DEF Step

LEMMA TypeStep == TypeInv /\ [Next]_vars => TypeInv'
<1> SUFFICES ASSUME TypeInv, [Next]_vars PROVE TypeInv'
  OBVIOUS
<1>1. WrittenInv' /\ Inv'
  BY WrittenStep DEF TypeInv, WrittenInv
<1>2. ASSUME NEW r \in Runs, Kept(r) PROVE InList(r)'
  BY <1>2 DEF Kept, TypeInv, InList, Props
<1>3. ASSUME NEW r \in Runs, Step(r) PROVE TypeInv'
  <2>1. \A q \in Runs : InList(q)'
    BY <1>1, <1>2, <1>3, StepWritten, ListStep DEF TypeInv
  <2> QED
    BY <1>1, <1>3, <2>1, EdgesStep, HistoryStep DEF TypeInv
<1>4. ASSUME NEW n \in nodes, Bump(n) PROVE TypeInv'
  <2>1. UNCHANGED <<edges, pc, ext, pos, uuid, plan, again>>
    BY <1>4 DEF Bump
  <2>2. EdgesTyped'
    BY <2>1 DEF TypeInv, EdgesTyped
  <2>3. HistoryTyped'
    <3>1. /\ history' = [e \in Extractions |-> IF history[e] = "first" THEN "first" ELSE "bumped"]
          /\ quiet' = [r \in Runs |-> pc[r] = "idle"]
      BY <1>4 DEF Bump
    <3> QED
      BY <2>1, <3>1 DEF TypeInv, HistoryTyped, History
  <2>4. \A r \in Runs : InList(r)'
    BY <1>2, <2>1 DEF Kept
  <2> QED
    BY <1>1, <2>2, <2>3, <2>4 DEF TypeInv
<1>5. CASE UNCHANGED vars
  BY <1>1, <1>5 DEF TypeInv, EdgesTyped, HistoryTyped, InList, Props, vars
<1> QED
  BY <1>3, <1>4, <1>5 DEF Next

LEMMA TypeInit == Init => TypeInv
<1> SUFFICES ASSUME Init PROVE TypeInv
  OBVIOUS
<1>1. WrittenInv
  BY WrittenInit
<1>2. EdgesTyped
  BY DEF Init, EdgesTyped
<1>3. HistoryTyped
  BY DEF Init, HistoryTyped, History
<1>4. \A r \in Runs : InList(r)
  BY DEF Init, InList
<1> QED
  BY <1>1, <1>2, <1>3, <1>4 DEF TypeInv

\* What approvals keep and write has its type: in particular every id is one of a node,
\* every relationship is between ids, and each phase works on its own list.
THEOREM TypeCorrect == Spec => []TypeOK
  BY TypeInit, TypeStep, TypeInvImplies, PTL DEF Spec

-----------------------------------------------------------------------------
-----------------------------------------------------------------------------
(***************************************************************************)
(* What a reference points at.  A node refers to an id of the first phase:  *)
(* that of a node that was found, which never goes away, or the one made    *)
(* from a name of which nothing was active.  Then nothing else of that name *)
(* ever becomes active (OnlyNamed), so whoever puts such a node there, this *)
(* approval or another, gives it that id.                                   *)
(***************************************************************************)
OnlyNamed(k) == \A n \in nodes : n.key = k /\ n.live => n.id = NodeId(k)

DocumentsLive == \A n \in nodes : n.key \in Documents => n.live

RefsNamed ==
    \A n \in nodes : n.by \in Extractions /\ n.ref # <<>> =>
      \/ There(n.ref)
      \/ \E i \in DOMAIN Proposed[n.by] :
           n.ref = NodeId(Proposed[n.by][i].key) /\ OnlyNamed(Proposed[n.by][i].key)

\* the node of a proposal; not superseded, if nothing was since the approval began
Active(r, i) == \E n \in nodes : /\ n.id = uuid[r][i] /\ n.key = Props(r)[i].key
                                 /\ quiet[r] => n.live
Hashed(r, i) == \E n \in WithHash(Props(r)[i]) : n.id = uuid[r][i]

Resolved(r) ==
    \A i \in DOMAIN plan[r] :
      /\ plan[r][i] = "found" => Active(r, i) \/ Hashed(r, i)
      /\ plan[r][i] = "made" => Active(r, i)
      /\ plan[r][i] # "found" => /\ uuid[r][i] = NodeId(Props(r)[i].key)
                                 /\ OnlyNamed(Props(r)[i].key)

\* what becomes of a plan
Planned(r) ==
    \A i \in DOMAIN plan[r] :
      /\ plan[r][i] = "new" => pc[r] \in {"hash", "name"} \/ (pc[r] = "create" /\ i >= pos[r])
      /\ plan[r][i] = "skipped" => ~Convertible(ext[r], i)
      /\ plan[r][i] = "dup" => \E j \in 1..(i - 1) :
           /\ plan[r][j] \in {"new", "made", "skipped"}
           /\ Props(r)[j].key = Props(r)[i].key /\ uuid[r][j] = uuid[r][i]

RunInv(r) == Resolved(r) /\ Planned(r)
RetryInv == TypeInv /\ DocumentsLive /\ RefsNamed /\ \A r \in Runs : RunInv(r)

-----------------------------------------------------------------------------
LEMMA RunShape ==
    ASSUME TypeInv, NEW r \in Runs
    PROVE  /\ ext[r] \in Extractions /\ Props(r) = Proposed[ext[r]]
           /\ Props(r) \in Seq(Proposal) /\ uuid[r] \in Seq(Ids) /\ plan[r] \in Seq(Plan)
           /\ pos[r] \in Nat \ {0} /\ Len(plan[r]) = Len(uuid[r])
           /\ DOMAIN plan[r] = DOMAIN uuid[r]
           /\ pc[r] \in {"create", "link", "cite", "answer"} => DOMAIN plan[r] = DOMAIN Props(r)
<1>1. /\ ext[r] \in Extractions /\ Props(r) = Proposed[ext[r]]
      /\ Props(r) \in Seq(Proposal) /\ uuid[r] \in Seq(Ids) /\ plan[r] \in Seq(Plan)
      /\ pos[r] \in Nat \ {0} /\ Len(plan[r]) = Len(uuid[r])
      /\ pc[r] \in {"create", "link", "cite", "answer"} => Len(plan[r]) = Len(Props(r))
  BY ProposedTypes DEF TypeInv, WrittenInv, Inv, Typing, Places, InList, Props
<1> QED
  BY <1>1

\* The only step of an approval that changes the nodes.
LEMMA NodesChange ==
    ASSUME NEW r \in Runs, Step(r)
    PROVE  \/ UNCHANGED nodes
           \/ /\ pc[r] = "create" /\ plan[r][pos[r]] = "new" /\ Decide(r, "made")
              /\ Unique(uuid[r][pos[r]], Props(r)[pos[r]])
              /\ nodes' = nodes \union {New(r, Props(r)[pos[r]])}
  BY DEF Step, Approve, FindHash, FindName, Adopt, Resolve, Create, Decide, Link, Cite, Answer,
         Fails, graph

\* What is created has the id made from its name.
LEMMA NodesStay ==
    ASSUME TypeInv, NEW r \in Runs, Step(r)
    PROVE  nodes \subseteq nodes' /\ \A k : OnlyNamed(k) => OnlyNamed(k)'
<1>1. CASE UNCHANGED nodes
  BY <1>1 DEF OnlyNamed
<1>2. CASE nodes' # nodes
  <2> DEFINE n == New(r, Props(r)[pos[r]])
  <2>1. /\ pc[r] = "create" /\ plan[r][pos[r]] = "new" /\ nodes' = nodes \union {n}
    BY <1>2, NodesChange
  <2>2. pos[r] \in DOMAIN plan[r] /\ Inv
    BY <2>1, RunShape DEF TypeInv, WrittenInv, Inv, Places
  <2>3. n.id = NodeId(n.key)
    BY <2>1, <2>2 DEF New, Inv, NewIsNamed
  <2> HIDE DEF n
  <2> QED
    BY <2>1, <2>3 DEF OnlyNamed
<1> QED
  BY <1>1, <1>2

\* What is superseded stays, and is no longer active.
LEMMA BumpStays ==
    ASSUME TypeInv, NEW n \in nodes, Bump(n)
    PROVE  /\ \A k : OnlyNamed(k) => OnlyNamed(k)'
           /\ \A m \in nodes : \E o \in nodes' :
                o.id = m.id /\ o.key = m.key /\ o.hash = m.hash
           /\ \A o \in nodes' : \E m \in nodes :
                /\ o.id = m.id /\ o.key = m.key /\ o.ref = m.ref /\ o.by = m.by
                /\ o.live = m.live \/ (~o.live /\ o.key \notin Exempt)
<1> DEFINE old == [n EXCEPT !.live = FALSE]
<1>1. nodes' = (nodes \ {n}) \union {old} /\ n.key \notin Exempt
  BY DEF Bump
<1>2. /\ old.id = n.id /\ old.key = n.key /\ old.hash = n.hash /\ old.ref = n.ref
      /\ old.by = n.by /\ ~old.live
  BY DEF TypeInv, WrittenInv, Inv, Typing, Node
<1> HIDE DEF old
<1> QED
  BY <1>1, <1>2 DEF OnlyNamed

LEMMA EmptyRunInv ==
    ASSUME NEW r \in Runs, plan'[r] = <<>>
    PROVE  RunInv(r)'
  BY DEF RunInv, Resolved, Planned

\* A request that has ended has no plan.
LEMMA EndRunInv ==
    ASSUME TypeInv, NEW r \in Runs, End(r)
    PROVE  RunInv(r)'
<1>1. plan'[r] = <<>>
  BY DEF End, TypeInv, WrittenInv, Inv, Typing
<1> QED
  BY <1>1, EmptyRunInv

\* What was found or made stays so while others move.
LEMMA ActiveStays ==
    ASSUME NEW r \in Runs, NEW i, uuid'[r][i] = uuid[r][i], Props(r)'[i] = Props(r)[i],
           \A m \in nodes : \E o \in nodes' : o.id = m.id /\ o.key = m.key /\ o.hash = m.hash,
           quiet'[r] => quiet[r] /\ nodes \subseteq nodes'
    PROVE  (Active(r, i) => Active(r, i)') /\ (Hashed(r, i) => Hashed(r, i)')
<1>1. ASSUME Active(r, i) PROVE Active(r, i)'
  <2>1. PICK n \in nodes : n.id = uuid[r][i] /\ n.key = Props(r)[i].key /\ (quiet[r] => n.live)
    BY <1>1 DEF Active
  <2>2. CASE quiet'[r]
    BY <2>1, <2>2 DEF Active
  <2>3. CASE ~quiet'[r]
    BY <2>1, <2>3 DEF Active
  <2> QED
    BY <2>2, <2>3
<1>2. ASSUME Hashed(r, i) PROVE Hashed(r, i)'
  BY <1>2 DEF Hashed, WithHash
<1> QED
  BY <1>1, <1>2

LEMMA KeptRunInv ==
    ASSUME NEW r \in Runs, RunInv(r), Kept(r), \A k : OnlyNamed(k) => OnlyNamed(k)',
           \A m \in nodes : \E o \in nodes' : o.id = m.id /\ o.key = m.key /\ o.hash = m.hash,
           quiet'[r] => quiet[r] /\ nodes \subseteq nodes'
    PROVE  RunInv(r)'
<1>1. Props(r)' = Props(r)
  BY DEF Kept, Props
<1>2. Planned(r)'
  BY <1>1 DEF Kept, RunInv, Planned
<1>3. Resolved(r)'
  <2>1. \A i : (Active(r, i) => Active(r, i)') /\ (Hashed(r, i) => Hashed(r, i)')
    BY <1>1, ActiveStays DEF Kept
  <2>2. \A i \in DOMAIN plan[r] :
          OnlyNamed(Props(r)[i].key) => OnlyNamed(Props(r)[i].key)'
    <3>1. \A i, k : k = Props(r)[i].key /\ OnlyNamed(k)' => OnlyNamed(Props(r)[i].key)'
      BY <1>1 DEF OnlyNamed
    <3> QED
      BY <3>1
  <2> QED
    BY <1>1, <2>1, <2>2 DEF Kept, RunInv, Resolved
<1> QED
  BY <1>2, <1>3 DEF RunInv

\* A resolution adds one id and one plan at the place reached.
LEMMA ResolveAppends ==
    ASSUME Inv, NEW r \in Runs, NEW id \in Ids, NEW how \in Plan,
           pc[r] \in {"hash", "name"}, Resolve(r, id, how)
    PROVE  /\ Props(r)' = Props(r) /\ ext'[r] = ext[r]
           /\ pos[r] \in DOMAIN Props(r)
           /\ DOMAIN uuid[r] = 1..(pos[r] - 1) /\ DOMAIN plan[r] = 1..(pos[r] - 1)
           /\ DOMAIN uuid'[r] = 1..pos[r] /\ DOMAIN plan'[r] = 1..pos[r]
           /\ plan'[r][pos[r]] = how /\ uuid'[r][pos[r]] = id
           /\ \A i \in 1..(pos[r] - 1) : plan'[r][i] = plan[r][i] /\ uuid'[r][i] = uuid[r][i]
           /\ pc'[r] = "hash" \/ (pc'[r] = "create" /\ pos'[r] = 1)
<1> USE DEF Inv
<1>1. /\ uuid' = [uuid EXCEPT ![r] = Append(@, id)]
      /\ plan' = [plan EXCEPT ![r] = Append(@, how)]
      /\ UNCHANGED ext
  BY DEF Resolve
<1>2. Props(r) = Proposed[ext[r]] /\ ext[r] \in Extractions
  BY DEF Typing, Props
<1>3. /\ Len(Props(r)) \in Nat /\ pos[r] \in Nat \ {0} /\ pos[r] <= Len(Props(r))
      /\ Props(r) \in Seq(Proposal)
      /\ uuid[r] \in Seq(Ids) /\ plan[r] \in Seq(Plan)
      /\ Len(plan[r]) = pos[r] - 1 /\ Len(uuid[r]) = pos[r] - 1
  BY <1>2, ProposedTypes DEF Typing, Places
<1>4. uuid'[r] = Append(uuid[r], id) /\ plan'[r] = Append(plan[r], how)
  BY <1>1 DEF Typing
<1>5. Props(r)' = Props(r) /\ ext'[r] = ext[r]
  BY <1>1 DEF Props
<1>6. /\ pos[r] \in DOMAIN Props(r)
      /\ DOMAIN uuid[r] = 1..(pos[r] - 1) /\ DOMAIN plan[r] = 1..(pos[r] - 1)
  BY <1>3
<1>7. DOMAIN uuid'[r] = 1..pos[r] /\ DOMAIN plan'[r] = 1..pos[r]
  BY <1>3, <1>4
<1>8. /\ plan'[r][pos[r]] = how /\ uuid'[r][pos[r]] = id
      /\ \A i \in 1..(pos[r] - 1) : plan'[r][i] = plan[r][i] /\ uuid'[r][i] = uuid[r][i]
  BY <1>3, <1>4
<1>9. pc'[r] = "hash" \/ (pc'[r] = "create" /\ pos'[r] = 1)
  BY DEF Resolve, Advance, Goto, After, Typing
<1> QED
  BY <1>5, <1>6, <1>7, <1>8, <1>9

\* A found proposal has the node that was found; one that was not has a name of its own.
LEMMA ResolveRunInv ==
    ASSUME Inv, NEW r \in Runs, NEW id \in Ids, NEW how \in {"found", "dup", "new"},
           pc[r] \in {"hash", "name"}, Resolve(r, id, how), RunInv(r),
           how = "found" => \E n \in nodes : n.id = id /\
             \/ n.key = Props(r)[pos[r]].key /\ n.live
             \/ n \in WithHash(Props(r)[pos[r]]),
           how = "dup" => \E i \in Earlier(r) : id = uuid[r][i],
           how = "new" => /\ id = NodeId(Props(r)[pos[r]].key)
                          /\ OnlyNamed(Props(r)[pos[r]].key)
    PROVE  RunInv(r)'
<1> DEFINE p == pos[r]
           k == Props(r)[p].key
<1>0. how \in Plan
  BY DEF Plan
<1>1. /\ Props(r)' = Props(r) /\ ext'[r] = ext[r]
      /\ DOMAIN uuid[r] = 1..(p - 1) /\ DOMAIN plan[r] = 1..(p - 1)
      /\ DOMAIN uuid'[r] = 1..p /\ DOMAIN plan'[r] = 1..p
      /\ plan'[r][p] = how /\ uuid'[r][p] = id
      /\ \A i \in 1..(p - 1) : plan'[r][i] = plan[r][i] /\ uuid'[r][i] = uuid[r][i]
      /\ pc'[r] = "hash" \/ (pc'[r] = "create" /\ pos'[r] = 1)
  BY <1>0, ResolveAppends
<1>2. p \in Nat \ {0} /\ UNCHANGED <<nodes, quiet>>
  BY DEF Inv, Typing, Resolve, graph
<1>3. how = "dup" => \E i \in 1..(p - 1) : /\ plan[r][i] = "new" /\ id = uuid[r][i]
                                           /\ Props(r)[i].key = k
  BY DEF Earlier
<1>4. Resolved(r) /\ Planned(r)
  BY DEF RunInv
<1>5. how = "found" => \E n \in nodes : n.id = id /\
             ((n.key = k /\ n.live) \/ n \in WithHash(Props(r)[p]))
  OBVIOUS
<1>6. how # "found" => id = NodeId(k) /\ OnlyNamed(k)
  BY <1>1, <1>3, <1>4 DEF Resolved
<1> HIDE DEF p
<1>7. \A i \in 1..p : i = p \/ i \in 1..(p - 1)
  BY <1>2
<1>8. \A i : OnlyNamed(Props(r)[i].key)' <=> OnlyNamed(Props(r)[i].key)
  BY <1>1, <1>2 DEF OnlyNamed
<1>9. Resolved(r)'
  <2> SUFFICES ASSUME NEW i \in 1..p
               PROVE  /\ plan'[r][i] = "found" => Active(r, i)' \/ Hashed(r, i)'
                      /\ plan'[r][i] = "made" => Active(r, i)'
                      /\ plan'[r][i] # "found" => /\ uuid'[r][i] = NodeId(Props(r)'[i].key)
                                                  /\ OnlyNamed(Props(r)[i].key)'
    BY <1>1 DEF Resolved
  <2>1. CASE i = p
    <3>1. how # "made"
      OBVIOUS
    <3>2. how = "found" => Active(r, i)' \/ Hashed(r, i)'
      BY <2>1, <1>1, <1>2, <1>5 DEF Active, Hashed, WithHash
    <3> QED
      BY <2>1, <3>1, <3>2, <1>1, <1>6, <1>8
  <2>2. CASE i \in 1..(p - 1)
    <3>1. (Active(r, i) => Active(r, i)') /\ (Hashed(r, i) => Hashed(r, i)')
      BY <1>1, <1>2, <2>2 DEF Active, Hashed, WithHash
    <3> QED
      BY <2>2, <3>1, <1>1, <1>4, <1>8 DEF Resolved
  <2> QED
    BY <2>1, <2>2, <1>7
<1>10. Planned(r)'
  <2> SUFFICES ASSUME NEW i \in 1..p
               PROVE
      /\ plan'[r][i] = "new" => pc'[r] \in {"hash", "name"} \/ (pc'[r] = "create" /\ i >= pos'[r])
      /\ plan'[r][i] = "skipped" => ~Convertible(ext'[r], i)
      /\ plan'[r][i] = "dup" => \E j \in 1..(i - 1) :
           /\ plan'[r][j] \in {"new", "made", "skipped"}
           /\ Props(r)'[j].key = Props(r)'[i].key /\ uuid'[r][j] = uuid'[r][i]
    BY <1>1 DEF Planned
  <2>1. plan'[r][i] = "new" => pc'[r] \in {"hash", "name"} \/ (pc'[r] = "create" /\ i >= pos'[r])
    BY <1>1, <1>2
  <2>2. CASE i = p
    BY <2>1, <2>2, <1>1, <1>3
  <2>3. CASE i \in 1..(p - 1)
    <3>1. 1..(i - 1) \subseteq 1..(p - 1)
      BY <2>3, <1>2
    <3> QED
      BY <2>1, <2>3, <3>1, <1>1, <1>4 DEF Planned
  <2> QED
    BY <2>2, <2>3, <1>7
<1> QED
  BY <1>9, <1>10 DEF RunInv

LEMMA FindRunInv ==
    ASSUME RetryInv, NEW r \in Runs, FindHash(r) \/ FindName(r)
    PROVE  RunInv(r)'
<1> DEFINE k == Props(r)[pos[r]].key
<1>1. pc[r] \in {"hash", "name"} /\ Inv /\ RunInv(r)
  BY DEF FindHash, FindName, RetryInv, TypeInv, WrittenInv
<1>2. k \in Keys /\ NodeId(k) \in Ids
  BY <1>1, ProposedTypes DEF Inv, Typing, Places, Props, NodeId, Ids
<1>3. ASSUME NEW n \in nodes, (n.key = k /\ n.live) \/ n \in WithHash(Props(r)[pos[r]]),
             Adopt(r, n)
      PROVE  RunInv(r)'
  <2>1. n.id \in Ids
    BY <1>1 DEF Inv, Typing, Node
  <2> QED
    BY <1>1, <1>3, <2>1, ResolveRunInv DEF Adopt
<1>4. CASE FindHash(r)
  <2>1. CASE \E n \in WithHash(Props(r)[pos[r]]) : Adopt(r, n)
    BY <1>3, <2>1 DEF WithHash
  <2>2. CASE pc' = [pc EXCEPT ![r] = "name"] /\ UNCHANGED <<nodes, pos, uuid, plan, ext, quiet>>
    <3>1. Resolved(r)' /\ Props(r)' = Props(r)
      BY <1>1, <2>2 DEF RunInv, Resolved, Active, Hashed, WithHash, OnlyNamed, Props
    <3>2. Planned(r)'
      <4>1. pc'[r] = "name"
        BY <1>1, <2>2 DEF Inv, Typing
      <4> QED
        BY <1>1, <2>2, <3>1, <4>1 DEF RunInv, Planned
    <3> QED
      BY <3>1, <3>2 DEF RunInv
  <2> QED
    BY <1>4, <2>1, <2>2 DEF FindHash, Goto, local, graph
<1>5. CASE FindName(r)
  <2>1. CASE \E n \in Existing(k) : Adopt(r, n)
    BY <1>3, <2>1 DEF Existing
  <2>2. ASSUME NEW i \in Earlier(r), Resolve(r, uuid[r][i], "dup") PROVE RunInv(r)'
    <3>1. uuid[r][i] \in Ids
      BY <1>1 DEF Earlier, Inv, Typing, Places
    <3> QED
      BY <1>1, <2>2, <3>1, ResolveRunInv
  <2>3. CASE Existing(k) = {} /\ Resolve(r, NodeId(k), "new")
    <3>1. OnlyNamed(k)
      BY <2>3 DEF Existing, OnlyNamed
    <3> QED
      BY <1>1, <1>2, <2>3, <3>1, ResolveRunInv
  <2> QED
    BY <1>5, <2>1, <2>2, <2>3 DEF FindName
<1> QED
  BY <1>4, <1>5

\* A plan that was "new" becomes "made" or "skipped".
LEMMA DecidePlans ==
    ASSUME Inv, NEW r \in Runs, NEW how \in {"skipped", "made"}, pc[r] = "create",
           Decide(r, how)
    PROVE  /\ Props(r)' = Props(r) /\ ext'[r] = ext[r] /\ uuid'[r] = uuid[r]
           /\ DOMAIN plan[r] = DOMAIN Props(r) /\ DOMAIN uuid[r] = DOMAIN Props(r)
           /\ DOMAIN plan'[r] = DOMAIN plan[r] /\ pos[r] \in DOMAIN plan[r]
           /\ plan'[r][pos[r]] = how
           /\ \A i \in DOMAIN plan[r] : i # pos[r] => plan'[r][i] = plan[r][i]
<1> USE DEF Inv
<1>1. /\ plan' = [plan EXCEPT ![r][pos[r]] = how] /\ UNCHANGED <<ext, uuid>>
  BY DEF Decide, local
<1>2. /\ plan[r] \in Seq(Plan) /\ uuid[r] \in Seq(Ids) /\ pos[r] \in Nat \ {0}
      /\ pos[r] <= Len(plan[r]) /\ Len(plan[r]) = Len(Props(r)) /\ Len(uuid[r]) = Len(plan[r])
      /\ Props(r) \in Seq(Proposal)
  BY ProposedTypes DEF Typing, Places, Props
<1>3. /\ DOMAIN plan[r] = DOMAIN Props(r) /\ DOMAIN uuid[r] = DOMAIN Props(r)
      /\ pos[r] \in DOMAIN plan[r]
  BY <1>2
<1>4. plan'[r] = [plan[r] EXCEPT ![pos[r]] = how]
  BY <1>1 DEF Typing
<1>5. Props(r)' = Props(r)
  BY <1>1 DEF Props
<1> HIDE DEF Inv
<1> QED
  BY <1>1, <1>3, <1>4, <1>5

\* The list of proposals is gone through in order.
LEMMA CreateMoves ==
    ASSUME Inv, NEW r \in Runs, pc[r] = "create", Advance(r, "create")
    PROVE  \/ pc'[r] = "create" /\ pos'[r] = pos[r] + 1
           \/ pc'[r] \in {"link", "cite", "answer"} /\ pos[r] >= Len(plan[r])
<1>1. /\ Len(plan[r]) = Len(Props(r)) /\ Work(r) = Props(r) /\ pos[r] \in Nat
      /\ Len(Props(r)) \in Nat
  BY ProposedTypes DEF Inv, Typing, Places, Work, Props
<1>2. After(r) \in {"link", "cite", "answer"}
  BY DEF After
<1> QED
  BY <1>1, <1>2 DEF Advance, Goto, Inv, Typing

LEMMA ConvertsEverywhere ==
    ASSUME Inv, NEW r \in Runs, pc[r] = "create"
    PROVE  Converts(r, Props(r)[pos[r]]) <=> Convertible(ext[r], pos[r])
<1>1. /\ ext[r] \in Extractions /\ Props(r) = Proposed[ext[r]]
      /\ DOMAIN uuid[r] = DOMAIN Proposed[ext[r]]
  BY ProposedTypes DEF Inv, Typing, Places, Props
<1> QED
  BY <1>1 DEF Converts, Convertible

\* What is made has the id and the key of its proposal.
LEMMA DecideRunInv ==
    ASSUME TypeInv, NEW r \in Runs, NEW how \in {"skipped", "made"}, pc[r] = "create",
           Decide(r, how), RunInv(r), plan[r][pos[r]] = "new",
           how = "skipped" => ~Convertible(ext[r], pos[r]),
           nodes \subseteq nodes', \A k : OnlyNamed(k) => OnlyNamed(k)',
           how = "made" => New(r, Props(r)[pos[r]]) \in nodes'
    PROVE  RunInv(r)'
<1> DEFINE p == pos[r]
<1>0. Inv
  BY DEF TypeInv, WrittenInv
<1>1. /\ Props(r)' = Props(r) /\ ext'[r] = ext[r] /\ uuid'[r] = uuid[r]
      /\ DOMAIN plan'[r] = DOMAIN plan[r] /\ p \in DOMAIN plan[r]
      /\ plan'[r][p] = how
      /\ \A i \in DOMAIN plan[r] : i # p => plan'[r][i] = plan[r][i]
  BY <1>0, DecidePlans
<1>2. \/ pc'[r] = "create" /\ pos'[r] = p + 1
      \/ pc'[r] \in {"link", "cite", "answer"} /\ p >= Len(plan[r])
  BY <1>0, CreateMoves DEF Decide
<1>3. p \in Nat /\ DOMAIN plan[r] = 1..Len(plan[r]) /\ Len(plan[r]) \in Nat
  BY <1>0 DEF Inv, Typing
<1>4. /\ how = "skipped" => ~Convertible(ext[r], p)
      /\ how = "made" => New(r, Props(r)[p]) \in nodes'
      /\ plan[r][p] = "new" /\ nodes \subseteq nodes' /\ UNCHANGED quiet
      /\ Resolved(r) /\ Planned(r)
  BY DEF Decide, local, RunInv
<1>5. \A i : i = p => New(r, Props(r)[i]).id = uuid[r][i] /\ New(r, Props(r)[i]).live
                      /\ New(r, Props(r)[i]).key = Props(r)[i].key
  BY DEF New
<1>6. \A i : OnlyNamed(Props(r)[i].key) => OnlyNamed(Props(r)[i].key)'
  <2>1. \A i, k : k = Props(r)[i].key /\ OnlyNamed(k)' => OnlyNamed(Props(r)[i].key)'
    BY <1>1 DEF OnlyNamed
  <2> QED
    BY <2>1
<1> HIDE DEF p
<1>7. Resolved(r)'
  <2> SUFFICES ASSUME NEW i \in DOMAIN plan[r]
               PROVE  /\ plan'[r][i] = "found" => Active(r, i)' \/ Hashed(r, i)'
                      /\ plan'[r][i] = "made" => Active(r, i)'
                      /\ plan'[r][i] # "found" => /\ uuid'[r][i] = NodeId(Props(r)'[i].key)
                                                  /\ OnlyNamed(Props(r)[i].key)'
    BY <1>1 DEF Resolved
  <2>1. CASE i = p
    <3>1. how = "made" => Active(r, i)'
      BY <2>1, <1>1, <1>4, <1>5 DEF Active
    <3> QED
      BY <2>1, <3>1, <1>1, <1>4, <1>6 DEF Resolved
  <2>2. CASE i # p
    <3>1. (Active(r, i) => Active(r, i)') /\ (Hashed(r, i) => Hashed(r, i)')
      BY <1>1, <1>4, <2>2 DEF Active, Hashed, WithHash
    <3> QED
      BY <2>2, <3>1, <1>1, <1>4, <1>6 DEF Resolved
  <2> QED
    BY <2>1, <2>2
<1>8. ASSUME NEW i \in DOMAIN plan[r]
      PROVE  /\ plan'[r][i] = "new" => (pc'[r] = "create" /\ i >= pos'[r])
             /\ plan'[r][i] = "skipped" => ~Convertible(ext'[r], i)
  <2>1. plan[r][i] = "new" => i >= p
    BY <1>4 DEF Planned, p
  <2>2. plan[r][i] = "skipped" => ~Convertible(ext[r], i)
    BY <1>4 DEF Planned
  <2>3. plan'[r][i] = "new" => i # p /\ i >= p /\ i <= Len(plan[r])
    BY <1>1, <1>3, <2>1
  <2> QED
    BY <1>1, <1>2, <1>3, <1>4, <2>2, <2>3
<1>9. ASSUME NEW i \in DOMAIN plan[r], plan'[r][i] = "dup"
      PROVE  \E j \in 1..(i - 1) :
                /\ plan'[r][j] \in {"new", "made", "skipped"}
                /\ Props(r)'[j].key = Props(r)'[i].key /\ uuid'[r][j] = uuid'[r][i]
  <2>1. plan[r][i] = "dup"
    BY <1>1, <1>9
  <2>2. PICK j \in 1..(i - 1) :
                /\ plan[r][j] \in {"new", "made", "skipped"}
                /\ Props(r)[j].key = Props(r)[i].key /\ uuid[r][j] = uuid[r][i]
    BY <1>4, <2>1 DEF Planned
  <2>3. j \in DOMAIN plan[r]
    BY <1>3
  <2> QED
    BY <1>1, <2>2, <2>3
<1>10. Planned(r)'
  BY <1>1, <1>8, <1>9 DEF Planned
<1> QED
  BY <1>7, <1>10 DEF RunInv

LEMMA PassRunInv ==
    ASSUME Inv, NEW r \in Runs, NEW p \in {"create", "link", "cite"}, pc[r] = p,
           Advance(r, p), UNCHANGED <<nodes, ext, uuid, plan, quiet>>, RunInv(r),
           p = "create" => plan[r][pos[r]] # "new"
    PROVE  RunInv(r)'
<1>1. Props(r)' = Props(r)
  BY DEF Props
<1>2. ASSUME NEW i \in DOMAIN plan[r], plan[r][i] = "new"
      PROVE  pc'[r] = "create" /\ i >= pos'[r]
  <2>1. p = "create" /\ i >= pos[r]
    BY <1>2 DEF RunInv, Planned
  <2>2. i # pos[r] /\ pos[r] \in Nat /\ i \in Nat /\ i <= Len(plan[r]) /\ Len(plan[r]) \in Nat
    BY <1>2, <2>1 DEF Inv, Typing
  <2>3. \/ pc'[r] = "create" /\ pos'[r] = pos[r] + 1
        \/ pc'[r] \in {"link", "cite", "answer"} /\ pos[r] >= Len(plan[r])
    BY <2>1, CreateMoves
  <2> QED
    BY <2>1, <2>2, <2>3
<1>3. Planned(r)'
  BY <1>1, <1>2 DEF RunInv, Planned
<1>4. Resolved(r)'
  BY <1>1 DEF RunInv, Resolved, Active, Hashed, WithHash, OnlyNamed
<1> QED
  BY <1>3, <1>4 DEF RunInv

\* A new node refers to what was found, or to an id made from a name of its extraction.
LEMMA RefsNamedStep ==
    ASSUME RetryInv, NEW r \in Runs, Step(r)
    PROVE  RefsNamed' /\ DocumentsLive'
<1>0. nodes \subseteq nodes' /\ \A k : OnlyNamed(k) => OnlyNamed(k)'
  BY NodesStay DEF RetryInv
<1>1. CASE UNCHANGED nodes
  BY <1>1 DEF RetryInv, RefsNamed, DocumentsLive, There, OnlyNamed
<1>2. CASE nodes' # nodes
  <2> DEFINE p == Props(r)[pos[r]]
             n == New(r, p)
  <2>1. pc[r] = "create" /\ nodes' = nodes \union {n}
    BY <1>2, NodesChange
  <2>2. /\ ext[r] \in Extractions /\ Props(r) = Proposed[ext[r]]
        /\ DOMAIN uuid[r] = DOMAIN Proposed[ext[r]] /\ DOMAIN plan[r] = DOMAIN Proposed[ext[r]]
        /\ Resolved(r)
    BY <2>1, RunShape DEF RetryInv, RunInv
  <2>3. /\ n.by = ext[r] /\ n.live
        /\ n.ref = IF p.ref \in DOMAIN uuid[r] THEN uuid[r][p.ref] ELSE <<>>
    BY DEF New
  <2>4. n.ref # <<>> => \/ There(n.ref)
                        \/ \E i \in DOMAIN Proposed[ext[r]] :
                             /\ n.ref = NodeId(Proposed[ext[r]][i].key)
                             /\ OnlyNamed(Proposed[ext[r]][i].key)
    <3>1. CASE p.ref \in DOMAIN uuid[r]
      <4>1. n.ref = uuid[r][p.ref] /\ p.ref \in DOMAIN plan[r]
        BY <2>2, <2>3, <3>1
      <4> HIDE DEF n, p
      <4>2. CASE plan[r][p.ref] = "found"
        BY <2>2, <4>1, <4>2 DEF Resolved, Active, Hashed, WithHash, There
      <4>3. CASE plan[r][p.ref] # "found"
        BY <2>2, <4>1, <4>3 DEF Resolved
      <4> QED
        BY <4>2, <4>3
    <3> QED
      BY <2>3, <3>1
  <2> HIDE DEF n
  <2>5. ASSUME NEW m \in nodes', m.by \in Extractions, m.ref # <<>>
        PROVE  \/ \E o \in nodes : o.id = m.ref
               \/ \E i \in DOMAIN Proposed[m.by] :
                    /\ m.ref = NodeId(Proposed[m.by][i].key)
                    /\ OnlyNamed(Proposed[m.by][i].key)
    BY <2>1, <2>3, <2>4, <2>5 DEF RetryInv, RefsNamed, There
  <2>6. RefsNamed'
    <3>1. \A m, i : OnlyNamed(Proposed[m.by][i].key) => OnlyNamed(Proposed[m.by][i].key)'
      BY <1>0
    <3> QED
      BY <1>0, <2>5, <3>1 DEF RefsNamed, There
  <2>7. DocumentsLive'
    BY <2>1, <2>3 DEF RetryInv, DocumentsLive
  <2> QED
    BY <2>6, <2>7
<1> QED
  BY <1>1, <1>2

LEMMA StepRunInv ==
    ASSUME RetryInv, NEW r \in Runs, Step(r)
    PROVE  RunInv(r)'
<1> USE DEF graph, local
<1>0. Inv /\ TypeInv /\ RunInv(r) /\ pc \in [Runs -> PC] /\ ext \in [Runs -> Extractions]
  BY DEF RetryInv, TypeInv, WrittenInv, Inv, Typing
<1>1. nodes \subseteq nodes' /\ \A k : OnlyNamed(k) => OnlyNamed(k)'
  BY <1>0, NodesStay
<1>2. ASSUME NEW e \in Extractions, Approve(r, e) PROVE RunInv(r)'
  <2>1. plan'[r] = <<>>
    BY <1>0, <1>2 DEF Approve, Inv, Places
  <2> QED
    BY <2>1, EmptyRunInv
<1>3. CASE FindHash(r) \/ FindName(r)
  BY <1>3, FindRunInv
<1>4. CASE Create(r)
  <2>0. pc[r] = "create"
    BY <1>4 DEF Create
  <2>1. CASE plan[r][pos[r]] # "new"
    BY <1>0, <1>4, <2>0, <2>1, PassRunInv DEF Create
  <2>2. CASE End(r)
    BY <1>0, <2>2, EndRunInv
  <2>3. CASE plan[r][pos[r]] = "new" /\ ~Converts(r, Props(r)[pos[r]])
    BY <1>0, <1>1, <1>4, <2>0, <2>3, DecideRunInv, ConvertsEverywhere DEF Create
  <2>4. CASE plan[r][pos[r]] = "new" /\ Decide(r, "made")
             /\ nodes' = nodes \union {New(r, Props(r)[pos[r]])}
    BY <1>0, <1>1, <2>0, <2>4, DecideRunInv
  <2> QED
    BY <1>4, <2>1, <2>2, <2>3, <2>4 DEF Create
<1>5. CASE Link(r)
  BY <1>0, <1>5, PassRunInv DEF Link
<1>6. CASE Cite(r)
  BY <1>0, <1>6, PassRunInv DEF Cite
<1>7. CASE Answer(r) \/ Fails(r)
  BY <1>0, <1>7, EndRunInv DEF Answer, Fails
<1> QED
  BY <1>2, <1>3, <1>4, <1>5, <1>6, <1>7 DEF Step

\* the history an approval leaves alone but for its answer
LEMMA HistoryKept ==
    ASSUME TypeInv, NEW r \in Runs, Step(r)
    PROVE  /\ \A q \in Runs \ {r} : quiet'[q] = quiet[q] /\ again'[q] = again[q]
           /\ \/ /\ UNCHANGED history
                 /\ \/ pc'[r] = "idle"
                    \/ \E e \in Extractions : ext'[r] = e /\ again'[r] = history[e]
                    \/ pc[r] # "idle" /\ UNCHANGED <<ext, again, quiet>>
              \/ /\ pc[r] = "answer" /\ pc'[r] = "idle" /\ UNCHANGED graph
                 /\ history' = [history EXCEPT ![ext[r]] =
                                  IF quiet[r] THEN "approved" ELSE "bumped"]
<1> USE DEF graph, local
<1>0. /\ again \in [Runs -> History] /\ quiet \in [Runs -> BOOLEAN] /\ pc \in [Runs -> PC]
      /\ ext \in [Runs -> Extractions]
  BY DEF TypeInv, HistoryTyped, WrittenInv, Inv, Typing
<1>1. ASSUME End(r)
      PROVE  /\ \A q \in Runs \ {r} : quiet'[q] = quiet[q] /\ again'[q] = again[q]
             /\ pc'[r] = "idle"
  BY <1>0, <1>1 DEF End, Goto
<1>2. ASSUME NEW e \in Extractions, Approve(r, e)
      PROVE  /\ \A q \in Runs \ {r} : quiet'[q] = quiet[q] /\ again'[q] = again[q]
             /\ UNCHANGED history /\ ext'[r] = e /\ again'[r] = history[e]
  BY <1>0, <1>2 DEF Approve
<1>3. CASE Create(r)
  BY <1>1, <1>3 DEF Create, Decide
<1>4. CASE FindHash(r) \/ FindName(r) \/ Link(r) \/ Cite(r)
  BY <1>4 DEF FindHash, FindName, Adopt, Resolve, Link, Cite
<1>5. CASE Answer(r)
  BY <1>1, <1>5 DEF Answer
<1>6. CASE Fails(r)
  BY <1>1, <1>6 DEF Fails
<1> QED
  BY <1>2, <1>3, <1>4, <1>5, <1>6 DEF Step

LEMMA RetryStep == RetryInv /\ [Next]_vars => RetryInv'
<1> SUFFICES ASSUME RetryInv, [Next]_vars PROVE RetryInv'
  OBVIOUS
<1>1. TypeInv' /\ TypeInv
  BY TypeStep DEF RetryInv
<1>2. ASSUME NEW r \in Runs, Step(r) PROVE RetryInv'
  <2>1. RunInv(r)' /\ RefsNamed' /\ DocumentsLive'
    BY <1>2, StepRunInv, RefsNamedStep
  <2>2. /\ nodes \subseteq nodes' /\ \A k : OnlyNamed(k) => OnlyNamed(k)'
        /\ \A q \in Runs \ {r} : Kept(q) /\ quiet'[q] = quiet[q]
    BY <1>1, <1>2, NodesStay, StepWritten, HistoryKept DEF TypeInv
  <2>3. \A q \in Runs : RunInv(q)'
    BY <2>1, <2>2, KeptRunInv DEF RetryInv
  <2> QED
    BY <1>1, <2>1, <2>3 DEF RetryInv
<1>3. ASSUME NEW n \in nodes, Bump(n) PROVE RetryInv'
  <2>1. /\ \A q \in Runs : Kept(q)
        /\ quiet' = [r \in Runs |-> pc[r] = "idle"]
    BY <1>3 DEF Bump, Kept
  <2>2. /\ \A k : OnlyNamed(k) => OnlyNamed(k)'
        /\ \A m \in nodes : \E o \in nodes' : o.id = m.id /\ o.key = m.key /\ o.hash = m.hash
        /\ \A o \in nodes' : \E m \in nodes :
             /\ o.id = m.id /\ o.key = m.key /\ o.ref = m.ref /\ o.by = m.by
             /\ o.live = m.live \/ (~o.live /\ o.key \notin Exempt)
    BY <1>1, <1>3, BumpStays
  <2>3. ASSUME NEW q \in Runs PROVE RunInv(q)'
    <3>1. CASE pc[q] = "idle"
      <4>1. plan'[q] = <<>>
        BY <1>1, <2>1, <3>1 DEF Kept, TypeInv, WrittenInv, Inv, Places
      <4> QED
        BY <4>1, EmptyRunInv
    <3>2. CASE pc[q] # "idle"
      BY <2>1, <2>2, <3>2, KeptRunInv DEF RetryInv
    <3> QED
      BY <3>1, <3>2
  <2>4. DocumentsLive'
    BY <2>2, MaterializeAssumption DEF RetryInv, DocumentsLive
  <2>5. RefsNamed'
    <3> SUFFICES ASSUME NEW o \in nodes', o.by \in Extractions, o.ref # <<>>
                 PROVE  \/ There(o.ref)'
                        \/ \E i \in DOMAIN Proposed[o.by] :
                             /\ o.ref = NodeId(Proposed[o.by][i].key)
                             /\ OnlyNamed(Proposed[o.by][i].key)'
      BY DEF RefsNamed
    <3>1. PICK m \in nodes : o.ref = m.ref /\ o.by = m.by
      BY <2>2
    <3>2. \/ There(o.ref)
          \/ \E i \in DOMAIN Proposed[o.by] :
               /\ o.ref = NodeId(Proposed[o.by][i].key)
               /\ OnlyNamed(Proposed[o.by][i].key)
      BY <3>1 DEF RetryInv, RefsNamed
    <3>3. There(o.ref) => There(o.ref)'
      BY <2>2 DEF There
    <3> QED
      BY <2>2, <3>2, <3>3
  <2> QED
    BY <1>1, <2>3, <2>4, <2>5 DEF RetryInv
<1>4. CASE UNCHANGED vars
  <2>1. \A q \in Runs : RunInv(q)'
    BY <1>4 DEF RetryInv, RunInv, Resolved, Planned, Active, Hashed, WithHash, OnlyNamed,
                Props, vars
  <2>2. RefsNamed' /\ DocumentsLive'
    BY <1>4 DEF RetryInv, RefsNamed, DocumentsLive, There, OnlyNamed, vars
  <2> QED
    BY <1>1, <2>1, <2>2 DEF RetryInv
<1> QED
  BY <1>2, <1>3, <1>4 DEF Next

LEMMA RetryInit == Init => RetryInv
<1> SUFFICES ASSUME Init PROVE RetryInv
  OBVIOUS
<1>1. \A n \in nodes : n.live /\ n.by \notin Extractions
  BY MaterializeAssumption DEF Init
<1>2. \A r \in Runs : RunInv(r)
  BY DEF Init, RunInv, Resolved, Planned
<1> QED
  BY <1>1, <1>2, TypeInit DEF RetryInv, DocumentsLive, RefsNamed

-----------------------------------------------------------------------------
\* Once all proposals have been gone through, an uncontested one has its node: nobody was
\* skipped under its name, and what has its hash has its name.
LEMMA UncontestedActive ==
    ASSUME RetryInv, NEW r \in Runs, pc[r] \in {"link", "cite", "answer"},
           NEW i \in DOMAIN Props(r), ~Contested(ext[r], i)
    PROVE  Active(r, i) /\ Placed(r, i)
<1>1. /\ Props(r) = Proposed[ext[r]] /\ plan[r] \in Seq(Plan)
      /\ DOMAIN plan[r] = DOMAIN Props(r) /\ DOMAIN uuid[r] = DOMAIN plan[r]
      /\ Props(r) \in Seq(Proposal) /\ Resolved(r) /\ Planned(r)
  BY RunShape DEF RetryInv, RunInv
<1>2. i \in Nat /\ i >= 1 /\ plan[r][i] \in Plan /\ \A j \in 1..(i - 1) : j \in DOMAIN plan[r]
  BY <1>1
<1>3. ASSUME NEW j \in DOMAIN plan[r], Props(r)[j].key = Props(r)[i].key
      PROVE  plan[r][j] \notin {"new", "skipped"}
  BY <1>1, <1>3 DEF Contested, Planned
<1>4. CASE plan[r][i] \in {"found", "made"}
  <2>1. Hashed(r, i) => Active(r, i)
    <3>1. \A n \in WithHash(Props(r)[i]) : n \in nodes /\ n.live /\ n.key = Props(r)[i].key
      BY <1>1 DEF Contested, WithHash, RetryInv, DocumentsLive
    <3> QED
      BY <3>1 DEF Active, Hashed
  <2>2. Active(r, i)
    BY <1>1, <1>4, <2>1 DEF Resolved
  <2>3. i \in 1..i /\ i \in DOMAIN uuid[r]
    BY <1>1, <1>2
  <2> QED
    BY <1>4, <2>2, <2>3 DEF Placed
<1>5. CASE plan[r][i] = "dup"
  <2>1. PICK j \in 1..(i - 1) : /\ plan[r][j] \in {"new", "made", "skipped"}
                                /\ Props(r)[j].key = Props(r)[i].key /\ uuid[r][j] = uuid[r][i]
    BY <1>1, <1>5 DEF Planned
  <2>2. j \in DOMAIN plan[r] /\ plan[r][j] = "made" /\ j \in 1..i /\ i \in DOMAIN uuid[r]
    BY <1>1, <1>2, <1>3, <2>1
  <2>3. Active(r, j)
    BY <1>1, <2>2 DEF Resolved
  <2>4. Active(r, i)
    BY <2>1, <2>3 DEF Active
  <2>5. Placed(r, i)
    BY <2>1, <2>2 DEF Placed
  <2> QED
    BY <2>4, <2>5
<1> QED
  BY <1>1, <1>2, <1>3, <1>4, <1>5 DEF Plan

LEMMA RetryInvImplies == RetryInv => RetryRepairs
<1> SUFFICES ASSUME RetryInv, NEW r \in Runs, pc[r] = "answer", quiet[r],
                    NEW n \in nodes, n.by = ext[r], n.ref # <<>>, ~There(n.ref)
             PROVE  \E i \in DOMAIN Props(r) : /\ n.ref = NodeId(Props(r)[i].key)
                                               /\ Contested(ext[r], i)
  BY DEF RetryRepairs
<1>1. ext[r] \in Extractions /\ Props(r) = Proposed[ext[r]]
  BY RunShape DEF RetryInv
<1>2. PICK i \in DOMAIN Props(r) :
        n.ref = NodeId(Props(r)[i].key) /\ OnlyNamed(Props(r)[i].key)
  BY <1>1 DEF RetryInv, RefsNamed
<1>3. ~Active(r, i)
  BY <1>2 DEF Active, OnlyNamed, There
<1> QED
  BY <1>2, <1>3, UncontestedActive

\* When an approval answers, with no version superseded since it began, every node of its
\* extraction refers to a node that exists, also the nodes that earlier approvals, broken
\* off anywhere, left behind, and whatever other approvals do meanwhile; unless it refers
\* to a proposal whose hash or name is contested.  Of the extractions nothing is assumed.
THEOREM RetriesRepair == Spec => []RetryRepairs
  BY RetryInit, RetryStep, RetryInvImplies, PTL DEF Spec

-----------------------------------------------------------------------------
(***************************************************************************)
(* What an approval leaves for the next one.  An extraction is in the graph *)
(* when each uncontested proposal has an active node and these nodes have   *)
(* the proposed relationships; short of a bump it stays there, for nodes    *)
(* are only added and what is contested remains so, and approving it again  *)
(* then finds everything.                                                   *)
(***************************************************************************)
Has(e, i) == \E n \in nodes : n.key = Proposed[e][i].key /\ n.live

\* the relationship between the active nodes of two proposals is there
Related(e, t, i, j, span) ==
    i \in DOMAIN Proposed[e] /\ j \in DOMAIN Proposed[e] =>
      \/ Contested(e, i) \/ Contested(e, j)
      \/ \E n, m \in nodes :
           /\ n.live /\ m.live /\ n.key = Proposed[e][i].key /\ m.key = Proposed[e][j].key
           /\ [type |-> t, src |-> n.id, dst |-> m.id, span |-> span] \in DOMAIN edges

InGraph(e) ==
    /\ \A i \in DOMAIN Proposed[e] : Contested(e, i) \/ Has(e, i)
    /\ \A l \in DOMAIN Links[e] : Related(e, Links[e][l].type, Links[e][l].src, Links[e][l].dst, 0)
    /\ \A c \in DOMAIN Cited[e] : Related(e, "CITES", Cited[e][c], DocumentOf(e), c)

ApprovedInGraph ==
    /\ \A e \in Extractions : history[e] = "approved" => InGraph(e)
    /\ \A r \in Runs : \A e \in Extractions :
         e = ext[r] /\ pc[r] # "idle" /\ again[r] = "approved" /\ quiet[r] => InGraph(e)

AgainInv == RetryInv /\ ApprovedInGraph

-----------------------------------------------------------------------------
\* An active node of an uncontested proposal is the one the approval has.
LEMMA ActiveIsOne ==
    ASSUME RetryInv, NEW r \in Runs, pc[r] \in {"link", "cite", "answer"}, quiet[r],
           NEW i \in DOMAIN Props(r), ~Contested(ext[r], i),
           NEW n \in nodes, n.live, n.key = Props(r)[i].key
    PROVE  n.id = uuid[r][i]
<1>1. PICK m \in nodes : m.live /\ m.key = Props(r)[i].key /\ m.id = uuid[r][i]
  BY UncontestedActive DEF Active
<1>2. m = n
  BY <1>1 DEF RetryInv, TypeInv, WrittenInv, Inv, OneActiveVersion
<1> QED
  BY <1>1, <1>2

\* Both ends of what an approval has written about uncontested proposals are active.
LEMMA RelatedNow ==
    ASSUME RetryInv, NEW r \in Runs, pc[r] = "answer", quiet[r],
           NEW t, NEW i, NEW j, NEW s,
           Placed(r, i) /\ Placed(r, j) =>
             [type |-> t, src |-> uuid[r][i], dst |-> uuid[r][j], span |-> s] \in DOMAIN edges
    PROVE  Related(ext[r], t, i, j, s)
<1> SUFFICES ASSUME i \in DOMAIN Props(r), j \in DOMAIN Props(r), ~Contested(ext[r], i),
                    ~Contested(ext[r], j)
             PROVE  \E n, m \in nodes :
                      /\ n.live /\ m.live /\ n.key = Props(r)[i].key /\ m.key = Props(r)[j].key
                      /\ [type |-> t, src |-> n.id, dst |-> m.id, span |-> s] \in DOMAIN edges
  BY RunShape DEF RetryInv, Related
<1>1. Active(r, i) /\ Placed(r, i) /\ Active(r, j) /\ Placed(r, j)
  BY UncontestedActive
<1> QED
  BY <1>1 DEF Active

\* An approval that answers, with nothing superseded meanwhile, leaves its extraction in
\* the graph.
LEMMA AnsweredInGraph ==
    ASSUME RetryInv, NEW r \in Runs, pc[r] = "answer", quiet[r]
    PROVE  InGraph(ext[r])
<1> DEFINE e == ext[r]
<1>1. /\ e \in Extractions /\ Props(r) = Proposed[e] /\ LinksWritten(r) /\ CitesWritten(r)
  BY RunShape DEF RetryInv, TypeInv, WrittenInv, Written
<1>2. \A i \in DOMAIN Proposed[e] : Contested(e, i) \/ Has(e, i)
  BY <1>1, UncontestedActive DEF Active, Has
<1>3. ASSUME NEW l \in DOMAIN Links[e]
      PROVE  Related(e, Links[e][l].type, Links[e][l].src, Links[e][l].dst, 0)
  <2>1. Placed(r, Links[e][l].src) /\ Placed(r, Links[e][l].dst) =>
          [type |-> Links[e][l].type, src |-> uuid[r][Links[e][l].src],
           dst |-> uuid[r][Links[e][l].dst], span |-> 0] \in DOMAIN edges
    BY <1>1, <1>3 DEF LinksWritten, LinkEdge
  <2> QED
    BY <2>1, RelatedNow
<1>4. ASSUME NEW c \in DOMAIN Cited[e]
      PROVE  Related(e, "CITES", Cited[e][c], DocumentOf(e), c)
  <2>1. Placed(r, Cited[e][c]) /\ Placed(r, DocumentOf(e)) =>
          [type |-> "CITES", src |-> uuid[r][Cited[e][c]],
           dst |-> uuid[r][DocumentOf(e)], span |-> c] \in DOMAIN edges
    BY <1>1, <1>4 DEF CitesWritten, CiteEdge, DocumentAt
  <2> QED
    BY <2>1, RelatedNow
<1> QED
  BY <1>2, <1>3, <1>4 DEF InGraph

\* What is in the graph stays there, short of a bump.
LEMMA InGraphStays ==
    ASSUME NEW e, InGraph(e), nodes \subseteq nodes', DOMAIN edges \subseteq DOMAIN edges'
    PROVE  InGraph(e)'
<1>1. \A i : Contested(e, i) => Contested(e, i)'
  BY DEF Contested, WithHash
<1>2. \A i : Has(e, i) => Has(e, i)'
  BY DEF Has
<1>3. ASSUME NEW t, NEW i, NEW j, NEW s, Related(e, t, i, j, s)
      PROVE  Related(e, t, i, j, s)'
  BY <1>1, <1>3 DEF Related
<1> QED
  BY <1>1, <1>2, <1>3 DEF InGraph

LEMMA StepAgain ==
    ASSUME AgainInv, RetryInv', NEW r \in Runs, Step(r)
    PROVE  AgainInv'
<1>0. TypeInv /\ RetryInv
  BY DEF AgainInv, RetryInv
<1>1. nodes \subseteq nodes' /\ DOMAIN edges \subseteq DOMAIN edges'
  BY <1>0, NodesStay, StepWritten DEF TypeInv, Grows
<1>2. \A q \in Runs \ {r} : Kept(q) /\ quiet'[q] = quiet[q] /\ again'[q] = again[q]
  BY <1>0, HistoryKept, StepWritten DEF TypeInv
<1>3. \A e : InGraph(e) => InGraph(e)'
  BY <1>1, InGraphStays
<1>4. ext[r] \in Extractions /\ \A q \in Runs : ext[q] \in Extractions
  BY <1>0 DEF TypeInv, WrittenInv, Inv, Typing
<1>5. ASSUME NEW e \in Extractions, history'[e] = "approved" PROVE InGraph(e)'
  <2>1. CASE history[e] = "approved"
    BY <1>3, <2>1 DEF AgainInv, ApprovedInGraph
  <2>2. CASE history[e] # "approved"
    <3>1. /\ pc[r] = "answer" /\ e = ext[r] /\ quiet[r]
      BY <1>0, <1>5, <2>2, HistoryKept DEF TypeInv, HistoryTyped
    <3> QED
      BY <1>0, <1>3, <3>1, AnsweredInGraph
  <2> QED
    BY <2>1, <2>2
<1>6. ASSUME NEW q \in Runs, pc'[q] # "idle", again'[q] = "approved", quiet'[q],
             NEW e \in Extractions, e = ext'[q]
      PROVE  InGraph(e)'
  <2>1. CASE q # r
    BY <1>2, <1>3, <1>4, <1>6, <2>1 DEF AgainInv, ApprovedInGraph, Kept
  <2>2. CASE q = r
    <3>1. CASE \E f \in Extractions : ext'[r] = f /\ again'[r] = history[f]
      BY <1>3, <1>6, <2>2, <3>1 DEF AgainInv, ApprovedInGraph
    <3>2. CASE pc[r] # "idle" /\ UNCHANGED <<ext, again, quiet>>
      BY <1>3, <1>4, <1>6, <2>2, <3>2 DEF AgainInv, ApprovedInGraph
    <3> QED
      BY <1>0, <1>6, <2>2, <3>1, <3>2, HistoryKept
  <2> QED
    BY <2>1, <2>2
<1>7. ApprovedInGraph'
  BY <1>5, <1>6 DEF ApprovedInGraph
<1> QED
  BY <1>7 DEF AgainInv

\* After a bump nothing counts as approved, and no approval as undisturbed.
LEMMA BumpAgain ==
    ASSUME AgainInv, RetryInv', NEW n \in nodes, Bump(n)
    PROVE  AgainInv'
<1>1. /\ UNCHANGED <<edges, pc, ext, pos, uuid, plan, again>>
      /\ history' = [e \in Extractions |-> IF history[e] = "first" THEN "first" ELSE "bumped"]
      /\ quiet' = [r \in Runs |-> pc[r] = "idle"]
  BY DEF Bump
<1> QED
  BY <1>1 DEF AgainInv, ApprovedInGraph

LEMMA AgainStep == AgainInv /\ [Next]_vars => AgainInv'
<1> SUFFICES ASSUME AgainInv, [Next]_vars PROVE AgainInv'
  OBVIOUS
<1>1. RetryInv'
  BY RetryStep DEF AgainInv
<1>2. CASE UNCHANGED vars
  <2>1. UNCHANGED <<nodes, edges, pc, ext, history, again, quiet>> /\ ApprovedInGraph
    BY <1>2 DEF AgainInv, vars
  <2>2. \A e : InGraph(e) => InGraph(e)'
    BY <2>1, InGraphStays
  <2> QED
    BY <1>1, <2>1, <2>2 DEF AgainInv, ApprovedInGraph
<1> QED
  BY <1>1, <1>2, StepAgain, BumpAgain DEF Next

LEMMA AgainInit == Init => AgainInv
  BY RetryInit DEF AgainInv, ApprovedInGraph, Init

-----------------------------------------------------------------------------
\* A node that is in the graph is not made again.
LEMMA NothingMade ==
    ASSUME RetryInv, NEW r \in Runs, pc[r] = "create", InGraph(ext[r]),
           plan[r][pos[r]] = "new", ~Contested(ext[r], pos[r])
    PROVE  ~Unique(uuid[r][pos[r]], Props(r)[pos[r]])
<1>1. /\ Inv /\ TypeInv
  BY DEF RetryInv, TypeInv, WrittenInv
<1>2. /\ ext[r] \in Extractions /\ Props(r) = Proposed[ext[r]] /\ pos[r] \in DOMAIN plan[r]
      /\ DOMAIN plan[r] = DOMAIN Props(r)
  BY <1>1, RunShape DEF Inv, Places
<1>3. PICK n \in nodes : n.key = Props(r)[pos[r]].key /\ n.live
  BY <1>2 DEF InGraph, Has
<1>4. n.id = NodeId(n.key) /\ uuid[r][pos[r]] = NodeId(n.key)
  BY <1>1, <1>2, <1>3 DEF Inv, NothingElse, NewIsNamed
<1> QED
  BY <1>4 DEF Unique

LEMMA MergeNothing ==
    ASSUME EdgesTyped, NEW x, There(x.src) /\ There(x.dst) => x \in DOMAIN edges, Write(x)
    PROVE  UNCHANGED edges
<1>1. CASE There(x.src) /\ There(x.dst)
  <2>1. DOMAIN edges \union {x} = DOMAIN edges
    BY <1>1
  <2>2. edges' = [y \in DOMAIN edges |-> edges[y]]
    BY <1>1, <2>1 DEF Write, MergeEdge
  <2> QED
    BY <2>2 DEF EdgesTyped
<1>2. CASE ~(There(x.src) /\ There(x.dst))
  BY <1>2 DEF Write
<1> QED
  BY <1>1, <1>2

\* Nor is a relationship.
LEMMA NothingLinked ==
    ASSUME RetryInv, NEW r \in Runs, Link(r), quiet[r], InGraph(ext[r]),
           \A i \in Concerned(r) \intersect DOMAIN Props(r) : ~Contested(ext[r], i)
    PROVE  UNCHANGED edges
<1> DEFINE l == Links[ext[r]][pos[r]]
           x == LinkEdge(r, l)
<1>1. /\ TypeInv /\ pc[r] = "link" /\ ext[r] \in Extractions /\ Props(r) = Proposed[ext[r]]
      /\ pos[r] \in DOMAIN Links[ext[r]] /\ DOMAIN uuid[r] = DOMAIN Props(r)
  BY RunShape, ListTypes DEF RetryInv, TypeInv, InList, Link
<1>2. IF Linked(r, l) THEN Write(x) ELSE UNCHANGED edges
  BY DEF Link
<1>3. ASSUME Linked(r, l) PROVE x \in DOMAIN edges
  <2>1. /\ l.src \in DOMAIN Props(r) /\ l.dst \in DOMAIN Props(r)
        /\ ~Contested(ext[r], l.src) /\ ~Contested(ext[r], l.dst)
    BY <1>1, <1>3 DEF Linked, Concerned
  <2>2. Related(ext[r], l.type, l.src, l.dst, 0)
    BY <1>1 DEF InGraph
  <2>3. PICK n \in nodes, m \in nodes :
           /\ n.live /\ m.live /\ n.key = Props(r)[l.src].key /\ m.key = Props(r)[l.dst].key
           /\ [type |-> l.type, src |-> n.id, dst |-> m.id, span |-> 0] \in DOMAIN edges
    BY <1>1, <2>1, <2>2 DEF Related
  <2>4. pc[r] \in {"link", "cite", "answer"}
    BY <1>1
  <2>5. n.id = uuid[r][l.src]
    BY <2>1, <2>3, <2>4, ActiveIsOne
  <2>6. m.id = uuid[r][l.dst]
    BY <2>1, <2>3, <2>4, ActiveIsOne
  <2> QED
    BY <2>3, <2>5, <2>6 DEF LinkEdge
<1>4. CASE Linked(r, l)
  BY <1>1, <1>2, <1>3, <1>4, MergeNothing DEF TypeInv
<1> QED
  BY <1>2, <1>4

LEMMA NothingCited ==
    ASSUME RetryInv, NEW r \in Runs, Cite(r), quiet[r], InGraph(ext[r]),
           \A i \in Concerned(r) \intersect DOMAIN Props(r) : ~Contested(ext[r], i)
    PROVE  UNCHANGED edges
<1> DEFINE c == Cited[ext[r]][pos[r]]
           d == DocumentOf(ext[r])
           x == CiteEdge(r, pos[r])
<1>1. /\ TypeInv /\ pc[r] = "cite" /\ ext[r] \in Extractions /\ Props(r) = Proposed[ext[r]]
      /\ pos[r] \in DOMAIN Cited[ext[r]] /\ DOMAIN uuid[r] = DOMAIN Props(r)
  BY RunShape, ListTypes DEF RetryInv, TypeInv, InList, Cite
<1>2. IF d # 0 /\ c \in DOMAIN uuid[r] THEN Write(x) ELSE UNCHANGED edges
  BY DEF Cite, DocumentAt
<1>3. ASSUME d # 0, c \in DOMAIN uuid[r] PROVE x \in DOMAIN edges
  <2>1. /\ d \in DOMAIN Props(r) /\ c \in DOMAIN Props(r)
        /\ ~Contested(ext[r], d) /\ ~Contested(ext[r], c)
    BY <1>1, <1>3, DocumentPlace DEF Concerned, DocumentAt
  <2>2. Related(ext[r], "CITES", c, d, pos[r])
    BY <1>1 DEF InGraph
  <2>3. PICK n \in nodes, m \in nodes :
           /\ n.live /\ m.live /\ n.key = Props(r)[c].key /\ m.key = Props(r)[d].key
           /\ [type |-> "CITES", src |-> n.id, dst |-> m.id, span |-> pos[r]] \in DOMAIN edges
    BY <1>1, <2>1, <2>2 DEF Related
  <2>4. pc[r] \in {"link", "cite", "answer"}
    BY <1>1
  <2>5. n.id = uuid[r][c]
    BY <2>1, <2>3, <2>4, ActiveIsOne
  <2>6. m.id = uuid[r][d]
    BY <2>1, <2>3, <2>4, ActiveIsOne
  <2> QED
    BY <2>3, <2>5, <2>6 DEF CiteEdge, DocumentAt
<1>4. CASE d # 0 /\ c \in DOMAIN uuid[r]
  BY <1>1, <1>2, <1>3, <1>4, MergeNothing DEF TypeInv
<1> QED
  BY <1>2, <1>4

\* The whole of an approval that repeats one.
LEMMA RepeatStep ==
    ASSUME AgainInv, NEW r \in Runs, Step(r), again[r] = "approved", quiet[r],
           \A i \in Concerned(r) \intersect DOMAIN Props(r) : ~Contested(ext[r], i)
    PROVE  UNCHANGED graph
<1> USE DEF graph
<1>1. CASE pc[r] = "idle"
  BY <1>1 DEF Step, Approve, FindHash, FindName, Create, Link, Cite, Answer, Fails
<1>2. CASE pc[r] # "idle"
  <2>1. InGraph(ext[r]) /\ RetryInv
    BY <1>2, RunShape DEF AgainInv, ApprovedInGraph, RetryInv
  <2>2. CASE Link(r)
    BY <2>1, <2>2, NothingLinked DEF Link
  <2>3. CASE Cite(r)
    BY <2>1, <2>3, NothingCited DEF Cite
  <2>4. CASE Create(r)
    <3>1. pc[r] = "create" /\ pos[r] \in DOMAIN Props(r)
      BY <2>1, <2>4, RunShape DEF Create, RetryInv, TypeInv, WrittenInv, Inv, Places
    <3>2. ~Contested(ext[r], pos[r])
      BY <3>1 DEF Concerned
    <3>3. UNCHANGED nodes
      BY <2>1, <2>4, <3>1, <3>2, NothingMade, NodesChange DEF Step
    <3> QED
      BY <2>4, <3>3 DEF Create, Decide
  <2> QED
    BY <2>2, <2>3, <2>4 DEF Step, Approve, FindHash, FindName, Adopt, Resolve, Answer, Fails
<1> QED
  BY <1>1, <1>2

LEMMA RepeatsAdd ==
    ASSUME AgainInv, [Next]_vars, NEW r \in Runs, Moves(r), again[r] = "approved", quiet[r],
           \A i \in Concerned(r) \intersect DOMAIN Props(r) : ~Contested(ext[r], i)
    PROVE  UNCHANGED graph
<1>1. CASE Step(r)
  BY <1>1, RepeatStep
<1>2. ASSUME NEW q \in Runs \ {r}, Step(q) PROVE FALSE
  BY <1>2, StepWritten DEF AgainInv, RetryInv, TypeInv, Kept, Moves
<1>3. ASSUME NEW n \in nodes, Bump(n) PROVE FALSE
  BY <1>3 DEF Bump, Moves
<1>4. CASE UNCHANGED vars
  BY <1>4 DEF vars, Moves
<1> QED
  BY <1>1, <1>2, <1>3, <1>4 DEF Next

\* Approving again what was approved, with no version superseded in between, changes
\* nothing in the graph, however many other approvals run at the same time; what concerns
\* a proposal whose hash or name is contested is excepted.  Of the extractions nothing is
\* assumed.
THEOREM ReapprovalsAddNothing == Spec => ReapprovalAddsNothing
<1>1. AgainInv /\ [Next]_vars =>
        [\A r \in Runs :
           Moves(r) /\ again[r] = "approved" /\ quiet[r]
           /\ (\A i \in Concerned(r) \intersect DOMAIN Props(r) : ~Contested(ext[r], i))
             => UNCHANGED graph]_vars
  BY RepeatsAdd
<1> QED
  BY <1>1, AgainInit, AgainStep, PTL DEF Spec, ReapprovalAddsNothing
===============================================================================
