------------------------------ MODULE Materialize ------------------------------
(***************************************************************************)
(* Approving an extraction: POST /regulations/{slug}/approve and the five   *)
(* phases of materialize(), each Cypher statement committed on its own,     *)
(* with several approvals at once, approvals that break off and are         *)
(* repeated, and apply_bulletin superseding what a bulletin overrides.      *)
(*                                                                         *)
(* A proposal is known by its place in the extraction, which stands for its *)
(* temp_id.  Of a node only its identity (type and name), its content hash, *)
(* the node it refers to and whether it is superseded are kept.             *)
(***************************************************************************)
EXTENDS Naturals, Sequences, FiniteSets

CONSTANTS
    Runs,           \* request threads that approve
    Keys,           \* identities of nodes, each a type and a name
    Documents,      \* the keys of type RegulationDocument
    Exempt,         \* keys of the types apply_bulletin does not supersede
    ParserTypes,    \* keys of the types only the parser may propose ...
    ParserOwned,    \* ... for these extractions
    Extractions,    \* cached extractions
    Proposed,       \* their proposals, in order
    Links,          \* their proposed relationships, in order
    Cited,          \* the proposals their citations are about, in order
    Seeded          \* nodes scripts.seed created, with random ids

NoRef == 0

\* uuid5 over type and name: a function of the key, and of nothing else
NodeId(k) == <<"uuid5", k>>
Ids == {"uuid5", "seed"} \X Keys

Node == [id : Ids, key : Keys, hash : STRING, ref : Ids \union {<<>>}, live : BOOLEAN,
         by : Extractions \union {"seed"}]
\* relationships are of the proposed types, citations of their own
EdgeType ==
    {"CITES"} \union UNION {{Links[e][i].type : i \in DOMAIN Links[e]} : e \in Extractions}
Edge == [type : EdgeType, src : Ids, dst : Ids, span : Nat]

\* A proposal has a hash of its own (hashed) or, if it is a document, one made from its
\* temp_id; ref is the proposal it refers to; valid says whether the rest of it converts.
Proposal == [key : Keys, hash : STRING, hashed : BOOLEAN, ref : Nat, valid : BOOLEAN]

ASSUME MaterializeAssumption ==
    /\ Documents \subseteq Keys /\ Documents \subseteq Exempt
    /\ Extractions # {}
    /\ \A e \in Extractions :
         /\ Proposed[e] # <<>>
         /\ Proposed[e] \in Seq(Proposal)
         /\ Links[e] \in Seq([type : STRING, src : Nat, dst : Nat])
         /\ Cited[e] \in Seq(Nat)
    /\ "seed" \notin Extractions
    /\ \A n \in Seeded : n \in Node /\ n.id = <<"seed", n.key>> /\ n.live /\ n.by = "seed"
    /\ \A n, m \in Seeded : n.key = m.key => n = m

VARIABLES
    nodes,      \* nodes of the graph
    edges,      \* how many parallel relationships it has of each kind
    pc,         \* phase of each approval; the two lookups of the first apart
    ext,        \* the extraction it approves
    pos,        \* its place in the list of the phase
    uuid,       \* ids of the proposals resolved so far
    plan,       \* what is done with each of them
    history,    \* history: was the extraction approved, and was a version bumped since
    again,      \* history: what history said when the approval began
    quiet       \* history: no version was bumped since it began

graph == <<nodes, edges>>
vars == <<nodes, edges, pc, ext, pos, uuid, plan, history, again, quiet>>
local == <<ext, uuid, history, again, quiet>>

PC == {"idle", "hash", "name", "create", "link", "cite", "answer"}
Plan == {"found", "dup", "new", "made", "skipped"}
History == {"first", "approved", "bumped"}
None == CHOOSE e \in Extractions : TRUE

TypeOK ==
    /\ nodes \subseteq Node
    /\ DOMAIN edges \subseteq Edge /\ \A x \in DOMAIN edges : edges[x] \in Nat
    /\ pc \in [Runs -> PC]
    /\ ext \in [Runs -> Extractions]
    /\ pos \in [Runs -> Nat]
    /\ \A r \in Runs : /\ uuid[r] \in Seq(Ids)
                       /\ plan[r] \in Seq(Plan)
                       /\ Len(plan[r]) = Len(uuid[r])
    /\ history \in [Extractions -> History]
    /\ again \in [Runs -> History]
    /\ quiet \in [Runs -> BOOLEAN]

Init ==
    /\ nodes = Seeded
    /\ edges = <<>>
    /\ pc = [r \in Runs |-> "idle"]
    /\ ext = [r \in Runs |-> None]
    /\ pos = [r \in Runs |-> 1]
    /\ uuid = [r \in Runs |-> <<>>]
    /\ plan = [r \in Runs |-> <<>>]
    /\ history = [e \in Extractions |-> "first"]
    /\ again = [r \in Runs |-> "first"]
    /\ quiet = [r \in Runs |-> TRUE]

-----------------------------------------------------------------------------
Props(r) == Proposed[ext[r]]

\* the list the current phase goes through, and the next phase with something to do
Work(r) == IF pc[r] = "link" THEN Links[ext[r]]
           ELSE IF pc[r] = "cite" THEN Cited[ext[r]] ELSE Props(r)
After(r) == IF pc[r] \in {"hash", "name"} THEN "create"
            ELSE IF pc[r] = "create" /\ Links[ext[r]] # <<>> THEN "link"
            ELSE IF pc[r] # "cite" /\ Cited[ext[r]] # <<>> THEN "cite" ELSE "answer"

Goto(r, p) == pc' = [pc EXCEPT ![r] = p]

\* on to the next entry of the list (in phase p), or to the next phase
Advance(r, p) ==
    IF pos[r] < Len(Work(r)) THEN pos' = [pos EXCEPT ![r] = @ + 1] /\ Goto(r, p)
    ELSE pos' = [pos EXCEPT ![r] = 1] /\ Goto(r, After(r))

\* mutant: what was planned is left to the next request
EndKeepsPlan(r) ==
    /\ Goto(r, "idle")
    /\ ext' = [ext EXCEPT ![r] = None]
    /\ pos' = [pos EXCEPT ![r] = 1]
    /\ uuid' = [uuid EXCEPT ![r] = <<>>]
    /\ again' = [again EXCEPT ![r] = "first"]
    /\ quiet' = [quiet EXCEPT ![r] = TRUE]
    /\ UNCHANGED plan

\* the request ends and its locals with it
End(r) ==
    /\ Goto(r, "idle")
    /\ ext' = [ext EXCEPT ![r] = None]
    /\ pos' = [pos EXCEPT ![r] = 1]
    /\ uuid' = [uuid EXCEPT ![r] = <<>>]
    /\ plan' = [plan EXCEPT ![r] = <<>>]
    /\ again' = [again EXCEPT ![r] = "first"]
    /\ quiet' = [quiet EXCEPT ![r] = TRUE]

\* the parser boundary: 400 before anything is read or written
Refused(e) ==
    e \in ParserOwned /\ \E i \in DOMAIN Proposed[e] : Proposed[e][i].key \in ParserTypes

Approve(r, e) ==
    /\ pc[r] = "idle" /\ ~Refused(e)
    /\ Goto(r, "hash")
    /\ ext' = [ext EXCEPT ![r] = e]
    /\ again' = [again EXCEPT ![r] = history[e]]
    /\ UNCHANGED <<graph, pos, uuid, plan, history, quiet>>

-----------------------------------------------------------------------------
(* Phase 1: _resolve_temp_ids                                              *)

Resolve(r, id, how) ==
    /\ uuid' = [uuid EXCEPT ![r] = Append(@, id)]
    /\ plan' = [plan EXCEPT ![r] = Append(@, how)]
    /\ Advance(r, "hash")
    /\ UNCHANGED <<graph, ext, history, again, quiet>>

\* a proposal that is there already takes the id it has there
Adopt(r, n) == Resolve(r, n.id, "found")

WithHash(p) == {n \in nodes : p.hashed /\ n.key \in Documents /\ n.hash = p.hash}

FindHash(r) ==
    /\ pc[r] = "hash"
    /\ LET p == Props(r)[pos[r]] IN
         \/ \E n \in WithHash(p) : Adopt(r, n)
         \/ WithHash(p) = {} /\ Goto(r, "name")
              /\ UNCHANGED <<graph, pos, plan, local>>

\* mutant: looked up by the id made from the name
ExistingById(k) == {n \in nodes : n.id = NodeId(k)}

\* find_existing_by_name: superseded versions are not looked at
Existing(k) == {n \in nodes : n.key = k /\ n.live}

\* an earlier proposal of the extraction that is to create the same node
Earlier(r) == {i \in 1..(pos[r] - 1) : plan[r][i] = "new"
                                       /\ Props(r)[i].key = Props(r)[pos[r]].key}

FindName(r) ==
    /\ pc[r] = "name"
    /\ LET k == Props(r)[pos[r]].key IN
         \/ \E n \in Existing(k) : Adopt(r, n)
         \/ /\ Existing(k) = {}
            /\ \/ \E i \in Earlier(r) : Resolve(r, uuid[r][i], "dup")
               \/ Earlier(r) = {} /\ Resolve(r, NodeId(k), "new")

-----------------------------------------------------------------------------
(* Phase 2: proposed_to_typed_node and create_node                         *)

\* a reference has to be to one of the proposals
Converts(r, p) == p.valid /\ (p.ref = NoRef \/ p.ref \in DOMAIN uuid[r])

\* node_id_unique and document_hash_unique
Unique(id, p) ==
    \A n \in nodes : /\ n.id # id
                     /\ ~(p.key \in Documents /\ n.key \in Documents /\ n.hash = p.hash)

Decide(r, how) ==
    /\ plan' = [plan EXCEPT ![r][pos[r]] = how]
    /\ Advance(r, "create")
    /\ UNCHANGED <<edges, local>>

\* mutant: the reference is made from the name of what it refers to
NewByName(r, p) ==
    [id |-> uuid[r][pos[r]], key |-> p.key, hash |-> p.hash,
     ref |-> IF p.ref \in DOMAIN uuid[r] THEN NodeId(Props(r)[p.ref].key) ELSE <<>>,
     live |-> TRUE, by |-> ext[r]]

New(r, p) ==
    [id |-> uuid[r][pos[r]], key |-> p.key, hash |-> p.hash,
     ref |-> IF p.ref \in DOMAIN uuid[r] THEN uuid[r][p.ref] ELSE <<>>,
     live |-> TRUE, by |-> ext[r]]

\* found and duplicate proposals are passed over, a ValueError skips the proposal, a
\* violated constraint ends the request
Create(r) ==
    /\ pc[r] = "create"
    /\ LET p == Props(r)[pos[r]] IN
         IF plan[r][pos[r]] # "new" THEN
              Advance(r, "create") /\ UNCHANGED <<graph, plan, local>>
         ELSE IF ~Converts(r, p) THEN Decide(r, "skipped") /\ UNCHANGED nodes
         ELSE IF Unique(uuid[r][pos[r]], p) THEN
              nodes' = nodes \union {New(r, p)} /\ Decide(r, "made")
         ELSE End(r) /\ UNCHANGED <<graph, history>>

-----------------------------------------------------------------------------
(* Phases 3 to 5: relationships, citations, answer                         *)

There(id) == \E n \in nodes : n.id = id

\* mutant: CREATE, which adds a parallel relationship
AddEdge(x) == edges' = [y \in DOMAIN edges \union {x} |->
                          IF y = x /\ x \in DOMAIN edges THEN edges[y] + 1
                          ELSE IF y = x THEN 1 ELSE edges[y]]

\* MERGE
MergeEdge(x) == edges' = [y \in DOMAIN edges \union {x} |->
                            IF y \in DOMAIN edges THEN edges[y] ELSE 1]

\* MATCH of both ends, MERGE of the relationship; without both nothing is written
Write(x) == IF There(x.src) /\ There(x.dst) THEN MergeEdge(x) ELSE UNCHANGED edges

\* mutant: only proposals that this approval creates are linked
LinkedNew(r, l) == {l.src, l.dst} \subseteq {i \in DOMAIN plan[r] : plan[r][i] = "made"}

\* both temp_ids are known
Linked(r, l) == {l.src, l.dst} \subseteq DOMAIN uuid[r]
LinkEdge(r, l) == [type |-> l.type, src |-> uuid[r][l.src], dst |-> uuid[r][l.dst], span |-> 0]

Link(r) ==
    /\ pc[r] = "link"
    /\ LET l == Links[ext[r]][pos[r]] IN
         IF Linked(r, l) THEN Write(LinkEdge(r, l)) ELSE UNCHANGED edges
    /\ Advance(r, "link")
    /\ UNCHANGED <<nodes, plan, local>>

\* the first document with a hash, else the first document
DocumentOf(e) ==
    LET docs == {i \in DOMAIN Proposed[e] : Proposed[e][i].key \in Documents}
        hashed == {i \in docs : Proposed[e][i].hashed}
        First(S) == CHOOSE i \in S : \A j \in S : i <= j
    IN  IF hashed # {} THEN First(hashed) ELSE IF docs # {} THEN First(docs) ELSE 0
DocumentAt(r) == DocumentOf(ext[r])

\* a citation goes from its proposal to the document; its span tells it from others
CiteEdge(r, i) == [type |-> "CITES", src |-> uuid[r][Cited[ext[r]][i]],
                   dst |-> uuid[r][DocumentAt(r)], span |-> i]

Cite(r) ==
    /\ pc[r] = "cite"
    /\ IF DocumentAt(r) # 0 /\ Cited[ext[r]][pos[r]] \in DOMAIN uuid[r]
       THEN Write(CiteEdge(r, pos[r])) ELSE UNCHANGED edges
    /\ Advance(r, "cite")
    /\ UNCHANGED <<nodes, plan, local>>

\* the snapshot is written and the approval answered
Answer(r) ==
    /\ pc[r] = "answer"
    /\ history' = [history EXCEPT ![ext[r]] = IF quiet[r] THEN "approved" ELSE "bumped"]
    /\ End(r)
    /\ UNCHANGED graph

-----------------------------------------------------------------------------
\* a statement raises or the API stops: the request ends where it is
Fails(r) ==
    /\ pc[r] # "idle"
    /\ End(r)
    /\ UNCHANGED <<graph, history>>

Overridden(n) == \E x \in DOMAIN edges : x.type = "OVERRIDES" /\ x.dst = n.id

\* one statement of apply_bulletin --all, which may stop after any of them
Bump(n) ==
    /\ n.live /\ n.key \notin Exempt /\ Overridden(n)
    /\ nodes' = (nodes \ {n}) \union {[n EXCEPT !.live = FALSE]}
    /\ history' = [e \in Extractions |-> IF history[e] = "first" THEN "first" ELSE "bumped"]
    /\ quiet' = [r \in Runs |-> pc[r] = "idle"]
    /\ UNCHANGED <<edges, pc, ext, pos, uuid, plan, again>>

Step(r) ==
    \/ \E e \in Extractions : Approve(r, e)
    \/ FindHash(r) \/ FindName(r) \/ Create(r) \/ Link(r) \/ Cite(r)
    \/ Answer(r) \/ Fails(r)

Next == (\E r \in Runs : Step(r)) \/ (\E n \in nodes : Bump(n))

Spec == Init /\ [][Next]_vars
-----------------------------------------------------------------------------
(* Properties.                                                             *)

\* At most one version of a node is active, whatever approvals overlap, break off, are
\* repeated or reuse what was seeded ("no duplicate"; find_existing_by_name and the
\* deterministic ids together).
OneActiveVersion ==
    \A n, m \in nodes : n.key = m.key /\ n.live /\ m.live => n = m

\* A proposal that has its node: it was found or made, or repeats one that was.
Placed(r, i) ==
    /\ i \in DOMAIN uuid[r]
    /\ \E j \in 1..i : plan[r][j] \in {"found", "made"} /\ uuid[r][j] = uuid[r][i]

\* An approval that answers has put into the graph what the extraction proposes: the
\* node of every proposal it did not skip, every relationship and citation among them.
AnswerIsInGraph ==
    \A r \in Runs : pc[r] = "answer" =>
      LET links == Links[ext[r]]
          cited == Cited[ext[r]]
      IN  /\ \A i \in DOMAIN uuid[r] : Placed(r, i) => There(uuid[r][i])
          /\ \A i \in DOMAIN links :
               Placed(r, links[i].src) /\ Placed(r, links[i].dst)
                 => LinkEdge(r, links[i]) \in DOMAIN edges
          /\ \A i \in DOMAIN cited :
               Placed(r, cited[i]) /\ Placed(r, DocumentAt(r))
                 => CiteEdge(r, i) \in DOMAIN edges

\* not for lack of a field, nor for a reference to no proposal
Convertible(e, i) ==
    LET p == Proposed[e][i]
    IN  p.valid /\ (p.ref = NoRef \/ p.ref \in DOMAIN Proposed[e])

\* A proposal that may not become a node of its name: a document of another name has its
\* hash, or a proposal of that name does not convert (it is skipped, and those that
\* repeat it with it).
Contested(e, i) ==
    \/ \E n \in WithHash(Proposed[e][i]) : n.key # Proposed[e][i].key
    \/ \E j \in DOMAIN Proposed[e] :
         Proposed[e][j].key = Proposed[e][i].key /\ ~Convertible(e, j)

\* When an approval answers and no version was bumped meanwhile, no node of its extraction
\* refers to a node that does not exist, also not one that an earlier, broken-off approval
\* left: the retry repairs it; unless it refers to a proposal that is contested.
RetryRepairs ==
    \A r \in Runs : pc[r] = "answer" /\ quiet[r] =>
      \A n \in nodes : n.by = ext[r] =>
        \/ n.ref = <<>> \/ There(n.ref)
        \/ \E i \in DOMAIN Props(r) : n.ref = NodeId(Props(r)[i].key) /\ Contested(ext[r], i)

\* the proposals the current step is about
Concerned(r) ==
    CASE pc[r] = "create" -> {pos[r]}
      [] pc[r] = "link"   -> {Links[ext[r]][pos[r]].src, Links[ext[r]][pos[r]].dst}
      [] pc[r] = "cite"   -> {Cited[ext[r]][pos[r]], DocumentAt(r)}
      [] OTHER            -> {}

\* Approving again what was approved, with no version bumped in between, changes nothing
\* in the graph ("re-running with the same extraction yields zero new nodes/edges"), but
\* for what concerns a contested proposal.
Moves(r) == <<pc[r], pos[r]>>' # <<pc[r], pos[r]>>
ReapprovalAddsNothing ==
    [][\A r \in Runs :
         Moves(r) /\ again[r] = "approved" /\ quiet[r]
         /\ (\A i \in Concerned(r) \intersect DOMAIN Props(r) : ~Contested(ext[r], i))
           => UNCHANGED graph]_vars
===============================================================================
