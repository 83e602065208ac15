---------------------------- MODULE ImportGraph ----------------------------
(***************************************************************************)
(* The expansion of collections that name collections                      *)
(* (src/src/config/import_graph.rs): documents are read depth first, from  *)
(* the configuration file on, through redirects, cycles, failing reads and *)
(* the rule that a remote document stays on its own origin.                *)
(*                                                                         *)
(* The sources a document names besides collections, and the defaults they *)
(* inherit, are left out; the order in which it names its collections is   *)
(* any order.                                                              *)
(***************************************************************************)
EXTENDS Naturals, Sequences, FiniteSets

CONSTANTS
  Document, Root,    \* documents by location; the configuration file
  home,              \* the origin of each, Local for a file
  Local,
  MaxDepth,          \* MAX_COLLECTION_DEPTH
  MaxDocuments,      \* MAX_SOURCE_DOCUMENTS
  MaxEdges,          \* bound: collections named in all
  MaxFailures        \* bound: reads that fail

GraphAssumption ==
  /\ Root \in Document /\ home[Root] = Local
  /\ {MaxDepth, MaxDocuments, MaxEdges, MaxFailures} \subseteq Nat

VARIABLES
  names, moved,      \* the documents: what each names, where each redirects
  allowChains,       \* [fetch] allow_remote_source_chains
  stack,             \* expand_sources calls: document, targets left
  seen, documents,   \* Loader
  entered,           \* the documents expanded, in order
  cut, failures      \* something was left out; bound

graphVars == <<names, moved, allowChains>>
expandVars == <<graphVars, stack, seen, documents, entered, cut, failures>>

Remote(d) == home[d] # Local
Edges == UNION {{<<d, t>> : t \in names[d]} : d \in Document}

Init ==
  /\ names \in [Document -> SUBSET Document]
  /\ Cardinality(Edges) <= MaxEdges
  /\ moved \in [Document -> Document]
  /\ \A d \in Document :
       /\ moved[moved[d]] = moved[d]
       /\ moved[d] # d => Remote(d) /\ Remote(moved[d])
  /\ Cardinality({d \in Document : moved[d] # d}) <= 1
  /\ allowChains \in BOOLEAN
  /\ stack = <<[at |-> Root, left |-> names[Root]]>>
  /\ seen = {Root} /\ documents = 0
  /\ entered = <<Root>>
  /\ cut = FALSE /\ failures = 0

\* Local documents are trusted; a remote one stays where it is, or among
\* remote ones if the reader allows chains.
ChainAllowed(declaring, target) ==
  ~Remote(declaring) \/ allowChains \/ home[declaring] = home[target]
Vetoed(declaring, target) ==
  \/ Remote(declaring) /\ ~Remote(target)
  \/ ~ChainAllowed(declaring, target)

Top == stack[Len(stack)]
Rest(target) == [stack EXCEPT ![Len(stack)].left = @ \ {target}]
Depth == Len(stack) - 1

Skip(target) == stack' = Rest(target) /\ UNCHANGED <<seen, entered>>

\* Mutant: a redirect to a collection already expanded is followed.
Renamed(target) == target \in seen
Repeated(target) == moved[target] \in seen

\* Mutant: the depth limit is off by one.
OneDeeper == Depth > MaxDepth
TooDeep == Depth >= MaxDepth

\* One target of the document on top; its own targets come next.
Visit(target) ==
  /\ target \in Top.left
  /\ Vetoed(Top.at, target) \/ documents < MaxDocuments
  /\ IF Vetoed(Top.at, target) \/ target \in seen
     THEN Skip(target) /\ UNCHANGED <<documents, cut>>
     ELSE /\ documents' = documents + 1
          /\ \/ /\ Repeated(target) \/ ~ChainAllowed(Top.at, moved[target])
                /\ Skip(target) /\ UNCHANGED cut
             \/ /\ ~Repeated(target) /\ TooDeep
                /\ Skip(target) /\ cut' = TRUE
             \/ /\ ~Repeated(target) /\ ~TooDeep
                /\ ChainAllowed(Top.at, moved[target])
                /\ seen' = seen \cup {target, moved[target]}
                /\ entered' = Append(entered, moved[target])
                /\ stack' = Append(Rest(target),
                     [at |-> moved[target], left |-> names[moved[target]]])
                /\ UNCHANGED cut
  /\ UNCHANGED <<graphVars, failures>>

\* A document that cannot be read is left out with a warning.
ReadFails(target) ==
  /\ target \in Top.left \ seen /\ ~Vetoed(Top.at, target)
  /\ documents < MaxDocuments /\ failures < MaxFailures
  /\ documents' = documents + 1 /\ failures' = failures + 1
  /\ Skip(target) /\ cut' = TRUE
  /\ UNCHANGED graphVars

\* At the limit each call returns what it has.
Exhausted ==
  /\ documents >= MaxDocuments
  /\ \E t \in Top.left : ~Vetoed(Top.at, t)
  /\ stack' = SubSeq(stack, 1, Len(stack) - 1) /\ cut' = TRUE
  /\ UNCHANGED <<graphVars, seen, documents, entered, failures>>

Return ==
  /\ Top.left = {}
  /\ stack' = SubSeq(stack, 1, Len(stack) - 1)
  /\ UNCHANGED <<graphVars, seen, documents, entered, cut, failures>>

Next ==
  /\ stack # <<>>
  /\ Exhausted \/ Return \/ \E t \in Document : Visit(t) \/ ReadFails(t)

Spec == Init /\ [][Next]_expandVars

-----------------------------------------------------------------------------

TypeOK ==
  /\ stack \in Seq([at : Document, left : SUBSET Document])
  /\ Len(stack) <= MaxDepth + 1
  /\ seen \subseteq Document /\ documents \in 0..MaxDocuments
  /\ entered \in Seq(Document) /\ cut \in BOOLEAN
  /\ failures \in 0..MaxFailures

\* What a document may name and is followed to, redirects included.
Leads(d, u) ==
  u \in names[d] /\ ~Vetoed(d, u) /\ ChainAllowed(d, moved[u])

\* In every set with the configuration file and all that its members lead to.
Reachable ==
  {c \in Document : \A S \in SUBSET Document :
     /\ Root \in S
     /\ \A d \in S, u \in Document : Leads(d, u) => moved[u] \in S
     => c \in S}

\* Every collection that may be reached is expanded once, whatever the cycles,
\* the redirects and the order of the names; nothing else is, and less only
\* when a read failed or a limit was met.
ExpandsReachable ==
  /\ \A i, j \in DOMAIN entered : entered[i] = entered[j] => i = j
  /\ {entered[i] : i \in DOMAIN entered} \subseteq Reachable
  /\ stack = <<>> /\ ~cut => Reachable \subseteq {entered[i] : i \in DOMAIN entered}
=============================================================================
