----------------------------- MODULE SchemaWalk -----------------------------
(***************************************************************************)
(* The schema check of the conformance suite (conformance/schema.rs): the  *)
(* recursive walk over a tool schema, and what it is meant to decide.      *)
(*                                                                         *)
(* A document is a tree of JSON values, its nodes numbered from the root   *)
(* down.  An edge is a schema keyword whose value has the shape the keyword*)
(* asks for ("position"), one whose value has not ("misfit"), or any other *)
(* keyword ("data").                                                       *)
(***************************************************************************)
EXTENDS SourceTypes, FiniteSets

CONSTANT Documents   \* the documents that are checked

VARIABLES
  document,
  judged       \* None, or what validate_schema_document answered

schemaVars == <<document, judged>>

Nodes(d) == DOMAIN d.kind

ChildrenOf(d, n) == {c \in Nodes(d) : d.parent[c] = n}

\* position and children: what the walk descends into.
SchemaChildren(d, n) == {c \in ChildrenOf(d, n) : d.edge[c] = "position"}

Misfit(d, n) == \E c \in ChildrenOf(d, n) : d.edge[c] = "misfit"

RECURSIVE CollectAnchors(_, _, _)
RECURSIVE Pointer(_, _, _)
RECURSIVE Walk(_, _, _, _)

\* Mutant of CollectAnchors: the anchors of embedded resources count as well.
MutAnchors(d, n, is_root) ==
  IF d.kind[n] # "object" THEN {}
  ELSE {d.anchor[n]} \cup UNION {CollectAnchors(d, c, FALSE) : c \in SchemaChildren(d, n)}

\* collect_anchors: those of one resource; an embedded one keeps its own.
CollectAnchors(d, n, is_root) ==
  IF d.kind[n] # "object" \/ (~is_root /\ d.id[n]) THEN {}
  ELSE {d.anchor[n]} \cup UNION {CollectAnchors(d, c, FALSE) : c \in SchemaChildren(d, n)}

\* External: Value::pointer, which follows any member.
Pointer(d, n, path) ==
  \/ path = <<>>
  \/ \E c \in ChildrenOf(d, n) : d.label[c] = Head(path) /\ Pointer(d, c, Tail(path))

\* Resource.
Resource(d, n) == [root |-> n, anchors |-> CollectAnchors(d, n, TRUE) \ {None}]

Resolves(d, resource, ref) ==
  CASE ref.type \in {"remote", "self"} -> TRUE
    [] ref.type = "pointer" -> Pointer(d, resource.root, ref.path)
    [] ref.type = "anchor" -> ref.name \in resource.anchors

\* check_references.
ReferencesResolve(d, n, resource) ==
  d.ref[n] = None \/ (d.ref[n].type # "no-string" /\ Resolves(d, resource, d.ref[n]))

\* walk_members and walk_member.
WalkMembers(d, n, resource) ==
  /\ ReferencesResolve(d, n, resource)
  /\ ~Misfit(d, n)
  /\ \A c \in SchemaChildren(d, n) : Walk(d, c, resource, FALSE)

Walk(d, n, resource, is_root) ==
  CASE d.kind[n] = "boolean" -> TRUE
    [] d.kind[n] = "other" -> FALSE
    [] d.kind[n] = "object" ->
         IF ~is_root /\ d.id[n] THEN WalkMembers(d, n, Resource(d, n))
         ELSE (is_root \/ ~d.schema[n]) /\ WalkMembers(d, n, resource)

ValidateSchemaDocument(d) == Walk(d, 1, Resource(d, 1), TRUE)

SchemaInit ==
  /\ document \in Documents
  /\ judged = None

Judge ==
  /\ judged = None
  /\ judged' = ValidateSchemaDocument(document)
  /\ UNCHANGED document

SchemaNext == Judge
-----------------------------------------------------------------------------
\* What the comment on validate_schema_document asks for, without a walk.

\* The nodes from the root to n.
RECURSIVE Ancestors(_, _)
Ancestors(d, n) == {n} \cup (IF n = 1 THEN {} ELSE Ancestors(d, d.parent[n]))

\* n is a schema: all keywords above it are schema keywords.
IsSchema(d, n) == \A a \in Ancestors(d, n) \ {1} : d.edge[a] = "position"

\* The nearest schema with an $id, else the document: parents have lower numbers.
ResourceRoot(d, n) ==
  LET roots == {1} \cup {a \in Ancestors(d, n) : d.id[a]}
  IN CHOOSE r \in roots : \A s \in roots : s <= r

Below(d, root, n) == root \in Ancestors(d, n)

\* The labels from root down to n.
RECURSIVE LabelPath(_, _, _)
LabelPath(d, root, n) ==
  IF n = root THEN <<>> ELSE Append(LabelPath(d, root, d.parent[n]), d.label[n])

Consistent(d) ==
  \A n \in {n \in Nodes(d) : IsSchema(d, n)} :
    LET root == ResourceRoot(d, n)
        ref == d.ref[n]
    IN /\ d.kind[n] # "other"
       /\ ~Misfit(d, n)
       /\ d.schema[n] => n \in {1, root}
       /\ ref = None \/ CASE ref.type = "no-string" -> FALSE
                             [] ref.type = "pointer" ->
                                  \E m \in Nodes(d) : Below(d, root, m)
                                                      /\ LabelPath(d, root, m) = ref.path
                             [] ref.type = "anchor" ->
                                  \E m \in Nodes(d) : /\ IsSchema(d, m)
                                                      /\ ResourceRoot(d, m) = root
                                                      /\ d.anchor[m] = ref.name
                             [] OTHER -> TRUE

\* validate_schema_document accepts a schema exactly when "every schema position
\* holds a schema, $schema appears only on a resource root, and every local
\* reference resolves inside its own resource" (conformance/schema.rs:48-50),
\* embedded resources with anchors, pointers and $ids of their own included.
WalkCorrect == judged # None => judged = Consistent(document)
=============================================================================
