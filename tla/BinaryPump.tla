------------------------------ MODULE BinaryPump ------------------------------
(* One Avro object through the typed pump: the schemas are fixed first (plan,
   output_schema, plan_restore), then each record is reduced, its targets are
   replaced by envelopes or by the redaction mark, and it is restored and
   appended to an output that exists only when every record has passed.

   The pump is generic in its reductor.  The gateway runs it with the built-in
   one; the WebAssembly one is there for codecs with custom logical types, which
   Avro's schemas do not have, and is driven here as its own tests drive it.

   A schema is the function from its paths to its nodes, a value the function
   from its own paths, in which a repeated segment carries an index, to what is
   stored there.  Segments are numbers in the order segment_sort_key gives them:
   the fields by name, then array element, map value and logical value. *)
EXTENDS Naturals, Sequences, SequencesExt, FiniteSets

CONSTANTS
  Schemas,        \* the schemas of objects, and of a guest's answers
  Values,         \* the records of objects, and of a guest's answers
  TargetLists,    \* the lists x-maskura-encrypt-fields may name
  ClaimSets,      \* the claims a guest may return
  MaxDepth,       \* max_nesting_depth
  MaxClaims,      \* max_claims
  MaxNodes,       \* max_schema_ir_bytes and max_value_ir_bytes, counted in nodes
  MaxRecords      \* records of one object

ArrayElement == 100
MapValue     == 101
LogicalValue == 102
Envelope     == 10 .. 14     \* the fields alg, iv, enc_dek, ct and tag

VARIABLES
  job,       \* the reductor, the source schema, the targets and the key
  plans,     \* the reduction and the restoration the pump holds, or NoPlans
  input,     \* the records still to come
  output     \* how far the conversion is, and the records written

pumpVars == <<job, plans, input, output>>

NoPlans == [owner |-> "none"]

-----------------------------------------------------------------------------
(* Paths *)

\* compare_paths, which the derived order of the runtime's segments agrees with.
PathLess(p, q) ==
  \/ IsStrictPrefix(p, q)
  \/ \E k \in DOMAIN p \cap DOMAIN q :
       SubSeq(p, 1, k - 1) = SubSeq(q, 1, k - 1) /\ p[k] < q[k]

\* sort_by, then a look at each pair of neighbours only.  An equal path is its
\* neighbour's prefix.
Canonicalize(paths) ==
  LET sorted == SortSeq(paths, PathLess) IN
  \A k \in 1 .. Len(sorted) - 1 : ~ IsPrefix(sorted[k], sorted[k + 1])

\* path_is_prefix, for any of a set of owned paths.
Owned(owned, p) == \E c \in owned : IsPrefix(c, p)

\* The children a node requires, as the segments that follow its path.
Children(node) ==
  CASE node.kind = "record" -> Range(node.fields)
    [] node.kind = "array"  -> {ArrayElement}
    [] node.kind = "map"    -> {MapValue}
    [] node.kind = "custom" -> {LogicalValue}
    [] OTHER                -> {}

\* SchemaIr::validate: a tree with one node per path, of bounded depth.
ValidSchema(s) ==
  /\ <<>> \in DOMAIN s
  /\ \A p \in DOMAIN s :
       /\ Len(p) <= MaxDepth
       /\ ~ (s[p].nullable /\ s[p].kind = "null")
       /\ \A c \in Children(s[p]) : Append(p, c) \in DOMAIN s
       /\ p # <<>> => Front(p) \in DOMAIN s /\ Last(p) \in Children(s[Front(p)])

\* The schema path of a value path.
Unindexed(v) == [k \in DOMAIN v |-> v[k][1]]

\* The segments that follow path v in value u.
Below(u, v) == {w[Len(w)] : w \in {w \in DOMAIN u : Len(w) = Len(v) + 1 /\ IsPrefix(v, w)}}

\* ValueIr::validate against a schema.
Conforms(u, s) ==
  /\ <<>> \in DOMAIN u
  /\ \A v \in DOMAIN u :
       LET p == Unindexed(v) IN
       /\ v # <<>> => Front(v) \in DOMAIN u
       /\ p \in DOMAIN s
       /\ \/ u[v].kind = "null" /\ (s[p].nullable \/ s[p].kind = "null") /\ Below(u, v) = {}
          \/ /\ u[v].kind = s[p].kind /\ u[v].type = s[p].type
             /\ s[p].kind \in {"record", "custom"} =>
                  Below(u, v) = {<<c, 0>> : c \in Children(s[p])}

-----------------------------------------------------------------------------
(* The transform: EnvelopeBinaryTransform *)

EnvelopeNode(nullable) ==
  [kind |-> "record", nullable |-> nullable, fields |-> SetToSortSeq(Envelope, <), type |-> "none"]

StringNode == [kind |-> "string", nullable |-> FALSE, fields |-> <<>>, type |-> "none"]

\* replace_schema_at_path, for the targets in turn; they do not overlap.
Enveloped(s, targets) ==
  LET leaves == {Append(t, f) : t \in targets, f \in Envelope} IN
  [p \in DOMAIN s \cup leaves |->
     IF p \in targets THEN EnvelopeNode(s[p].nullable)
     ELSE IF p \in leaves THEN StringNode ELSE s[p]]

TargetsFit(s, targets) == \A t \in targets : t \in DOMAIN s /\ s[t].kind = "string"

\* output_schema; without a public key the schema stays as it is.
OutputSchema(s) == IF job.key THEN Enveloped(s, job.targets) ELSE s

Text(t) == [kind |-> "string", type |-> "none", text |-> t]
EnvelopeValue == [kind |-> "record", type |-> "none", text |-> "none"]

\* Mutant: the walk stops at the first element of an array.
HitsFirstItem(u) ==
  {v \in DOMAIN u :
     /\ Unindexed(v) \in job.targets /\ u[v].kind # "null"
     /\ \A k \in DOMAIN v : v[k][2] <= 1}

\* The value paths that lead to a target, and those where the walk to one ends
\* early: at a null on the way.
Hits(u) == {v \in DOMAIN u : Unindexed(v) \in job.targets /\ u[v].kind # "null"}
CutShort(u) ==
  \E v \in DOMAIN u, t \in job.targets :
    u[v].kind = "null" /\ IsStrictPrefix(Unindexed(v), t)

\* transform_values_at_path: encrypt_string, or the redaction mark.
Transformed(u) ==
  LET hits   == Hits(u)
      leaves == {Append(v, <<f, 0>>) : v \in hits, f \in Envelope} IN
  IF ~ job.key THEN [v \in DOMAIN u |-> IF v \in hits THEN Text("redacted") ELSE u[v]]
  ELSE [v \in DOMAIN u \cup leaves |->
          IF v \in hits THEN EnvelopeValue ELSE IF v \in leaves THEN Text("cipher") ELSE u[v]]

-----------------------------------------------------------------------------
(* The reductors *)

\* reject_unclaimed_custom_nodes
NoUnclaimedCustom(s, claims) ==
  \A p \in DOMAIN s : s[p].kind = "custom" => Owned(claims, p)

\* validate_claims_against_schema
ClaimsFit(s, claims) ==
  \A c \in claims :
    /\ c.path \in DOMAIN s
    /\ s[c.path].kind \in {"custom", "record"}
    /\ s[c.path].kind = "custom" => s[c.path].type = c.type

\* ensure_schema_changes_are_claimed: the walk stops at a claim, and demands the
\* same node, hence the same children, everywhere else.
ChangesClaimed(s, t, owned) ==
  \A p \in DOMAIN s : ~ Owned(owned, p) => p \in DOMAIN t /\ t[p] = s[p]

\* validate_claims of the runtime: their number, depth and overlap.
ClaimsWithinLimits(claims) ==
  /\ Cardinality(claims) <= MaxClaims
  /\ \A c \in claims : Len(c.path) <= MaxDepth /\ c.type # "none"
  /\ Canonicalize(SetToSeq({c.path : c \in claims}))
  /\ Cardinality({c.path : c \in claims}) = Cardinality(claims)

\* validate_ir_bytes, on what goes to a guest and on what comes back.
WithinIrBytes(ir) == Cardinality(DOMAIN ir) <= MaxNodes

\* What the sessions of the runtime let through of a guest's answers.
GuestPlans(source) ==
  IF ~ WithinIrBytes(source) THEN {}
  ELSE {a \in [claims : ClaimSets, reduced : Schemas] :
          WithinIrBytes(a.reduced) /\ ClaimsWithinLimits(a.claims)}

GuestSchemas(source, transformed) ==
  IF ~ (WithinIrBytes(source) /\ WithinIrBytes(transformed)) THEN {}
  ELSE {s \in Schemas \cup {OutputSchema(s) : s \in {s \in Schemas : TargetsFit(s, job.targets)}} :
          WithinIrBytes(s)}

GuestReduced(u) == IF WithinIrBytes(u) THEN {w \in Values : WithinIrBytes(w)} ELSE {}

GuestRestored(u) ==
  IF WithinIrBytes(u)
  THEN {w \in {u} \cup Values \cup {Transformed(w) : w \in Values} : WithinIrBytes(w)} ELSE {}

\* CommonTypeBinaryReductor::plan, which owns nothing.
PlanCommon ==
  /\ NoUnclaimedCustom(job.schema, {})
  /\ plans' = [owner |-> "common", source |-> job.schema, reduced |-> job.schema, claims |-> {},
               transformed |-> <<>>, output |-> <<>>]

\* WasmBinaryReductor::plan
PlanWasm ==
  \E answer \in GuestPlans(job.schema) :
    LET owned == {c.path : c \in answer.claims} IN
    /\ ClaimsFit(job.schema, answer.claims)
    /\ ValidSchema(answer.reduced)
    /\ ChangesClaimed(job.schema, answer.reduced, owned)
    /\ plans' = [owner |-> "wasm", source |-> job.schema, reduced |-> answer.reduced, claims |-> owned,
                 transformed |-> <<>>, output |-> <<>>]

\* plan_restore of the two, on the transformed schema.
RestoreCommon(t) ==
  /\ NoUnclaimedCustom(t, plans.claims)
  /\ plans' = [plans EXCEPT !.transformed = t, !.output = t]

RestoreWasm(t) ==
  \E out \in GuestSchemas(plans.source, t) :
    /\ ValidSchema(out)
    /\ ChangesClaimed(t, out, plans.claims)
    /\ plans' = [plans EXCEPT !.transformed = t, !.output = out]

\* reduce and restore: the identity, or what the guest returns, if it conforms
\* to the schema it planned.  A plan of another reductor is refused (ensure_owner).
Reduced(u) ==
  IF plans.owner # job.reductor THEN {}
  ELSE IF job.reductor = "common" THEN {u} ELSE {w \in GuestReduced(u) : Conforms(w, plans.reduced)}

Restored(u) ==
  IF plans.owner # job.reductor THEN {}
  ELSE IF job.reductor = "common" THEN {u} ELSE {w \in GuestRestored(u) : Conforms(w, plans.output)}

-----------------------------------------------------------------------------
(* process_ocf *)

\* avro_pump: the targets and the key of the request; an Avro schema.
PumpInit ==
  /\ \E reductor \in {"common", "wasm"}, key \in BOOLEAN, schema \in Schemas, targets \in TargetLists :
       /\ ValidSchema(schema)
       /\ \E sent \in SeqOf({u \in Values : Conforms(u, schema)}, MaxRecords) :
            /\ job = [reductor |-> reductor, key |-> key, schema |-> schema, list |-> targets,
                      targets |-> Range(targets), sent |-> sent]
            /\ input = sent
  /\ plans = NoPlans
  /\ output = [at |-> "new", records |-> <<>>]

At(a) == output.at = a
GoTo(a) == output' = [output EXCEPT !.at = a]

\* EnvelopeBinaryTransform::new, then BinaryPump::plan up to the reduction.
PlanReduction ==
  /\ At("new") /\ Canonicalize(job.list)
  /\ IF job.reductor = "common" THEN PlanCommon ELSE PlanWasm
  /\ GoTo("reduced") /\ UNCHANGED <<job, input>>

\* schema_to_avro_json has no form for a custom node.
EncodableAsAvro(s) == \A p \in DOMAIN s : s[p].kind # "custom"

\* BinaryPump::plan from the transform's schema on, and the writer's schema.
PlanRestoration ==
  LET t == OutputSchema(plans.reduced) IN
  /\ At("reduced")
  /\ job.key => TargetsFit(plans.reduced, job.targets)
  /\ ValidSchema(t)
  /\ IF job.reductor = "common" THEN RestoreCommon(t) ELSE RestoreWasm(t)
  /\ EncodableAsAvro(plans'.output)
  /\ GoTo("planned") /\ UNCHANGED <<job, input>>

\* BinaryPump::process, and the record's append to the output.  The check of the
\* targets is repeated per record: without a key nothing has made it before.
Process ==
  /\ At("planned") /\ input # <<>>
  /\ \E reduced \in Reduced(Head(input)) :
       /\ TargetsFit(plans.reduced, job.targets)
       /\ ~ CutShort(reduced)
       /\ Conforms(Transformed(reduced), plans.transformed)
       /\ \E restored \in Restored(Transformed(reduced)) :
            /\ Conforms(restored, plans.output)
            /\ output' = [output EXCEPT !.records = Append(@, restored)]
  /\ input' = Tail(input)
  /\ UNCHANGED <<job, plans>>

\* The output leaves the writer after the last record.
Finish ==
  /\ At("planned") /\ input = <<>>
  /\ GoTo("ok") /\ UNCHANGED <<job, plans, input>>

\* Any error: a refused plan, an answer out of bounds, a guest's error or trap,
\* a value that does not fit.
Broken ==
  /\ output.at \notin {"ok", "failed"}
  /\ GoTo("failed") /\ UNCHANGED <<job, plans, input>>

PumpNext == PlanReduction \/ PlanRestoration \/ Process \/ Finish \/ Broken

PumpSpec == PumpInit /\ [][PumpNext]_pumpVars

-----------------------------------------------------------------------------
(* The schema of an object that was converted is the source's everywhere but
   below a claimed path and at the targets: three schemas are derived from one
   another, and a change slipped into any of them would show here. *)
SchemaOutsideClaims ==
  At("ok") =>
    LET free == {p \in DOMAIN plans.output : ~ Owned(plans.claims \cup job.targets, p)} IN
    free \subseteq DOMAIN plans.source /\ \A p \in free : plans.output[p] = plans.source[p]

(* Under the built-in reductor no converted object holds the text of a target,
   at any index of an array on the way to it, and all else is as it was sent. *)
TargetsHidden ==
  (At("ok") /\ job.reductor = "common") =>
    /\ Len(output.records) = Len(job.sent)
    /\ \A k \in DOMAIN job.sent : \A v \in DOMAIN job.sent[k] :
         IF Unindexed(v) \in job.targets
         THEN output.records[k][v].text # "plain"
         ELSE output.records[k][v] = job.sent[k][v]

(* No two owned paths, and no two targets, lie on one another, though only the
   neighbours of a sorted list were compared. *)
NoOverlap ==
  output.at \notin {"new", "failed"} =>
    \A owned \in {plans.claims, job.targets} :
      \A p, q \in owned : p # q => ~ IsPrefix(p, q)
=============================================================================
