------------------------------ MODULE Planning ------------------------------
(***************************************************************************)
(* How the publisher groups one batch into runs: classify, target_index,   *)
(* document_id and the loop body of plan (publisher.rs).  A run is what    *)
(* one HTTP request carries: messages of one operation on one index.       *)
(*                                                                         *)
(* A message is the record of what the plan reads of it: the value its     *)
(* `operation` template resolves to, the index its `index` template        *)
(* resolves to (NoIndex when it resolves to nothing or to a blank), the    *)
(* document it writes (its id, after `stringify`), and whether document_id *)
(* accepts it (a JSON object with a usable id).  Everything else of a      *)
(* payload is left out.                                                    *)
(***************************************************************************)
EXTENDS Naturals, Sequences

CONSTANTS
  Docs,             \* the documents (ids) messages can write
  Indexes,          \* the indexes they can be written to
  NoIndex,          \* an `index` template that resolved to nothing
  Operations,       \* what an `operation` template can resolve to
  DeleteValues,     \* the `delete_values` of the configuration
  Truncate,         \* the operation value that stops the plan
  Keyed,            \* `primary_key` is configured
  OperationMapped,  \* `operation` is configured
  Routed,           \* `index` is a template rather than a literal
  Literal           \* the literal index, used when ~Routed

ASSUME PlanningAssumption ==
  /\ Keyed \in BOOLEAN /\ OperationMapped \in BOOLEAN /\ Routed \in BOOLEAN
  /\ OperationMapped => Keyed       \* config.rs refuses `operation` without a key
  /\ DeleteValues \subseteq Operations
  /\ NoIndex \notin Indexes
  /\ Literal \in Indexes

Kinds == {"upsert", "delete"}

Other(op) == IF op = "upsert" THEN "delete" ELSE "upsert"

Message == [operation : Operations, index : Indexes \cup {NoIndex},
            doc : Docs, valid : BOOLEAN]

(* A message the plan cannot place: a truncate, or one with no index. *)
Unplaceable(m) == \/ OperationMapped /\ m.operation = Truncate
                  \/ Routed /\ m.index = NoIndex

(* Mutant: the template's value is passed on unmapped. *)
ClassifyUnmapped(m) == m.operation

Classify(m) ==
  IF OperationMapped /\ m.operation \in DeleteValues THEN "delete" ELSE "upsert"

TargetIndex(m) == IF Routed THEN m.index ELSE Literal

Run == [op : Kinds, index : Indexes, segment : Nat, positions : Seq(Nat)]

NothingKeyed == [k \in Indexes \X Docs |-> "none"]

(* The local state of the loop.  segmentStart is the number of runs before *)
(* the current segment; stopped is the position planning stopped at, or 0. *)
EmptyPlan == [runs |-> <<>>, segment |-> 0, segmentStart |-> 0,
              keyed |-> NothingKeyed, unkeyed |-> {},
              rejected |-> {}, stopped |-> 0]

Plan == [runs : Seq(Run), segment : Nat, segmentStart : Nat,
         keyed : [Indexes \X Docs -> Kinds \cup {"none"}],
         unkeyed : SUBSET (Indexes \X Kinds),
         rejected : SUBSET Nat, stopped : Nat]

(* The runs of the current segment. *)
Current(p) == (p.segmentStart + 1) .. Len(p.runs)

(* Whether placing m would put two operations on one document in a segment. *)
Conflicts(p, m) ==
  IF Keyed
  THEN \/ <<TargetIndex(m), Other(Classify(m))>> \in p.unkeyed
       \/ p.keyed[<<TargetIndex(m), m.doc>>] = Other(Classify(m))
  ELSE \E r \in Current(p) : /\ p.runs[r].index = TargetIndex(m)
                             /\ p.runs[r].op # Classify(m)

(* Mutant: the new segment goes on using the runs of the old one. *)
CutKeepingRuns(p, m) ==
  IF Conflicts(p, m)
  THEN [p EXCEPT !.segment = @ + 1, !.keyed = NothingKeyed, !.unkeyed = {}] ELSE p

(* Mutant: what the old segment noted is not cleared. *)
CutKeepingNotes(p, m) ==
  IF Conflicts(p, m)
  THEN [p EXCEPT !.segment = @ + 1, !.segmentStart = Len(p.runs)] ELSE p

(* A conflict opens a segment, with nothing noted in it. *)
Cut(p, m) ==
  IF Conflicts(p, m)
  THEN [p EXCEPT !.segment = @ + 1, !.segmentStart = Len(p.runs),
                 !.keyed = NothingKeyed, !.unkeyed = {}]
  ELSE p

Noted(p, m) ==
  IF Keyed
  THEN [p EXCEPT !.keyed = [@ EXCEPT ![<<TargetIndex(m), m.doc>>] = Classify(m)]]
  ELSE [p EXCEPT !.unkeyed = @ \cup {<<TargetIndex(m), Classify(m)>>}]

(* The runs of the current segment that can take m: at most one. *)
Fitting(p, m) == {r \in Current(p) : /\ p.runs[r].op = Classify(m)
                                     /\ p.runs[r].index = TargetIndex(m)}

(* Mutant: the position is put in front. *)
JoinedInFront(p, r, i) == [p EXCEPT !.runs[r].positions = <<i>> \o @]

Joined(p, r, i) == [p EXCEPT !.runs[r].positions = Append(@, i)]

Opened(p, m, i) ==
  [p EXCEPT !.runs = Append(@, [op |-> Classify(m), index |-> TargetIndex(m),
                                segment |-> p.segment, positions |-> <<i>>])]

Stopped(p, i) == [p EXCEPT !.stopped = i]

(* Mutant: a rejection replaces the one before. *)
RejectedLast(p, i) == [p EXCEPT !.rejected = {i}]

Rejected(p, i) == [p EXCEPT !.rejected = @ \cup {i}]

(* The plan before m joins or opens a run. *)
Ready(p, m) == Noted(Cut(p, m), m)

(* One pass of the loop: message m at position i, planning still going on. *)
Placed(p, m, i) ==
  LET q == Ready(p, m)
  IN IF Fitting(q, m) = {} THEN Opened(q, m, i)
     ELSE Joined(q, CHOOSE r \in Fitting(q, m) : TRUE, i)

Considered(p, m, i) ==
  IF p.stopped # 0 THEN p
  ELSE IF Unplaceable(m) THEN Stopped(p, i)
  ELSE IF ~m.valid THEN Rejected(p, i)
  ELSE Placed(p, m, i)

=============================================================================
