--------------------------- MODULE DocumentChunks ---------------------------
(***************************************************************************)
(* send_documents: the lines of a run are framed as request bodies of at   *)
(* most max_request_bytes, each sent before the next is framed (struct     *)
(* DocumentChunks).  A body is the interval of the messages it carries.    *)
(***************************************************************************)
EXTENDS Integers, Sequences

CONSTANTS
  Runs,       \* the runs: for each message, where its line ends in the text
              \* of all of them, and which payloads are no JSON object
  MaxBytes    \* `max_request_bytes`

(* A line is one byte at least, its newline. *)
ASSUME ChunksAssumption ==
  /\ MaxBytes \in Nat \ {0}
  /\ \A r \in Runs : /\ r.ends \in Seq(Nat \ {0}) /\ r.bad \subseteq DOMAIN r.ends
                     /\ \A i, j \in DOMAIN r.ends : i < j => r.ends[i] < r.ends[j]

VARIABLES
  run,      \* the messages of the run
  phase,    \* frame, send, done or failed
  first,    \* the first message of the body being framed or sent
  last,     \* the last message of that body; first - 1 when it is empty
  read,     \* messages taken from the iterator; last, or carried behind it
  bodies    \* the bodies sent

vars == <<run, phase, first, last, read, bodies>>

Body == [first : Nat, last : Nat]

TypeOK == /\ run.ends \in Seq(Nat \ {0}) /\ run.bad \subseteq DOMAIN run.ends
          /\ phase \in {"frame", "send", "done", "failed"}
          /\ read \in 0 .. Len(run.ends) /\ first \in 1 .. read + 1
          /\ last \in first - 1 .. read /\ last \in {read - 1, read}
          /\ phase = "send" => first <= last
          /\ bodies \in Seq(Body)

Init == /\ run \in Runs /\ phase = "frame"
        /\ first = 1 /\ last = 0 /\ read = 0 /\ bodies = <<>>

(* Bytes of the lines from a to b. *)
Bytes(ends, a, b) == ends[b] - (IF a = 1 THEN 0 ELSE ends[a - 1])

(* Mutant: the document that no longer fits stays in the body. *)
FullBehind == last >= first /\ Bytes(run.ends, first, last) > MaxBytes

(* Mutant: a body of exactly the limit is full already. *)
FullAtLimit == last >= first /\ Bytes(run.ends, first, read + 1) >= MaxBytes

(* The next document would take a body that is not empty past the limit. *)
Full == last >= first /\ Bytes(run.ends, first, read + 1) > MaxBytes

(* append_document fails on a payload that is no JSON object. *)
AppendFails == /\ phase = "frame" /\ read + 1 \in run.bad
               /\ phase' = "failed"
               /\ UNCHANGED <<run, first, last, read, bodies>>

AppendDocument ==
  /\ phase = "frame" /\ read < Len(run.ends) /\ read + 1 \notin run.bad
  /\ read' = read + 1
  /\ IF Full THEN phase' = "send" /\ UNCHANGED last
             ELSE last' = read' /\ UNCHANGED phase
  /\ UNCHANGED <<run, first, bodies>>

(* Mutant: an empty body is sent as well. *)
EndOfRunEmpty == /\ phase = "frame" /\ read = Len(run.ends)
                 /\ phase' = "send"
                 /\ UNCHANGED <<run, first, last, read, bodies>>

EndOfRun == /\ phase = "frame" /\ read = Len(run.ends)
            /\ phase' = IF last >= first THEN "send" ELSE "done"
            /\ UNCHANGED <<run, first, last, read, bodies>>

(* Mutant: the document carried over is forgotten. *)
SendBodyDropping ==
  /\ phase = "send" /\ phase' = "frame"
  /\ bodies' = Append(bodies, [first |-> first, last |-> last])
  /\ first' = read + 1 /\ last' = read
  /\ UNCHANGED <<run, read>>

(* The next body starts with the document carried over. *)
SendBody ==
  /\ phase = "send" /\ phase' = "frame"
  /\ bodies' = Append(bodies, [first |-> first, last |-> last])
  /\ first' = last + 1 /\ last' = read
  /\ UNCHANGED <<run, read>>

SendFails == /\ phase = "send" /\ phase' = "failed"
             /\ UNCHANGED <<run, first, last, read, bodies>>

Next == AppendFails \/ AppendDocument \/ EndOfRun \/ SendBody \/ SendFails

Spec == Init /\ [][Next]_vars

-----------------------------------------------------------------------------
(* The bodies carry the messages of the run one by one and in order (send_ *)
(* documents: "an earlier document can never land after a later one"), and *)
(* in the end all of them: Publisher cuts a run into such requests.        *)
EveryDocumentOnce ==
  /\ \A k \in DOMAIN bodies :
       /\ bodies[k].first = (IF k = 1 THEN 1 ELSE bodies[k - 1].last + 1)
       /\ bodies[k].first <= bodies[k].last
  /\ phase = "done" => IF bodies = <<>> THEN run.ends = <<>>
                       ELSE bodies[Len(bodies)].last = Len(run.ends)

(* No body is past the limit but one document that is so on its own        *)
(* (DocumentChunks: "still sent on its own").                              *)
BodyFits == \A k \in DOMAIN bodies :
              \/ bodies[k].first = bodies[k].last
              \/ Bytes(run.ends, bodies[k].first, bodies[k].last) <= MaxBytes

(* A body is cut only where its next document would have taken it past the *)
(* limit (DocumentChunks: "A new body starts whenever the current one would*)
(* grow past `max_bytes`").                                                *)
CutOnlyWhenFull == \A k \in DOMAIN bodies :
  k > 1 => Bytes(run.ends, bodies[k - 1].first, bodies[k].first) > MaxBytes

=============================================================================
