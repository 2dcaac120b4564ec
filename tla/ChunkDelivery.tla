----------------------------- MODULE ChunkDelivery -----------------------------
(***************************************************************************)
(* What a range-for over response::chunk_response() promises its caller:   *)
(* the chunks of the server, whole, in order, each once; it completes only *)
(* if the server ended the message and every chunk was handed over, and    *)
(* otherwise the caller is told of a failure, or left the loop itself.     *)
(* Segments, buffers, the parser and its callbacks do not show.            *)
(***************************************************************************)
EXTENDS Naturals, Sequences

CONSTANTS
  Unit(_, _),  \* the j-th unit of data of the i-th chunk
  MaxSize      \* bound: units of data in a chunk

VARIABLES
  sizes,       \* sizes of the chunks the server wrote
  wire,        \* "open", "ended" by the server, or "cut"
  out,         \* the chunks handed over
  status       \* "streaming", "complete", "failed" or "left" by the caller

vars == <<sizes, wire, out, status>>

Chunk(i) == [j \in 1 .. sizes[i] |-> Unit(i, j)]

Init == sizes = <<>> /\ wire = "open" /\ out = <<>> /\ status = "streaming"

Write ==
  /\ wire = "open"
  /\ \E n \in 1 .. MaxSize : sizes' = Append(sizes, n)
  /\ UNCHANGED <<wire, out, status>>

\* The server ends the message.
End == wire = "open" /\ wire' = "ended" /\ UNCHANGED <<sizes, out, status>>

\* The connection is cut; the end of the message may be lost with it.
Cut == wire # "cut" /\ wire' = "cut" /\ UNCHANGED <<sizes, out, status>>

Deliver ==
  /\ status = "streaming" /\ Len(out) < Len(sizes)
  /\ out' = Append(out, Chunk(Len(out) + 1))
  /\ UNCHANGED <<sizes, wire, status>>

Complete ==
  /\ status = "streaming" /\ wire = "ended" /\ Len(out) = Len(sizes)
  /\ status' = "complete"
  /\ UNCHANGED <<sizes, wire, out>>

\* The connection, the body limit or the framing of the response failed.
Fail == status = "streaming" /\ status' = "failed" /\ UNCHANGED <<sizes, wire, out>>

Leave == status = "streaming" /\ status' = "left" /\ UNCHANGED <<sizes, wire, out>>

Next == Write \/ End \/ Cut \/ Deliver \/ Complete \/ Fail \/ Leave

Spec == Init /\ [][Next]_vars

=============================================================================
