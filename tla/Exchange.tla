-------------------------------- MODULE Exchange --------------------------------
(***************************************************************************)
(* What one connection promises its caller, who makes one call after the   *)
(* other: as long as each call is made when the response to the one before *)
(* has been read, and none is read again, the caller gets the response to  *)
(* his call, or a 1xx response to it, or a failure.  After that, `orderly' *)
(* being FALSE, a response may be anyone's; but a call that has come to an *)
(* end stays as it is, unless the caller reads again what was handed to    *)
(* him to read.  Connections, buffers and hosts do not show.               *)
(***************************************************************************)
EXTENDS Sequences

VARIABLES
  standing,    \* of each call: "waiting", "unread" for a streamed response in hand, "own",
               \* "interim", "other" or "failed"
  handed,      \* the calls whose responses were handed over to be read
  orderly      \* every call was made when all before it had their own response, and no
               \* response was read again

vars == <<standing, handed, orderly>>

Init == standing = <<>> /\ handed = {} /\ orderly = TRUE

Ask ==
  /\ standing' = Append(standing, "waiting")
  /\ orderly' = (orderly /\ \A i \in DOMAIN standing : standing[i] = "own")
  /\ UNCHANGED handed

\* Call i, which has not ended, comes to stand as s.
Becomes(i, s) ==
  /\ standing[i] \in {"waiting", "unread"}
  /\ standing' = [standing EXCEPT ![i] = s]
  /\ UNCHANGED orderly

\* The response is handed over to be read later.
HandOver ==
  \E i \in DOMAIN standing :
    standing[i] = "waiting" /\ Becomes(i, "unread") /\ handed' = handed \cup {i}

Answer ==
  \E i \in DOMAIN standing : (Becomes(i, "own") \/ Becomes(i, "interim")) /\ UNCHANGED handed

Mistake == ~orderly /\ \E i \in DOMAIN standing : Becomes(i, "other") /\ UNCHANGED handed

Fail == \E i \in DOMAIN standing : Becomes(i, "failed") /\ UNCHANGED handed

\* The caller starts to read again, whatever has come of the first time.
ReadAgain ==
  /\ \E i \in handed : standing' = [standing EXCEPT ![i] = "unread"]
  /\ orderly' = FALSE
  /\ UNCHANGED handed

Next == Ask \/ HandOver \/ Answer \/ Mistake \/ Fail \/ ReadAgain

Spec == Init /\ [][Next]_vars

=============================================================================
