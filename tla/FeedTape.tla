------------------------------ MODULE FeedTape ------------------------------
(***************************************************************************)
(* What a feed session promises its consumer, with no pipe, lock or thread *)
(* in it: the records offered are numbered 1, 2, 3, ...; they are sent in  *)
(* that order, and a number that was passed over had been admitted to be   *)
(* lost before anything after it was sent.                                 *)
(***************************************************************************)
EXTENDS Naturals, Sequences

CONSTANT BatchSizes

VARIABLES
  offered,   \* how many numbers have been handed out
  tape,      \* the numbers sent, in order
  lost,      \* the numbers reported as dropped
  ended      \* the session has given its slot back

vars == <<offered, tape, lost, ended>>

Sent == {tape[i] : i \in DOMAIN tape}
Waiting == 1 .. offered \ (Sent \cup lost)
BeforeAllOf(S, T) == \A p \in S, q \in T : p < q

Init == offered = 0 /\ tape = <<>> /\ lost = {} /\ ended = FALSE

(* A batch is numbered and queued. *)
Offer(n) ==
  /\ ~ended
  /\ offered' = offered + n
  /\ UNCHANGED <<tape, lost, ended>>

(* A batch is numbered and withheld; nothing says the session is still open,
   because the publisher may have looked before it closed. *)
Withhold(n) ==
  /\ offered' = offered + n
  /\ lost' = lost \cup offered + 1 .. offered + n
  /\ UNCHANGED <<tape, ended>>

(* The oldest waiting record is sent. *)
Deliver ==
  /\ ~ended
  /\ \E q \in Waiting : /\ BeforeAllOf({q}, Waiting \ {q})
                        /\ tape' = Append(tape, q)
  /\ UNCHANGED <<offered, lost, ended>>

(* The oldest waiting records are thrown away. *)
Discard ==
  /\ ~ended
  /\ \E S \in SUBSET Waiting : BeforeAllOf(S, Waiting \ S) /\ lost' = lost \cup S
  /\ UNCHANGED <<offered, tape, ended>>

End ==
  /\ ~ended
  /\ ended' = TRUE
  /\ UNCHANGED <<offered, tape, lost>>

Next == (\E n \in BatchSizes : Offer(n) \/ Withhold(n)) \/ Deliver \/ Discard \/ End

Spec == Init /\ [][Next]_vars
=============================================================================
