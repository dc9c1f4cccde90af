------------------------------ MODULE ViewContract ------------------------------
(***************************************************************************)
(* What the callers of a layout may rely on, whichever macro generated it. *)
(*                                                                         *)
(* A buffer holds at most one value that was encoded completely and can be *)
(* decoded.  Decoding it opens a view, and every getter of the view shows  *)
(* the field that was encoded, in any order and as often as asked, until   *)
(* somebody encodes into the buffer again.  One call runs at a time and    *)
(* returns; about the other bytes of the buffer nothing more is promised.  *)
(***************************************************************************)
EXTENDS Naturals, Sequences

CONSTANT Value      \* the values of the struct: what each field holds

VARIABLES
  stored,   \* the value the buffer holds, or Nothing
  open,     \* a view of it is open
  call,     \* the running or the last call, or NoCall
  running,  \* whether it is running
  answer    \* what the last getter of the open view showed, or NoAnswer

contractVars == << stored, open, call, running, answer >>

Nothing == << >>
Called(name, value, field) == [name |-> name, value |-> value, field |-> field]
NoCall == Called("none", Nothing, 0)
NoAnswer == [field |-> 0, shown |-> Nothing]

Init ==
  stored = Nothing /\ open = FALSE /\ call = NoCall /\ running = FALSE /\ answer = NoAnswer

-----------------------------------------------------------------------------
(* A call starts.  Encoding and decoding end the view there was.           *)

Ask(c) == ~running /\ call' = c /\ answer' = NoAnswer

\* The value that is going to be overwritten may be lost at once.
AskEncode ==
  /\ call'.value \in Value /\ Ask(Called("encode", call'.value, 0))
  /\ running' = TRUE /\ open' = FALSE /\ stored' \in {stored, Nothing}

AskDecode ==
  /\ stored # Nothing /\ Ask(Called("decode", Nothing, 0))
  /\ running' = TRUE /\ open' = FALSE /\ UNCHANGED stored

AskGet ==
  /\ open /\ \E i \in DOMAIN stored : Ask(Called("get", Nothing, i))
  /\ running' = TRUE /\ UNCHANGED << stored, open >>

\* Decoding other bytes, or a getter of such a view; it may fail at once.
AskOther ==
  /\ Ask(Called("other", Nothing, 0))
  /\ running' \in BOOLEAN /\ open' = FALSE /\ UNCHANGED stored

-----------------------------------------------------------------------------
(* A call makes progress or returns. *)

Lose ==
  /\ running /\ call.name = "encode"
  /\ stored' = Nothing /\ UNCHANGED << open, call, running, answer >>

Return(name) == running /\ call.name = name /\ running' = FALSE /\ UNCHANGED call

Stored == Return("encode") /\ stored' = call.value /\ UNCHANGED << open, answer >>

\* An encode that fails, or writes a value that cannot be decoded.
NotStored ==
  Return("encode") /\ stored' \in {stored, Nothing} /\ UNCHANGED << open, answer >>

\* A stored value is never refused.
Opened == Return("decode") /\ open' = TRUE /\ UNCHANGED << stored, answer >>

Shown ==
  /\ open /\ Return("get")
  /\ answer' = [field |-> call.field, shown |-> stored[call.field]]
  /\ UNCHANGED << stored, open >>

OtherDone == Return("other") /\ UNCHANGED << stored, open, answer >>

Next ==
  \/ AskEncode \/ AskDecode \/ AskGet \/ AskOther
  \/ Lose \/ Stored \/ NotStored \/ Opened \/ Shown \/ OtherDone

\* Every call returns.
Responsive == running ~> ~running

Safety == Init /\ [][Next]_contractVars

Spec == Safety /\ Responsive
=============================================================================
