------------------------------ MODULE FixedContract ------------------------------
(***************************************************************************)
(* The code of #[fixed_offset_layout] implements ViewContract for the      *)
(* values its decoder can take: the mapping of its state, and the fairness *)
(* the mapping needs.                                                      *)
(***************************************************************************)
EXTENDS FixedCodec

\* An absent trailing field, or one too long for its header, cannot be decoded.
Readable ==
  wrote # NoEncoding /\ wrote.lo % BaseAlign = 0 /\ TailReadable(wrote.val)

OfWritten == slice = [lo |-> wrote.lo, hi |-> wrote.hi]
ViewOfStored == Readable /\ view = [lo |-> wrote.lo, hi |-> wrote.hi]

\* The call as the contract sees it: its name, the value it stores, the field it shows.
Called(name, value, field) == [name |-> name, value |-> value, field |-> field]

LastCall ==
  CASE op = "none"                            -> Called("none", << >>, 0)
    [] op \in {"encode", "encode_to"}         -> Called("encode", val, 0)
    [] op = "decode" /\ Readable /\ OfWritten -> Called("decode", << >>, 0)
    [] op = "get" /\ ViewOfStored             -> Called("get", << >>, goal)
    [] OTHER                                  -> Called("other", << >>, 0)

LastShown ==
  IF ViewOfStored /\ Returned("get")
  THEN [field |-> goal, shown |-> [count |-> ret.count, data |-> ret.data]]
  ELSE [field |-> 0, shown |-> << >>]

\* A call that panics has ended, with the program.
Contract == INSTANCE ViewContract
  WITH Value   <- Seq(FieldValue),
       stored  <- IF Readable THEN wrote.val ELSE << >>,
       open    <- ViewOfStored,
       call    <- LastCall,
       running <- pc \notin {"idle", "panic"},
       answer  <- LastShown

\* The generated code is a sequential program that does not wait for anything:
\* while it has a step to take, it takes it.  The caller is free never to call.
FairSpec == Spec /\ WF_vars(phase = "emitted" /\ Running /\ UNCHANGED expandVars)

(* Every value the macro's encoder stores at an aligned address can be     *)
(* opened and read back field by field, as often as asked, whatever was in *)
(* the buffer; and every call returns, if only by a panic.                 *)
ImplementsContract == Contract!Spec
=============================================================================
