---------------------------- MODULE VariableContract ----------------------------
(***************************************************************************)
(* The code of #[variable_offset_layout] implements ViewContract: the      *)
(* mapping of its state, and the fairness the mapping needs.               *)
(***************************************************************************)
EXTENDS VariableCodec

\* The last encoding, if the struct's own decoder is meant to take it: it starts
\* at a legal address and the two alignment checks do not disagree.
Readable == wrote # NoEncoding /\ LegalAddress(wrote.lo) /\ ~ChecksDisagree

DecodesStored ==
  /\ Readable /\ slice.lo = wrote.lo
  /\ \/ op = "decode" /\ slice.hi = wrote.hi
     \/ op = "decode_prefix" /\ slice.hi >= wrote.hi

ViewOfStored == Readable /\ view.lo = wrote.lo /\ view.hi = wrote.hi

\* The call as the contract sees it: its name, the value it stores, the field it shows.
Called(name, value, field) == [name |-> name, value |-> value, field |-> field]

LastCall ==
  CASE op = "none"                  -> Called("none", << >>, 0)
    [] op = "encode"                -> Called("encode", val, 0)
    [] DecodesStored                -> Called("decode", << >>, 0)
    [] op = "get" /\ ViewOfStored   -> Called("get", << >>, goal)
    [] OTHER                        -> Called("other", << >>, 0)

LastShown ==
  IF ViewOfStored /\ Returned("get")
  THEN [field |-> goal, shown |-> [count |-> ret.count, data |-> ret.data]]
  ELSE [field |-> 0, shown |-> << >>]

Contract == INSTANCE ViewContract
  WITH Value   <- Seq(FieldValue),
       stored  <- IF Readable THEN wrote.val ELSE << >>,
       open    <- ViewOfStored,
       call    <- LastCall,
       running <- pc \notin {"idle", "panic"},
       answer  <- LastShown

\* The generated code is a sequential program that does not wait for anything:
\* while it has a step to take, it takes it.  The caller is free never to call.
Running ==
  /\ phase = "emitted" /\ UNCHANGED expandVars
  /\ \/ AddLen \/ CheckRoom \/ WriteField \/ EncodeDone
     \/ ValidateField \/ DecodeDone \/ GetStep \/ GetRead

FairSpec == Spec /\ WF_vars(Running)

(* Every value the macro's encoder stores at a legal address can be opened *)
(* and read back, as often as asked, whatever was in the buffer, whatever  *)
(* other bytes are decoded in between; and every call returns.             *)
ImplementsContract == Contract!Spec
=============================================================================
