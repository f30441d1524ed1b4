----------------------------- MODULE MCLogStream -----------------------------
(***************************************************************************)
(* A small instance of LogStream for TLC: secrets that overlap each other  *)
(* and themselves, one with a character that is escaped, a pattern.        *)
(***************************************************************************)
EXTENDS LogStream

SmallBytes == {"a", "b", "<", "lead", "cont"}

SmallOutputs == {<<>>, <<"a", "a", "b">>, <<"a", "<", "a", "b">>, <<"b", "lead", "cont", "a">>}

SmallMaskings == {
  [secrets |-> <<>>, patterns |-> <<>>],
  [secrets |-> << <<"a", "b">>, <<"a", "a", "b">> >>, patterns |-> <<>>],
  [secrets |-> << <<"a", "<">>, <<"lead", "cont">> >>, patterns |-> << <<"b">> >>]}

=============================================================================
