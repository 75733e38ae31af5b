----------------------------- MODULE MCDesktop -----------------------------
(***************************************************************************)
(* Two writes that share an args_hash, their texts being of one length and one *)
(* number of lines, a write to another file of folder A, a command there, and  *)
(* a search.                                                                   *)
(***************************************************************************)
EXTENDS Desktop

Text(bytes) == [bytes |-> bytes, len |-> 3, lines |-> 1]
Write(file, bytes) ==
  [tool |-> "write_file", path |-> file, content |-> Text(bytes), within |-> "A"]
Run(cwd) ==
  [tool |-> "execute_command", program |-> <<"p">>, args |-> <<<<"a">>, <<"b">>>>,
   cwd |-> cwd, within |-> "A"]
MCActions ==
  {Write("f", "yes"), Write("f", "not"), Write("g", "yes"), Run("src"),
   [tool |-> "web_search", query |-> "q", within |-> "any"]}
=============================================================================
