------------------------------- MODULE MCShell -------------------------------
(* Instances of Shell for TLC. *)
EXTENDS Shell

Stage(prog, redirs) == [prog |-> prog, redirs |-> redirs]
Source == Stage("source", <<>>)
Filter == Stage("filter", <<>>)
First  == Stage("head", <<>>)
Nobody == Stage("none", <<>>)

\* Pipelines of up to two stages, of three with one that stops early or is
\* not there, redirections, and a line that does not parse (the empty one).
Pipelines ==
  BoundedSeq({Source, Filter, First, Nobody}, 2) \cup
  {<<Source, Filter, Filter>>, <<Source, First, Filter>>,
   <<Source, Source, Nobody>>, <<Source, Nobody, Filter>>,
   <<Stage("source", <<1>>), Filter>>, <<Source, Stage("filter", <<0>>)>>}

\* A command with an input and an output file, in both orders.
Redirections == {<<Stage("filter", <<0, 1>>)>>, <<Stage("filter", <<1, 0>>)>>}
=============================================================================
